-------------------------- MODULE Progress_proofs ---------------------------
(***************************************************************************)
(* Proofs about how progress is reported: ProgressBus, for any collectors, *)
(* any number of reporters and events and any buffer of a collector, and   *)
(* GrpcPrepare, for any number of calls and events and any buffer.         *)
(***************************************************************************)
EXTENDS ProgressBus, GrpcPrepare, SequenceTheorems, TLAPS
-----------------------------------------------------------------------------
(* ProgressBus                                                             *)
Event == Collectors \X Nat

Has(s, e) == \E i \in 1..Len(s) : s[i] = e

\* The events of one collector rise.
Rising(s) == \A i, k \in 1..Len(s) : i < k /\ s[i][1] = s[k][1] => s[i][2] < s[k][2]

BusType ==
    /\ reported \in [Collectors -> Nat] /\ lastReported \in [Collectors -> Nat]
    /\ queue \in [Collectors -> Seq(Event)] /\ taken \in [Collectors -> Seq(Event)]
    /\ held \in [Collectors -> Event \cup {Idle}]
    /\ hub \in [ev : Event \cup {Idle}, next : R]
    /\ inbox \in [R -> Seq(Event)] /\ \A r \in R : Len(inbox[r]) <= 1
    /\ busy \in [R -> Event \cup {Idle}] /\ seen \in [R -> Seq(Event)]

\* What every reporter has been given: the last one is served last.
Common == Given(Reporters)

\* The reporters before the next one have the event in the hub too.
Lockstep ==
    \A r \in R : Given(r) = IF hub.ev # Idle /\ r < hub.next
                            THEN Append(Common, hub.ev) ELSE Common

\* The places of an event of c, from the oldest events to the newest.
Out(c, n)   == Has(Common, <<c, n>>)
InHub(c, n) == hub.ev = <<c, n>>
InHand(c, n) == held[c] = <<c, n>>
Waits(c, n) == Has(queue[c], <<c, n>>)
Took(c, n)  == Has(taken[c], <<c, n>>)

Flow(c) ==
    /\ \A n \in Nat : Took(c, n) <=> Out(c, n) \/ InHub(c, n) \/ InHand(c, n) \/ Waits(c, n)
    /\ \A n, m \in Nat :
          /\ Out(c, n) /\ (InHub(c, m) \/ InHand(c, m) \/ Waits(c, m)) => n < m
          /\ InHub(c, n) /\ (InHand(c, m) \/ Waits(c, m)) => n < m
          /\ InHand(c, n) /\ Waits(c, m) => n < m
    /\ \A n \in Nat : Took(c, n) => n <= reported[c]
    /\ \A i \in 1..Len(queue[c]) : queue[c][i][1] = c
    /\ \A i \in 1..Len(taken[c]) : taken[c][i][1] = c
    /\ held[c] # Idle => held[c][1] = c
    /\ Rising(queue[c])

\* The last event is never held back by the throttle.
LastKept == \A c \in Collectors :
    reported[c] <= Total /\ (reported[c] = Total => lastReported[c] = Total)

BusInv ==
    /\ BusType /\ Lockstep /\ LastKept /\ Rising(Common)
    /\ \A c \in Collectors : Flow(c)

-----------------------------------------------------------------------------
(***************************************************************************)
(* Sequences of events.                                                    *)
(***************************************************************************)

LEMMA EventFacts ==
    /\ \A e \in Event : e # Idle /\ e[1] \in Collectors /\ e[2] \in Nat /\ e = <<e[1], e[2]>>
    /\ \A c, n : <<c, n>> # Idle
<1>1. \A c, n : <<c, n>> # Idle
  <2> SUFFICES ASSUME NEW c, NEW n PROVE <<c, n>> # <<>>
    BY DEF Idle
  <2>1. Len(<<c, n>>) = 2 /\ Len(<<>>) = 0
    OBVIOUS
  <2> QED
    BY <2>1
<1>2. \A e \in Event : e[1] \in Collectors /\ e[2] \in Nat /\ e = <<e[1], e[2]>>
  BY DEF Event
<1> QED
  BY <1>1, <1>2

LEMMA EmptyHas == \A e : ~Has(<<>>, e) /\ Rising(<<>>)
  BY DEF Has, Rising

LEMMA AppendHas ==
    ASSUME NEW s \in Seq(Event), NEW e \in Event
    PROVE  /\ Append(s, e) \in Seq(Event)
           /\ \A x : Has(Append(s, e), x) <=> Has(s, x) \/ x = e
           /\ Rising(s) /\ (\A n \in Nat : Has(s, <<e[1], n>>) => n < e[2])
                 => Rising(Append(s, e))
<1>1. /\ Append(s, e) \in Seq(Event) /\ Len(s) \in Nat
      /\ Len(Append(s, e)) = Len(s) + 1 /\ Append(s, e)[Len(s) + 1] = e
      /\ \A i \in 1..Len(s) : Append(s, e)[i] = s[i]
  OBVIOUS
<1>2. \A x : Has(Append(s, e), x) <=> Has(s, x) \/ x = e
  BY <1>1 DEF Has
<1>3. ASSUME Rising(s), \A n \in Nat : Has(s, <<e[1], n>>) => n < e[2]
      PROVE  Rising(Append(s, e))
  <2> SUFFICES ASSUME NEW i \in 1..(Len(s) + 1), NEW k \in 1..(Len(s) + 1), i < k,
                      Append(s, e)[i][1] = Append(s, e)[k][1]
               PROVE  Append(s, e)[i][2] < Append(s, e)[k][2]
    BY <1>1 DEF Rising
  <2>1. i \in 1..Len(s) /\ Append(s, e)[i] = s[i]
    BY <1>1
  <2>2. CASE k = Len(s) + 1
    <3>1. s[i] \in Event /\ s[i][1] = e[1]
      BY <1>1, <2>1, <2>2
    <3>2. s[i] = <<e[1], s[i][2]>> /\ s[i][2] \in Nat
      BY <3>1, EventFacts
    <3>3. Has(s, <<e[1], s[i][2]>>)
      BY <2>1, <3>2 DEF Has
    <3>4. s[i][2] < e[2]
      BY <1>3, <3>2, <3>3
    <3> QED
      BY <1>1, <2>1, <2>2, <3>4
  <2>3. CASE k \in 1..Len(s)
    BY <1>1, <1>3, <2>1, <2>3 DEF Rising
  <2> QED
    BY <1>1, <2>2, <2>3
<1> QED
  BY <1>1, <1>2, <1>3

LEMMA TailHas ==
    ASSUME NEW s \in Seq(Event), s # <<>>, Rising(s),
           NEW c, \A i \in 1..Len(s) : s[i][1] = c
    PROVE  /\ Tail(s) \in Seq(Event) /\ Head(s) \in Event /\ Head(s)[1] = c
           /\ \A x : Has(s, x) <=> Has(Tail(s), x) \/ x = Head(s)
           /\ Rising(Tail(s))
           /\ \A i \in 1..Len(Tail(s)) : Tail(s)[i][1] = c
           /\ \A n \in Nat : Has(Tail(s), <<c, n>>) => Head(s)[2] < n
<1>1. /\ Tail(s) \in Seq(Event) /\ Head(s) \in Event /\ Len(s) \in Nat \ {0}
      /\ Len(Tail(s)) = Len(s) - 1 /\ Head(s) = s[1] /\ 1 \in 1..Len(s)
      /\ \A i \in 1..(Len(s) - 1) : Tail(s)[i] = s[i + 1] /\ i + 1 \in 1..Len(s) /\ 1 < i + 1
      /\ \A i \in 1..Len(s) : s[i] \in Event
  OBVIOUS
<1>2. ASSUME NEW x PROVE Has(s, x) <=> Has(Tail(s), x) \/ x = Head(s)
  <2>1. ASSUME Has(s, x), x # Head(s) PROVE Has(Tail(s), x)
    <3>1. PICK i \in 1..Len(s) : s[i] = x
      BY <2>1 DEF Has
    <3>2. i # 1
      BY <1>1, <2>1, <3>1
    <3>3. i - 1 \in 1..(Len(s) - 1) /\ (i - 1) + 1 = i
      BY <1>1, <3>2
    <3>4. Tail(s)[i - 1] = x
      BY <1>1, <3>1, <3>3
    <3> QED
      BY <1>1, <3>3, <3>4 DEF Has
  <2>2. Has(Tail(s), x) => Has(s, x)
    BY <1>1 DEF Has
  <2>3. x = Head(s) => Has(s, x)
    BY <1>1 DEF Has
  <2> QED
    BY <2>1, <2>2, <2>3
<1>3. \A i, k \in 1..(Len(s) - 1) : i < k => i + 1 < k + 1
  BY <1>1
<1>4. Rising(Tail(s))
  BY <1>1, <1>3 DEF Rising
<1>5. \A i \in 1..Len(Tail(s)) : Tail(s)[i][1] = c
  BY <1>1
<1>6. ASSUME NEW n \in Nat, Has(Tail(s), <<c, n>>) PROVE Head(s)[2] < n
  <2>1. PICK i \in 1..(Len(s) - 1) : Tail(s)[i] = <<c, n>>
    BY <1>1, <1>6 DEF Has
  <2>2. s[1][2] < s[i + 1][2] /\ s[i + 1] = <<c, n>>
    BY <1>1, <2>1 DEF Rising
  <2> QED
    BY <1>1, <2>2
<1>7. Head(s)[1] = c
  BY <1>1
<1> QED
  BY <1>1, <1>2, <1>4, <1>5, <1>6, <1>7

\* What a reporter is given, in one sequence.
LEMMA Joined ==
    ASSUME NEW s \in Seq(Event)
    PROVE  /\ (s \o <<>>) \o <<>> = s
           /\ \A e \in Event : (s \o <<>>) \o <<e>> = Append(s, e)
           /\ \A e \in Event : (s \o <<e>>) \o <<>> = Append(s, e)
           /\ \A b, e \in Event : (s \o <<b>>) \o <<e>> = Append(Append(s, b), e)
<1>1. s \o <<>> = s
  BY ConcatEmptySeq
<1>2. \A e \in Event : s \o <<e>> = Append(s, e) /\ Append(s, e) \in Seq(Event)
  BY AppendIsConcat, AppendProperties
<1>3. \A e \in Event : Append(s, e) \o <<>> = Append(s, e)
  BY <1>2, ConcatEmptySeq
<1>4. \A b, e \in Event : Append(s, b) \o <<e>> = Append(Append(s, b), e)
  BY <1>2, AppendIsConcat
<1> QED
  BY <1>1, <1>2, <1>3, <1>4

LEMMA OneLetter ==
    ASSUME NEW s \in Seq(Event), Len(s) <= 1
    PROVE  s = <<>> \/ \E e \in Event : s = <<e>> /\ Head(s) = e
<1>1. Len(s) \in Nat
  OBVIOUS
<1>2. CASE Len(s) = 0
  BY <1>2
<1>3. CASE Len(s) = 1
  <2>1. s[1] \in Event /\ <<s[1]>> \in Seq(Event) /\ Head(s) = s[1]
    BY <1>3
  <2>2. s = <<s[1]>>
    BY <1>3, <2>1, SeqEqual
  <2> QED
    BY <2>1, <2>2
<1>4. \A n \in Nat : n <= 1 => n = 0 \/ n = 1
  OBVIOUS
<1>5. Len(s) = 0 \/ Len(s) = 1
  BY <1>1, <1>4, Zenon
<1> QED
  BY <1>2, <1>3, <1>5

-----------------------------------------------------------------------------
(***************************************************************************)
(* What a step does to what the reporters are given.                       *)
(***************************************************************************)

LEMMA GivenType ==
    ASSUME BusType, NEW r \in R
    PROVE  /\ Given(r) \in Seq(Event)
           /\ busy[r] = Idle /\ inbox[r] = <<>> => Given(r) = seen[r]
           /\ \A e \in Event : busy[r] = Idle /\ inbox[r] = <<e>> => Given(r) = Append(seen[r], e)
           /\ \A e \in Event : busy[r] = e /\ inbox[r] = <<>> => Given(r) = Append(seen[r], e)
           /\ \A b, e \in Event : busy[r] = b /\ inbox[r] = <<e>> =>
                 Given(r) = Append(Append(seen[r], b), e)
           /\ inbox[r] = <<>> \/ \E e \in Event : inbox[r] = <<e>> /\ Head(inbox[r]) = e
           /\ busy[r] = Idle \/ busy[r] \in Event
           /\ seen[r] \in Seq(Event)
<1>1. /\ inbox[r] = <<>> \/ \E e \in Event : inbox[r] = <<e>> /\ Head(inbox[r]) = e
      /\ busy[r] = Idle \/ busy[r] \in Event
      /\ seen[r] \in Seq(Event)
  <2>1. inbox[r] \in Seq(Event) /\ Len(inbox[r]) <= 1 /\ seen[r] \in Seq(Event)
        /\ busy[r] \in Event \cup {Idle}
    BY DEF BusType
  <2> QED
    BY <2>1, OneLetter
<1>2. /\ busy[r] = Idle /\ inbox[r] = <<>> => Given(r) = seen[r]
      /\ \A e \in Event : busy[r] = Idle /\ inbox[r] = <<e>> => Given(r) = Append(seen[r], e)
  <2>1. busy[r] = Idle => Given(r) = (seen[r] \o <<>>) \o inbox[r]
    BY DEF Given
  <2>2. /\ (seen[r] \o <<>>) \o <<>> = seen[r]
        /\ \A e \in Event : (seen[r] \o <<>>) \o <<e>> = Append(seen[r], e)
    BY <1>1, Joined
  <2> QED
    BY <2>1, <2>2, Zenon
<1>3. /\ \A e \in Event : busy[r] = e /\ inbox[r] = <<>> => Given(r) = Append(seen[r], e)
      /\ \A b, e \in Event : busy[r] = b /\ inbox[r] = <<e>> =>
            Given(r) = Append(Append(seen[r], b), e)
  <2>1. \A b \in Event : busy[r] = b => Given(r) = (seen[r] \o <<b>>) \o inbox[r]
    BY EventFacts DEF Given
  <2>2. /\ \A e \in Event : (seen[r] \o <<e>>) \o <<>> = Append(seen[r], e)
        /\ \A b, e \in Event : (seen[r] \o <<b>>) \o <<e>> = Append(Append(seen[r], b), e)
    BY <1>1, Joined
  <2> QED
    BY <2>1, <2>2, Zenon
<1>4. \A e \in Event : Append(seen[r], e) \in Seq(Event)
  BY <1>1, AppendProperties
<1>5. \A b, e \in Event : Append(Append(seen[r], b), e) \in Seq(Event)
  BY <1>4, AppendProperties
<1>6. Given(r) \in Seq(Event)
  <2>1. CASE busy[r] = Idle /\ inbox[r] = <<>>
    BY <1>1, <1>2, <2>1
  <2>2. CASE busy[r] = Idle /\ \E e \in Event : inbox[r] = <<e>>
    BY <1>2, <1>4, <2>2
  <2>3. CASE busy[r] \in Event /\ inbox[r] = <<>>
    BY <1>3, <1>4, <2>3
  <2>4. CASE busy[r] \in Event /\ \E e \in Event : inbox[r] = <<e>>
    BY <1>3, <1>5, <2>4
  <2> QED
    BY <1>1, <2>1, <2>2, <2>3, <2>4
<1> QED
  BY <1>1, <1>2, <1>3, <1>6

LEMMA BusTypeStep ==
    ASSUME BusType, [BusNext]_busVars
    PROVE  BusType'
<1>0. /\ reported \in [Collectors -> Nat] /\ lastReported \in [Collectors -> Nat]
      /\ queue \in [Collectors -> Seq(Event)] /\ taken \in [Collectors -> Seq(Event)]
      /\ held \in [Collectors -> Event \cup {Idle}]
      /\ hub \in [ev : Event \cup {Idle}, next : R]
      /\ inbox \in [R -> Seq(Event)] /\ \A r \in R : Len(inbox[r]) <= 1
      /\ busy \in [R -> Event \cup {Idle}] /\ seen \in [R -> Seq(Event)]
      /\ Reporters \in Nat \ {0} /\ 1 \in R
  BY BusBounds DEF BusType, R
<1>1. ASSUME NEW c \in Collectors, NEW elapsed \in BOOLEAN, Report(c, elapsed) PROVE BusType'
  <2>n. PICK n \in Nat : n = reported[c] + 1
    BY <1>0
  <2>r. /\ reported' = [reported EXCEPT ![c] = n]
        /\ lastReported' = lastReported \/ lastReported' = [lastReported EXCEPT ![c] = n]
    BY <1>1, <2>n DEF Report
  <2>1. reported' \in [Collectors -> Nat] /\ lastReported' \in [Collectors -> Nat]
    BY <1>0, <2>r
  <2>2. reported[c] + 1 \in Nat /\ <<c, reported[c] + 1>> \in Event
    BY <1>0 DEF Event
  <2>3. PICK e \in Event : e = <<c, reported[c] + 1>>
    BY <2>2
  <2>4. queue' = queue \/ queue' = [queue EXCEPT ![c] = Append(@, e)]
    BY <1>1, <2>3 DEF Report
  <2>5. taken' = taken \/ taken' = [taken EXCEPT ![c] = Append(@, e)]
    BY <1>1, <2>3 DEF Report
  <2>0. Append(queue[c], e) \in Seq(Event) /\ Append(taken[c], e) \in Seq(Event)
    BY <1>0, AppendProperties
  <2>6. queue' \in [Collectors -> Seq(Event)]
    BY <1>0, <2>0, <2>4
  <2>7. taken' \in [Collectors -> Seq(Event)]
    BY <1>0, <2>0, <2>5
  <2>8. UNCHANGED <<held, hub, inbox, busy, seen>>
    BY <1>1 DEF Report
  <2> QED
    BY <1>0, <2>1, <2>6, <2>7, <2>8 DEF BusType
<1>2. ASSUME NEW c \in Collectors, Subscribe(c) \/ Unsubscribe(c) \/ ForwardEnd(c)
      PROVE  BusType'
  <2>1. UNCHANGED <<reported, queue, taken, lastReported, held, hub, inbox, busy, seen>>
    BY <1>2 DEF Subscribe, Unsubscribe, ForwardEnd
  <2> QED
    BY <1>0, <2>1 DEF BusType
<1>3. ASSUME End \/ UNCHANGED busVars PROVE BusType'
  <2>1. UNCHANGED <<reported, queue, taken, lastReported, held, hub, inbox, busy, seen>>
    BY <1>3 DEF End, busVars
  <2> QED
    BY <1>0, <2>1 DEF BusType
<1>4. ASSUME NEW c \in Collectors, ForwardTake(c) PROVE BusType'
  <2>1. queue[c] \in Seq(Event) /\ queue[c] # <<>>
    BY <1>0, <1>4 DEF ForwardTake
  <2>2. Head(queue[c]) \in Event /\ Tail(queue[c]) \in Seq(Event)
    BY <2>1
  <2>3. held' \in [Collectors -> Event \cup {Idle}] /\ queue' \in [Collectors -> Seq(Event)]
    BY <1>0, <1>4, <2>2 DEF ForwardTake
  <2>4. UNCHANGED <<reported, taken, lastReported, hub, inbox, busy, seen>>
    BY <1>4 DEF ForwardTake
  <2> QED
    BY <1>0, <2>3, <2>4 DEF BusType
<1>5. ASSUME NEW c \in Collectors, HubTake(c) PROVE BusType'
  <2>1. held' \in [Collectors -> Event \cup {Idle}]
    BY <1>0, <1>5 DEF HubTake
  <2>2. hub' \in [ev : Event \cup {Idle}, next : R]
    BY <1>0, <1>5 DEF HubTake
  <2>3. UNCHANGED <<reported, queue, taken, lastReported, inbox, busy, seen>>
    BY <1>5 DEF HubTake
  <2> QED
    BY <1>0, <2>1, <2>2, <2>3 DEF BusType
<1>6. ASSUME HubSend PROVE BusType'
  <2>1. hub.ev \in Event /\ hub.next \in R
    BY <1>0, <1>6 DEF HubSend
  <2>2. hub.next # Reporters => hub.next + 1 \in R
    BY <1>0, <2>1 DEF R
  <2>3. hub' \in [ev : Event \cup {Idle}, next : R]
    BY <1>0, <1>6, <2>1, <2>2 DEF HubSend
  <2>4. PICK e \in Event : e = hub.ev
    BY <2>1
  <2>5. <<e>> \in Seq(Event) /\ Len(<<e>>) = 1
    OBVIOUS
  <2>6. inbox' = [inbox EXCEPT ![hub.next] = <<e>>]
    BY <1>6, <2>4 DEF HubSend
  <2>7. inbox' \in [R -> Seq(Event)] /\ \A r \in R : inbox'[r] = inbox[r] \/ inbox'[r] = <<e>>
    BY <1>0, <2>5, <2>6
  <2>8. \A r \in R : Len(inbox'[r]) <= 1
    <3> SUFFICES ASSUME NEW r \in R PROVE Len(inbox'[r]) <= 1
      OBVIOUS
    <3>1. CASE inbox'[r] = inbox[r]
      BY <1>0, <3>1
    <3>2. CASE inbox'[r] = <<e>>
      BY <2>5, <3>2
    <3> QED
      BY <2>7, <3>1, <3>2
  <2>9. UNCHANGED <<reported, queue, taken, lastReported, held, busy, seen>>
    BY <1>6 DEF HubSend
  <2> QED
    BY <1>0, <2>3, <2>7, <2>8, <2>9 DEF BusType
<1>7. ASSUME NEW q \in R, WorkerTake(q) PROVE BusType'
  <2>1. inbox[q] \in Seq(Event) /\ inbox[q] # <<>>
    BY <1>0, <1>7 DEF WorkerTake
  <2>2. Head(inbox[q]) \in Event
    BY <2>1
  <2>3. busy' \in [R -> Event \cup {Idle}]
    BY <1>0, <1>7, <2>2 DEF WorkerTake
  <2>4. <<>> \in Seq(Event) /\ Len(<<>>) = 0
    OBVIOUS
  <2>5. inbox' \in [R -> Seq(Event)] /\ \A r \in R : inbox'[r] = inbox[r] \/ inbox'[r] = <<>>
    BY <1>0, <1>7, <2>4 DEF WorkerTake
  <2>6. \A r \in R : Len(inbox'[r]) <= 1
    BY <1>0, <2>4, <2>5
  <2>7. UNCHANGED <<reported, queue, taken, lastReported, held, hub, seen>>
    BY <1>7 DEF WorkerTake
  <2> QED
    BY <1>0, <2>3, <2>5, <2>6, <2>7 DEF BusType
<1>8. ASSUME NEW q \in R, WorkerReport(q) PROVE BusType'
  <2>1. busy[q] \in Event /\ seen[q] \in Seq(Event)
    BY <1>0, <1>8 DEF WorkerReport
  <2>2. seen' \in [R -> Seq(Event)]
    BY <1>0, <1>8, <2>1 DEF WorkerReport
  <2>3. busy' \in [R -> Event \cup {Idle}]
    BY <1>0, <1>8 DEF WorkerReport
  <2>4. UNCHANGED <<reported, queue, taken, lastReported, held, hub, inbox>>
    BY <1>8 DEF WorkerReport
  <2> QED
    BY <1>0, <2>2, <2>3, <2>4 DEF BusType
<1> QED
  BY <1>1, <1>2, <1>3, <1>4, <1>5, <1>6, <1>7, <1>8 DEF BusNext, BusStep

\* Only the hub gives an event; the worker moves what its reporter has.
LEMMA GivenStays ==
    ASSUME BusType, BusType', UNCHANGED <<inbox, busy, seen>>,
           NEW r \in R
    PROVE  Given(r)' = Given(r)
  BY DEF Given

LEMMA WorkerGivesNothing ==
    ASSUME BusType, BusType', NEW q \in R, WorkerTake(q) \/ WorkerReport(q), NEW r \in R
    PROVE  Given(r)' = Given(r)
<1>0. /\ inbox \in [R -> Seq(Event)] /\ busy \in [R -> Event \cup {Idle}]
      /\ seen \in [R -> Seq(Event)]
  BY DEF BusType
<1>1. CASE r # q
  <2>1. inbox'[r] = inbox[r] /\ busy'[r] = busy[r] /\ seen'[r] = seen[r]
    BY <1>0, <1>1 DEF WorkerTake, WorkerReport
  <2> QED
    BY <2>1 DEF Given
<1>2. CASE r = q /\ WorkerTake(q)
  <2>1. PICK e \in Event : inbox[r] = <<e>> /\ Head(inbox[r]) = e
    BY <1>2, GivenType DEF WorkerTake
  <2>2. busy[r] = Idle /\ Given(r) = Append(seen[r], e)
    BY <1>2, <2>1, GivenType DEF WorkerTake
  <2>3. busy'[r] = e /\ inbox'[r] = <<>> /\ seen'[r] = seen[r]
    BY <1>0, <1>2, <2>1 DEF WorkerTake
  <2>4. e # Idle
    BY EventFacts
  <2>5. Given(r)' = (seen[r] \o <<e>>) \o <<>>
    BY <2>3, <2>4 DEF Given
  <2> QED
    BY <1>0, <2>2, <2>5, Joined
<1>3. CASE r = q /\ WorkerReport(q)
  <2>1. PICK b \in Event : busy[r] = b
    BY <1>0, <1>3 DEF WorkerReport
  <2>2. busy'[r] = Idle /\ inbox'[r] = inbox[r] /\ seen'[r] = Append(seen[r], b)
    BY <1>0, <1>3, <2>1 DEF WorkerReport
  <2>3. seen[r] \in Seq(Event) /\ Append(seen[r], b) \in Seq(Event)
    BY <1>0
  <2>4. Given(r)' = (Append(seen[r], b) \o <<>>) \o inbox[r]
    BY <2>2 DEF Given
  <2>5. CASE inbox[r] = <<>>
    <3>1. Given(r) = Append(seen[r], b)
      BY <2>1, <2>5, GivenType
    <3> QED
      BY <2>3, <2>4, <2>5, <3>1, Joined
  <2>6. CASE inbox[r] # <<>>
    <3>1. PICK e \in Event : inbox[r] = <<e>>
      BY <2>6, GivenType
    <3>2. Given(r) = Append(Append(seen[r], b), e)
      BY <2>1, <3>1, GivenType
    <3> QED
      BY <2>3, <2>4, <3>1, <3>2, Joined
  <2> QED
    BY <2>5, <2>6
<1> QED
  BY <1>1, <1>2, <1>3

LEMMA HubGives ==
    ASSUME BusType, BusType', HubSend, NEW r \in R
    PROVE  Given(r)' = IF r = hub.next THEN Append(Given(r), hub.ev) ELSE Given(r)
<1>0. /\ inbox \in [R -> Seq(Event)] /\ busy \in [R -> Event \cup {Idle}]
      /\ seen \in [R -> Seq(Event)]
      /\ busy' = busy /\ seen' = seen
      /\ hub.next \in R /\ inbox[hub.next] = <<>>
  BY DEF BusType, HubSend
<1>1. PICK e \in Event : e = hub.ev
  BY DEF BusType, HubSend
<1>2. \A q \in R : inbox'[q] = IF q = hub.next THEN <<e>> ELSE inbox[q]
  BY <1>0, <1>1 DEF HubSend
<1>3. CASE r # hub.next
  <2>1. inbox'[r] = inbox[r]
    BY <1>2, <1>3
  <2> QED
    BY <1>0, <1>3, <2>1 DEF Given
<1>4. CASE r = hub.next
  <2>1. inbox[r] = <<>> /\ inbox'[r] = <<e>> /\ seen[r] \in Seq(Event)
    BY <1>0, <1>2, <1>4
  <2>2. CASE busy[r] = Idle
    <3>1. Given(r) = seen[r]
      BY <2>1, <2>2, GivenType
    <3>2. Given(r)' = (seen[r] \o <<>>) \o <<e>>
      BY <1>0, <2>1, <2>2 DEF Given
    <3> QED
      BY <1>1, <1>4, <2>1, <3>1, <3>2, Joined
  <2>3. CASE busy[r] # Idle
    <3>1. PICK b \in Event : busy[r] = b
      BY <1>0, <2>3
    <3>2. Given(r) = Append(seen[r], b)
      BY <2>1, <3>1, GivenType
    <3>3. Given(r)' = (seen[r] \o <<b>>) \o <<e>>
      BY <1>0, <2>1, <2>3, <3>1 DEF Given
    <3> QED
      BY <1>1, <1>4, <2>1, <3>2, <3>3, Joined
  <2> QED
    BY <2>2, <2>3
<1> QED
  BY <1>3, <1>4

-----------------------------------------------------------------------------
(***************************************************************************)
(* The invariant.                                                          *)
(***************************************************************************)

LEMMA InitBusInv == BusInit => BusInv
<1> SUFFICES ASSUME BusInit PROVE BusInv
  OBVIOUS
<1>1. BusType
  <2>1. <<>> \in Seq(Event) /\ Len(<<>>) = 0 /\ 1 \in R /\ Reporters \in R
    BY BusBounds DEF R
  <2>2. queue \in [Collectors -> Seq(Event)] /\ taken \in [Collectors -> Seq(Event)]
    BY <2>1 DEF BusInit
  <2>3. inbox \in [R -> Seq(Event)] /\ seen \in [R -> Seq(Event)]
    BY <2>1 DEF BusInit
  <2>4. \A r \in R : Len(inbox[r]) <= 1
    BY <2>1 DEF BusInit
  <2>5. hub \in [ev : Event \cup {Idle}, next : R]
    BY <2>1 DEF BusInit
  <2>6. held \in [Collectors -> Event \cup {Idle}] /\ busy \in [R -> Event \cup {Idle}]
    BY DEF BusInit
  <2>7. reported \in [Collectors -> Nat] /\ lastReported \in [Collectors -> Nat]
    BY DEF BusInit
  <2> QED
    BY <2>2, <2>3, <2>4, <2>5, <2>6, <2>7 DEF BusType
<1>2. \A r \in R : Given(r) = <<>>
  <2> SUFFICES ASSUME NEW r \in R PROVE Given(r) = <<>>
    OBVIOUS
  <2>1. busy[r] = Idle /\ inbox[r] = <<>> /\ seen[r] = <<>>
    BY DEF BusInit
  <2> QED
    BY <1>1, <2>1, GivenType
<1>3. Common = <<>> /\ hub.ev = Idle
  <2>1. Reporters \in R
    BY BusBounds DEF R
  <2> QED
    BY <1>2, <2>1 DEF Common, BusInit
<1>4. Lockstep
  BY <1>2, <1>3 DEF Lockstep
<1>5. LastKept
  BY BusBounds DEF LastKept, BusInit
<1>6. ASSUME NEW c \in Collectors PROVE Flow(c)
  <2>1. queue[c] = <<>> /\ taken[c] = <<>> /\ held[c] = Idle
    BY DEF BusInit
  <2>2. Len(queue[c]) = 0 /\ Len(taken[c]) = 0 /\ 1..0 = {}
    BY <2>1
  <2>3. \A n : ~Took(c, n) /\ ~Out(c, n) /\ ~InHub(c, n) /\ ~InHand(c, n) /\ ~Waits(c, n)
    BY <1>3, <2>1, EmptyHas, EventFacts DEF Took, Out, InHub, InHand, Waits
  <2> QED
    BY <2>1, <2>2, <2>3, EmptyHas DEF Flow
<1> QED
  BY <1>1, <1>3, <1>4, <1>5, <1>6, EmptyHas DEF BusInv

\* The reporters keep step.
LEMMA LockstepStep ==
    ASSUME BusType, BusType', Lockstep, [BusNext]_busVars
    PROVE  /\ Lockstep'
           /\ HubSend /\ hub.next = Reporters => Common' = Append(Common, hub.ev)
           /\ ~HubSend \/ hub.next # Reporters => Common' = Common
<1>0. /\ Reporters \in Nat \ {0} /\ Reporters \in R /\ hub.next \in R
      /\ \A r \in R : r \in Nat /\ r <= Reporters /\ ~(r < 1)
  BY BusBounds DEF R, BusType
<1>1. CASE HubSend
  <2>1. /\ \A r \in R : Given(r)' = IF r = hub.next THEN Append(Given(r), hub.ev) ELSE Given(r)
        /\ hub.ev # Idle
    BY <1>1, HubGives DEF HubSend
  <2>2. \A r \in R : Given(r) = IF r < hub.next THEN Append(Common, hub.ev) ELSE Common
    BY <2>1 DEF Lockstep
  <2>3. CASE hub.next = Reporters
    <3>1. hub'.ev = Idle
      BY <1>1, <2>3 DEF HubSend
    <3>2. Common' = Append(Common, hub.ev)
      BY <1>0, <2>1, <2>3 DEF Common
    <3>3. \A r \in R : r # Reporters => r < hub.next
      BY <1>0, <2>3
    <3>4. \A r \in R : Given(r)' = Common'
      BY <2>1, <2>2, <2>3, <3>2, <3>3 DEF Common
    <3> QED
      BY <1>1, <2>3, <3>1, <3>2, <3>4 DEF Lockstep
  <2>4. CASE hub.next # Reporters
    <3>1. hub'.ev = hub.ev /\ hub'.next = hub.next + 1
      <4>1. hub' = [hub EXCEPT !.next = @ + 1]
        BY <1>1, <2>4 DEF HubSend
      <4>2. hub \in [ev : Event \cup {Idle}, next : R]
        BY DEF BusType
      <4> QED
        BY <4>1, <4>2
    <3>2. Common' = Common
      BY <1>0, <2>1, <2>4 DEF Common
    <3>3. \A r \in R : r < hub.next + 1 <=> r < hub.next \/ r = hub.next
      <4>1. \A r, k \in Nat : r < k + 1 <=> r < k \/ r = k
        OBVIOUS
      <4> QED
        BY <1>0, <4>1, Zenon
    <3>4. ~(hub.next < hub.next)
      <4>1. \A k \in Nat : ~(k < k)
        OBVIOUS
      <4> QED
        BY <1>0, <4>1, Zenon
    <3>5. \A r \in R : Given(r)' = IF r < hub'.next THEN Append(Common', hub'.ev) ELSE Common'
      BY <1>0, <2>1, <2>2, <3>1, <3>2, <3>3, <3>4
    <3> QED
      BY <2>1, <2>4, <3>1, <3>2, <3>5 DEF Lockstep
  <2> QED
    BY <2>3, <2>4
<1>2. CASE ~HubSend
  <2>1. \A r \in R : Given(r)' = Given(r)
    <3>1. CASE \E q \in R : WorkerTake(q) \/ WorkerReport(q)
      BY <3>1, WorkerGivesNothing
    <3>2. CASE ~\E q \in R : WorkerTake(q) \/ WorkerReport(q)
      <4>1. UNCHANGED <<inbox, busy, seen>>
        BY <1>2, <3>2 DEF BusNext, BusStep, End, Subscribe, Unsubscribe, Report, ForwardTake,
                          ForwardEnd, HubTake, busVars
      <4> QED
        BY <4>1, GivenStays
    <3> QED
      BY <3>1, <3>2
  <2>2. Common' = Common
    BY <1>0, <2>1 DEF Common
  <2>3. CASE \E c \in Collectors : HubTake(c)
    <3>1. hub.ev = Idle /\ hub'.next = 1
      BY <2>3 DEF HubTake
    <3> QED
      BY <1>0, <1>2, <2>1, <2>2, <3>1 DEF Lockstep
  <2>4. CASE ~\E c \in Collectors : HubTake(c)
    <3>1. hub' = hub
      BY <1>2, <2>4 DEF BusNext, BusStep, End, Subscribe, Unsubscribe, Report, ForwardTake,
                        ForwardEnd, WorkerTake, WorkerReport, busVars
    <3> QED
      BY <1>2, <2>1, <2>2, <3>1 DEF Lockstep
  <2> QED
    BY <2>3, <2>4
<1> QED
  BY <1>1, <1>2

LEMMA LastKeptStep ==
    ASSUME BusType, LastKept, [BusNext]_busVars
    PROVE  LastKept'
<1>1. CASE \E d \in Collectors, elapsed \in BOOLEAN : Report(d, elapsed)
  <2>1. PICK d \in Collectors, elapsed \in BOOLEAN : Report(d, elapsed)
    BY <1>1
  <2>2. /\ reported \in [Collectors -> Nat] /\ lastReported \in [Collectors -> Nat]
        /\ Total \in Nat
    BY BusBounds DEF BusType
  <2>3. /\ reported[d] + 1 <= Total
        /\ reported' = [reported EXCEPT ![d] = reported[d] + 1]
        /\ lastReported' = lastReported \/ lastReported' = [lastReported EXCEPT ![d] = reported[d] + 1]
        /\ reported[d] + 1 = Total => lastReported' = [lastReported EXCEPT ![d] = reported[d] + 1]
    BY <2>1 DEF Report
  <2> QED
    BY <2>2, <2>3 DEF LastKept
<1>2. CASE ~\E d \in Collectors, elapsed \in BOOLEAN : Report(d, elapsed)
  <2>1. UNCHANGED <<reported, lastReported>>
    BY <1>2 DEF BusNext, BusStep, End, Subscribe, Unsubscribe, ForwardTake, ForwardEnd, HubTake,
                HubSend, WorkerTake, WorkerReport, busVars
  <2> QED
    BY <2>1 DEF LastKept
<1> QED
  BY <1>1, <1>2

LEMMA FlowSame ==
    ASSUME NEW c \in Collectors, Flow(c), Common' = Common,
           queue'[c] = queue[c], taken'[c] = taken[c], held'[c] = held[c],
           reported'[c] = reported[c],
           \A n \in Nat : InHub(c, n)' <=> InHub(c, n)
    PROVE  Flow(c)'
<1>1. \A n \in Nat : /\ Took(c, n)' <=> Took(c, n)
                     /\ Out(c, n)' <=> Out(c, n)
                     /\ InHand(c, n)' <=> InHand(c, n)
                     /\ Waits(c, n)' <=> Waits(c, n)
  BY DEF Took, Out, InHand, Waits
<1> QED
  BY <1>1 DEF Flow


LEMMA ReportFlow ==
    ASSUME BusInv, NEW c \in Collectors, NEW elapsed \in BOOLEAN,
           Report(c, elapsed), Common' = Common
    PROVE  Flow(c)'
<1>0. /\ Flow(c) /\ reported \in [Collectors -> Nat]
      /\ queue \in [Collectors -> Seq(Event)] /\ taken \in [Collectors -> Seq(Event)]
      /\ held' = held /\ hub' = hub
  BY DEF BusInv, BusType, Report
<1>1. PICK k \in Nat : k = reported[c] + 1
  BY <1>0
<1>2. PICK e \in Event : e = <<c, k>> /\ e[1] = c /\ e[2] = k
  <2>1. <<c, k>> \in Event /\ <<c, k>>[1] = c /\ <<c, k>>[2] = k
    BY DEF Event
  <2> QED
    BY <2>1, Zenon
<1>3. /\ reported'[c] = k
      /\ \/ queue'[c] = queue[c] /\ taken'[c] = taken[c]
         \/ queue'[c] = Append(queue[c], e) /\ taken'[c] = Append(taken[c], e)
  BY <1>0, <1>1, <1>2 DEF Report
<1>4. \A n \in Nat : /\ Out(c, n)' <=> Out(c, n)
                     /\ InHub(c, n)' <=> InHub(c, n)
                     /\ InHand(c, n)' <=> InHand(c, n)
  BY <1>0 DEF Out, InHub, InHand
<1>5. \A n \in Nat : Took(c, n) => n < k
  BY <1>0, <1>1 DEF Flow
<1>6. CASE queue'[c] = queue[c] /\ taken'[c] = taken[c]
  <2>1. \A n \in Nat : /\ Took(c, n)' <=> Took(c, n)
                       /\ Waits(c, n)' <=> Waits(c, n)
    BY <1>6 DEF Took, Waits
  <2>2. \A n \in Nat : Took(c, n) => n <= k
    BY <1>5
  <2> QED
    BY <1>0, <1>3, <1>4, <1>6, <2>1, <2>2 DEF Flow
<1>7. CASE queue'[c] = Append(queue[c], e) /\ taken'[c] = Append(taken[c], e)
  <2>0. queue[c] \in Seq(Event) /\ taken[c] \in Seq(Event)
    BY <1>0
  <2>1. /\ \A x : Has(queue'[c], x) <=> Has(queue[c], x) \/ x = e
        /\ \A x : Has(taken'[c], x) <=> Has(taken[c], x) \/ x = e
    BY <1>7, <2>0, AppendHas
  <2>2. \A n \in Nat : <<c, n>> = e <=> n = k
    BY <1>2
  <2>3. \A n \in Nat : /\ Took(c, n)' <=> Took(c, n) \/ n = k
                       /\ Waits(c, n)' <=> Waits(c, n) \/ n = k
    BY <2>1, <2>2 DEF Took, Waits
  <2>4. \A n \in Nat : Waits(c, n) => n < k
    BY <1>0, <1>5 DEF Flow
  <2>5. Rising(queue'[c])
    <3>1. \A n \in Nat : Has(queue[c], <<e[1], n>>) => n < e[2]
      BY <1>2, <2>4 DEF Waits
    <3>2. Rising(queue[c])
      BY <1>0 DEF Flow
    <3> QED
      BY <1>7, <2>0, <3>1, <3>2, AppendHas
  <2>6. /\ \A i \in 1..Len(queue'[c]) : queue'[c][i][1] = c
        /\ \A i \in 1..Len(taken'[c]) : taken'[c][i][1] = c
    <3>1. ASSUME NEW s \in Seq(Event), \A i \in 1..Len(s) : s[i][1] = c,
                 NEW i \in 1..Len(Append(s, e))
          PROVE  Append(s, e)[i][1] = c
      <4>1. i = Len(s) + 1 \/ i \in 1..Len(s)
        BY AppendProperties
      <4>2. CASE i = Len(s) + 1
        BY <1>2, <4>2, AppendProperties
      <4>3. CASE i \in 1..Len(s)
        BY <3>1, <4>3, AppendProperties
      <4> QED
        BY <4>1, <4>2, <4>3
    <3>2. /\ \A i \in 1..Len(queue[c]) : queue[c][i][1] = c
          /\ \A i \in 1..Len(taken[c]) : taken[c][i][1] = c
      BY <1>0 DEF Flow
    <3> QED
      BY <1>7, <2>0, <3>1, <3>2
  <2>7. \A n \in Nat : Took(c, n)' => n <= reported'[c]
    BY <1>3, <1>5, <2>3
  <2>8. \A n \in Nat : Took(c, n)' <=>
           Out(c, n)' \/ InHub(c, n)' \/ InHand(c, n)' \/ Waits(c, n)'
    BY <1>0, <1>4, <2>3 DEF Flow
  <2>9. \A n, m \in Nat :
          /\ Out(c, n)' /\ (InHub(c, m)' \/ InHand(c, m)' \/ Waits(c, m)') => n < m
          /\ InHub(c, n)' /\ (InHand(c, m)' \/ Waits(c, m)') => n < m
          /\ InHand(c, n)' /\ Waits(c, m)' => n < m
    <3>1. \A n \in Nat : Out(c, n) \/ InHub(c, n) \/ InHand(c, n) => n < k
      BY <1>0, <1>5 DEF Flow
    <3>2. \A n, m \in Nat :
          /\ Out(c, n) /\ (InHub(c, m) \/ InHand(c, m) \/ Waits(c, m)) => n < m
          /\ InHub(c, n) /\ (InHand(c, m) \/ Waits(c, m)) => n < m
          /\ InHand(c, n) /\ Waits(c, m) => n < m
      BY <1>0 DEF Flow
    <3> QED
      BY <1>4, <2>3, <3>1, <3>2
  <2>10. held'[c] # Idle => held'[c][1] = c
    BY <1>0 DEF Flow
  <2> QED
    BY <2>5, <2>6, <2>7, <2>8, <2>9, <2>10 DEF Flow
<1> QED
  BY <1>3, <1>6, <1>7

LEMMA ForwardTakeFlow ==
    ASSUME BusInv, NEW c \in Collectors, ForwardTake(c), Common' = Common
    PROVE  Flow(c)'
<1>0. /\ Flow(c) /\ queue[c] \in Seq(Event) /\ queue[c] # <<>> /\ held[c] = Idle
      /\ Rising(queue[c]) /\ \A i \in 1..Len(queue[c]) : queue[c][i][1] = c
      /\ taken' = taken /\ hub' = hub /\ reported' = reported
  BY DEF BusInv, BusType, ForwardTake, Flow
<1>1. /\ queue'[c] = Tail(queue[c]) /\ held'[c] = Head(queue[c])
  BY DEF BusInv, BusType, ForwardTake
<1>2. PICK e \in Event : e = Head(queue[c]) /\ e[1] = c
  BY <1>0, TailHas
<1>3. PICK k \in Nat : e = <<c, k>> /\ e[2] = k
  BY <1>2, EventFacts
<1>4. /\ \A x : Has(queue[c], x) <=> Has(queue'[c], x) \/ x = e
      /\ Rising(queue'[c])
      /\ \A i \in 1..Len(queue'[c]) : queue'[c][i][1] = c
      /\ \A n \in Nat : Has(queue'[c], <<c, n>>) => k < n
  <2>1. /\ \A x : Has(queue[c], x) <=> Has(Tail(queue[c]), x) \/ x = Head(queue[c])
        /\ Rising(Tail(queue[c]))
        /\ \A i \in 1..Len(Tail(queue[c])) : Tail(queue[c])[i][1] = c
        /\ \A n \in Nat : Has(Tail(queue[c]), <<c, n>>) => Head(queue[c])[2] < n
    BY <1>0, TailHas
  <2> QED
    BY <1>1, <1>2, <1>3, <2>1, Zenon
<1>5. \A n \in Nat : /\ Took(c, n)' <=> Took(c, n)
                     /\ Out(c, n)' <=> Out(c, n)
                     /\ InHub(c, n)' <=> InHub(c, n)
  BY <1>0 DEF Took, Out, InHub
<1>6. \A n \in Nat : ~InHand(c, n)
  BY <1>0, EventFacts DEF InHand
<1>7. \A n \in Nat : InHand(c, n)' <=> n = k
  BY <1>1, <1>2, <1>3 DEF InHand
<1>8. \A n \in Nat : /\ Waits(c, n) <=> Waits(c, n)' \/ n = k
                     /\ Waits(c, n)' => k < n
  BY <1>3, <1>4 DEF Waits
<1>9. held'[c][1] = c
  BY <1>1, <1>2
<1>10. \A i \in 1..Len(taken'[c]) : taken'[c][i][1] = c
  BY <1>0 DEF Flow
<1>11. \A n \in Nat : Took(c, n)' => n <= reported'[c]
  BY <1>0, <1>5 DEF Flow
<1>12. \A n \in Nat : Took(c, n)' <=>
           Out(c, n)' \/ InHub(c, n)' \/ InHand(c, n)' \/ Waits(c, n)'
  BY <1>0, <1>5, <1>6, <1>7, <1>8 DEF Flow
<1>13. \A n, m \in Nat :
          /\ Out(c, n)' /\ (InHub(c, m)' \/ InHand(c, m)' \/ Waits(c, m)') => n < m
          /\ InHub(c, n)' /\ (InHand(c, m)' \/ Waits(c, m)') => n < m
          /\ InHand(c, n)' /\ Waits(c, m)' => n < m
  BY <1>0, <1>5, <1>7, <1>8 DEF Flow
<1> QED
  BY <1>4, <1>9, <1>10, <1>11, <1>12, <1>13 DEF Flow

LEMMA HubTakeFlow ==
    ASSUME BusInv, NEW d \in Collectors, HubTake(d), Common' = Common,
           NEW c \in Collectors
    PROVE  Flow(c)'
<1>0. /\ Flow(c) /\ Flow(d) /\ held \in [Collectors -> Event \cup {Idle}]
      /\ held[d] # Idle /\ hub.ev = Idle /\ hub'.ev = held[d]
      /\ taken' = taken /\ queue' = queue /\ reported' = reported
      /\ held' = [held EXCEPT ![d] = Idle]
  BY DEF BusInv, BusType, HubTake
<1>1. PICK e \in Event : e = held[d] /\ e[1] = d
  BY <1>0 DEF Flow
<1>2. PICK k \in Nat : e = <<d, k>>
  BY <1>1, EventFacts
<1>3. \A n \in Nat : ~InHub(c, n)
  BY <1>0, EventFacts DEF InHub
<1>4. CASE c # d
  <2>1. held'[c] = held[c]
    BY <1>0, <1>4
  <2>2. \A n \in Nat : ~InHub(c, n)'
    BY <1>0, <1>1, <1>2, <1>4 DEF InHub
  <2> QED
    BY <1>0, <1>3, <2>1, <2>2, FlowSame
<1>5. CASE c = d
  <2>1. held'[c] = Idle
    BY <1>0, <1>5
  <2>2. \A n \in Nat : /\ Took(c, n)' <=> Took(c, n)
                       /\ Out(c, n)' <=> Out(c, n)
                       /\ Waits(c, n)' <=> Waits(c, n)
    BY <1>0 DEF Took, Out, Waits
  <2>3. \A n \in Nat : InHub(c, n)' <=> InHand(c, n)
    BY <1>0, <1>5 DEF InHub, InHand
  <2>4. \A n \in Nat : ~InHand(c, n)'
    BY <2>1, EventFacts DEF InHand
  <2>5. \A n \in Nat : Took(c, n)' <=>
           Out(c, n)' \/ InHub(c, n)' \/ InHand(c, n)' \/ Waits(c, n)'
    BY <1>0, <1>3, <2>2, <2>3, <2>4 DEF Flow
  <2>6. \A n, m \in Nat :
          /\ Out(c, n)' /\ (InHub(c, m)' \/ InHand(c, m)' \/ Waits(c, m)') => n < m
          /\ InHub(c, n)' /\ (InHand(c, m)' \/ Waits(c, m)') => n < m
          /\ InHand(c, n)' /\ Waits(c, m)' => n < m
    BY <1>0, <2>2, <2>3, <2>4 DEF Flow
  <2> QED
    BY <1>0, <2>1, <2>2, <2>5, <2>6 DEF Flow
<1> QED
  BY <1>4, <1>5

\* The last reporter is given the event of the hub.
LEMMA HubSendFlow ==
    ASSUME BusInv, HubSend, hub.next = Reporters,
           Common' = Append(Common, hub.ev)
    PROVE  Rising(Common)' /\ \A c \in Collectors : Flow(c)'
<1>0. /\ Rising(Common) /\ \A c \in Collectors : Flow(c)
      /\ hub'.ev = Idle
      /\ taken' = taken /\ queue' = queue /\ reported' = reported /\ held' = held
  BY DEF BusInv, BusType, HubSend
<1>1. Common \in Seq(Event)
  <2>1. Reporters \in R /\ BusType
    BY BusBounds DEF BusInv, R
  <2> QED
    BY <2>1, GivenType DEF Common
<1>2. PICK e \in Event : e = hub.ev
  BY DEF BusInv, BusType, HubSend
<1>3. PICK d \in Collectors, k \in Nat : e = <<d, k>> /\ e[1] = d /\ e[2] = k
  BY EventFacts
<1>4. \A x : Has(Common', x) <=> Has(Common, x) \/ x = e
  BY <1>1, <1>2, AppendHas
<1>5. Rising(Common)'
  <2>1. \A n \in Nat : Out(d, n) /\ InHub(d, k) => n < k
    BY <1>0 DEF Flow
  <2>2. InHub(d, k)
    BY <1>2, <1>3 DEF InHub
  <2>3. \A n \in Nat : Has(Common, <<e[1], n>>) => n < e[2]
    BY <1>3, <2>1, <2>2 DEF Out
  <2>4. Rising(Append(Common, e))
    BY <1>0, <1>1, <2>3, AppendHas
  <2> QED
    BY <1>2, <2>4
<1>6. ASSUME NEW c \in Collectors PROVE Flow(c)'
  <2>1. \A n \in Nat : /\ Took(c, n)' <=> Took(c, n)
                       /\ InHand(c, n)' <=> InHand(c, n)
                       /\ Waits(c, n)' <=> Waits(c, n)
    BY <1>0 DEF Took, InHand, Waits
  <2>2. \A n \in Nat : Out(c, n)' <=> Out(c, n) \/ InHub(c, n)
    BY <1>2, <1>4 DEF Out, InHub
  <2>3. \A n \in Nat : ~InHub(c, n)'
    BY <1>0, EventFacts DEF InHub
  <2>4. \A n \in Nat : Took(c, n)' <=>
           Out(c, n)' \/ InHub(c, n)' \/ InHand(c, n)' \/ Waits(c, n)'
    BY <1>0, <2>1, <2>2, <2>3 DEF Flow
  <2>5. \A n, m \in Nat :
          /\ Out(c, n)' /\ (InHub(c, m)' \/ InHand(c, m)' \/ Waits(c, m)') => n < m
          /\ InHub(c, n)' /\ (InHand(c, m)' \/ Waits(c, m)') => n < m
          /\ InHand(c, n)' /\ Waits(c, m)' => n < m
    BY <1>0, <2>1, <2>2, <2>3 DEF Flow
  <2> QED
    BY <1>0, <2>1, <2>4, <2>5 DEF Flow
<1> QED
  BY <1>5, <1>6


LEMMA NextBusInv == BusInv /\ [BusNext]_busVars => BusInv'
<1> SUFFICES ASSUME BusInv, [BusNext]_busVars PROVE BusInv'
  OBVIOUS
<1>1. BusType' /\ LastKept'
  BY BusTypeStep, LastKeptStep DEF BusInv
<1>2. /\ Lockstep'
      /\ HubSend /\ hub.next = Reporters => Common' = Append(Common, hub.ev)
      /\ ~HubSend \/ hub.next # Reporters => Common' = Common
  BY <1>1, LockstepStep DEF BusInv
<1>3. /\ reported \in [Collectors -> Nat] /\ held \in [Collectors -> Event \cup {Idle}]
      /\ queue \in [Collectors -> Seq(Event)] /\ taken \in [Collectors -> Seq(Event)]
      /\ hub \in [ev : Event \cup {Idle}, next : R]
      /\ \A c \in Collectors : Flow(c)
  BY DEF BusInv, BusType
<1>4. CASE HubSend /\ hub.next = Reporters
  BY <1>1, <1>2, <1>4, HubSendFlow DEF BusInv
<1>5. CASE ~HubSend \/ hub.next # Reporters
  <2>1. Common' = Common /\ Rising(Common)'
    BY <1>2, <1>5 DEF BusInv
  <2>2. ASSUME NEW c \in Collectors PROVE Flow(c)'
    <3>1. CASE \E elapsed \in BOOLEAN : Report(c, elapsed)
      BY <2>1, <3>1, ReportFlow
    <3>2. CASE ForwardTake(c)
      BY <2>1, <3>2, ForwardTakeFlow
    <3>3. CASE \E d \in Collectors : HubTake(d)
      BY <2>1, <3>3, HubTakeFlow
    <3>4. ASSUME NEW d \in Collectors, d # c, NEW elapsed \in BOOLEAN, Report(d, elapsed)
          PROVE  Flow(c)'
      <4>1. /\ reported'[c] = reported[c] /\ queue'[c] = queue[c] /\ taken'[c] = taken[c]
            /\ held' = held /\ hub' = hub
        BY <1>3, <3>4 DEF Report
      <4> QED
        BY <1>3, <2>1, <4>1, FlowSame DEF InHub
    <3>5. ASSUME NEW d \in Collectors, d # c, ForwardTake(d) PROVE Flow(c)'
      <4>1. /\ held'[c] = held[c] /\ queue'[c] = queue[c]
            /\ taken' = taken /\ reported' = reported /\ hub' = hub
        BY <1>3, <3>5 DEF ForwardTake
      <4> QED
        BY <1>3, <2>1, <4>1, FlowSame DEF InHub
    <3>6. ASSUME HubSend PROVE Flow(c)'
      <4>1. held' = held /\ queue' = queue /\ taken' = taken /\ reported' = reported
        BY <3>6 DEF HubSend
      <4>2. hub' = [hub EXCEPT !.next = @ + 1]
        BY <1>5, <3>6 DEF HubSend
      <4>3. hub'.ev = hub.ev
        BY <1>3, <4>2
      <4> QED
        BY <1>3, <2>1, <4>1, <4>3, FlowSame DEF InHub
    <3>7. CASE \/ End \/ UNCHANGED busVars
               \/ \E d \in Collectors : Subscribe(d) \/ Unsubscribe(d) \/ ForwardEnd(d)
               \/ \E r \in R : WorkerTake(r) \/ WorkerReport(r)
      <4>1. UNCHANGED <<held, queue, taken, reported, hub>>
        BY <3>7 DEF End, busVars, Subscribe, Unsubscribe, ForwardEnd, WorkerTake, WorkerReport
      <4> QED
        BY <1>3, <2>1, <4>1, FlowSame DEF InHub
    <3> QED
      BY <3>1, <3>2, <3>3, <3>4, <3>5, <3>6, <3>7 DEF BusNext, BusStep
  <2> QED
    BY <1>1, <1>2, <2>1, <2>2 DEF BusInv
<1> QED
  BY <1>4, <1>5

LEMMA PrefixFacts ==
    ASSUME NEW s \in Seq(Event), NEW e \in Event
    PROVE  /\ IsPrefix(s, s) /\ IsPrefix(s, Append(s, e))
           /\ Len(s) \in Nat /\ Len(Append(s, e)) = Len(s) + 1
<1>1. /\ Len(s) \in Nat /\ Append(s, e) \in Seq(Event) /\ Len(Append(s, e)) = Len(s) + 1
      /\ \A i \in 1..Len(s) : Append(s, e)[i] = s[i]
  BY AppendProperties
<1>2. SubSeq(s, 1, Len(s)) = SubSeq(Append(s, e), 1, Len(s))
  <2>1. SubSeq(s, 1, Len(s)) \in Seq(Event) /\ SubSeq(Append(s, e), 1, Len(s)) \in Seq(Event)
    BY <1>1
  <2>2. /\ Len(SubSeq(s, 1, Len(s))) = Len(s)
        /\ Len(SubSeq(Append(s, e), 1, Len(s))) = Len(s)
    BY <1>1
  <2>3. \A i \in 1..Len(s) : /\ SubSeq(s, 1, Len(s))[i] = s[i]
                             /\ SubSeq(Append(s, e), 1, Len(s))[i] = Append(s, e)[i]
    BY <1>1
  <2> QED
    BY <1>1, <2>1, <2>2, <2>3, SeqEqual
<1> QED
  BY <1>1, <1>2 DEF IsPrefix

(***************************************************************************)
(* With any collectors, throttled or not, and any number of reporters,     *)
(* while subscriptions come and go: all reporters are given the same       *)
(* events in the same order; the events of a collector come in order, once *)
(* each and without a gap; and the throttle reports the last event.        *)
(***************************************************************************)
THEOREM ReportersInStep == BusSpec => []ReportersAgree
<1>1. BusInv => ReportersAgree
  <2> SUFFICES ASSUME BusInv PROVE ReportersAgree
    OBVIOUS
  <2>0. /\ BusType /\ Lockstep /\ LastKept /\ Rising(Common)
        /\ \A c \in Collectors : Flow(c)
    BY DEF BusInv
  <2>1. Reporters \in R /\ Common \in Seq(Event)
    <3>1. Reporters \in R
      BY BusBounds DEF R
    <3> QED
      BY <2>0, <3>1, GivenType DEF Common
  <2>2. \A r \in R : \/ Given(r) = Common
                     \/ hub.ev \in Event /\ Given(r) = Append(Common, hub.ev)
    <3>1. hub.ev \in Event \cup {Idle}
      BY <2>0 DEF BusType
    <3> QED
      BY <2>0, <3>1 DEF Lockstep
  <2>3. ASSUME NEW r \in R, NEW q \in R
        PROVE  IsPrefix(Given(r), Given(q)) \/ IsPrefix(Given(q), Given(r))
    <3>1. CASE Given(r) = Given(q)
      <4>1. Given(q) \in Seq(Event)
        BY <2>0, GivenType
      <4>2. IsPrefix(Given(q), Given(q))
        BY <4>1 DEF IsPrefix
      <4> QED
        BY <3>1, <4>2
    <3>2. CASE Given(r) # Given(q)
      <4>1. /\ hub.ev \in Event
            /\ \/ Given(r) = Common /\ Given(q) = Append(Common, hub.ev)
               \/ Given(q) = Common /\ Given(r) = Append(Common, hub.ev)
        BY <2>2, <3>2
      <4>2. IsPrefix(Common, Append(Common, hub.ev))
        BY <2>1, <4>1, PrefixFacts
      <4> QED
        BY <4>1, <4>2
    <3> QED
      BY <3>1, <3>2
  <2>4. ASSUME NEW r \in R PROVE Rising(Given(r))
    <3>1. CASE Given(r) = Common
      BY <2>0, <3>1
    <3>2. CASE hub.ev \in Event /\ Given(r) = Append(Common, hub.ev)
      <4>1. PICK d \in Collectors, k \in Nat : hub.ev = <<d, k>> /\ hub.ev[1] = d /\ hub.ev[2] = k
        BY <3>2, EventFacts
      <4>2. \A n \in Nat : Has(Common, <<hub.ev[1], n>>) => n < hub.ev[2]
        BY <2>0, <4>1 DEF Flow, Out, InHub
      <4> QED
        BY <2>0, <2>1, <3>2, <4>2, AppendHas
    <3> QED
      BY <2>2, <3>1, <3>2
  <2>5. ASSUME NEW s \in Seq(Event)
        PROVE  \A e : e \in ToSet(s) <=> Has(s, e)
    <3>1. DOMAIN s = 1..Len(s)
      OBVIOUS
    <3> QED
      BY <3>1 DEF ToSet, Has
  <2>6. ASSUME NEW r \in R, NEW e \in ToSet(Given(r))
        PROVE  /\ e \in ToSet(taken[e[1]])
               /\ \A d \in ToSet(taken[e[1]]) : d[2] < e[2] => d \in ToSet(Given(r))
    <3>1. Given(r) \in Seq(Event)
      BY <2>0, GivenType
    <3>2. Has(Given(r), e)
      BY <2>5, <2>6, <3>1
    <3>3. e \in Event
      BY <3>1, <3>2 DEF Has
    <3>4. PICK c \in Collectors, n \in Nat : e = <<c, n>> /\ e[1] = c /\ e[2] = n
      BY <3>3, EventFacts
    <3>5. taken[c] \in Seq(Event)
      BY <2>0 DEF BusType
    <3>6. \A x : Has(Given(r), x) <=>
             Has(Common, x) \/ (Given(r) # Common /\ hub.ev = x)
      <4>1. CASE Given(r) = Common
        BY <4>1
      <4>2. CASE Given(r) # Common
        <5>1. hub.ev \in Event /\ Given(r) = Append(Common, hub.ev)
          BY <2>2, <4>2
        <5>2. \A x : Has(Append(Common, hub.ev), x) <=> Has(Common, x) \/ x = hub.ev
          BY <2>1, <5>1, AppendHas
        <5> QED
          BY <4>2, <5>1, <5>2
      <4> QED
        BY <4>1, <4>2
    <3>7. Out(c, n) \/ (InHub(c, n) /\ Given(r) # Common)
      BY <3>2, <3>4, <3>6 DEF Out, InHub
    <3>8. Took(c, n)
      BY <2>0, <3>7 DEF Flow
    <3>9. e \in ToSet(taken[e[1]])
      BY <2>5, <3>4, <3>5, <3>8 DEF Took
    <3>10. ASSUME NEW d \in ToSet(taken[e[1]]), d[2] < e[2] PROVE d \in ToSet(Given(r))
      <4>1. Has(taken[c], d)
        BY <2>5, <3>4, <3>5
      <4>2. d \in Event /\ d[1] = c
        BY <2>0, <3>5, <4>1 DEF Has, Flow
      <4>3. PICK m \in Nat : d = <<c, m>> /\ d[2] = m
        BY <4>2, EventFacts
      <4>4. Took(c, m) /\ m < n
        BY <3>4, <3>10, <4>1, <4>3 DEF Took
      <4>5. /\ ~InHand(c, m) /\ ~Waits(c, m)
            /\ InHub(c, m) => ~Out(c, n)
        <5>1. \A a, b \in Nat : a < b => ~(b < a)
          OBVIOUS
        <5> QED
          BY <2>0, <3>7, <4>4, <5>1 DEF Flow
      <4>6. Out(c, m) \/ (InHub(c, m) /\ Given(r) # Common)
        BY <2>0, <3>7, <4>4, <4>5 DEF Flow
      <4>7. Has(Given(r), d)
        BY <3>6, <4>3, <4>6 DEF Out, InHub
      <4> QED
        BY <2>5, <3>1, <4>7
    <3> QED
      BY <3>9, <3>10
  <2>7. \A c \in Collectors : reported[c] = Total => lastReported[c] = Total
    BY <2>0 DEF LastKept
  <2> QED
    BY <2>3, <2>4, <2>6, <2>7 DEF ReportersAgree, Rising
<1> QED
  BY <1>1, InitBusInv, NextBusInv, PTL DEF BusSpec
-----------------------------------------------------------------------------
(* GrpcPrepare                                                             *)
Elem(s, x) == \E i \in 1..Len(s) : s[i] = x
Increasing(s) == \A i, j \in 1..Len(s) : i < j => s[i] < s[j]
Spaced(s) == \A i \in 1..Len(s) : s[i] >= i

PrepareType ==
    /\ call \in C /\ phase \in {"idle", "open", "called", "over"}
    /\ stream \in [C -> {"none", "on", "cancelled", "ended"}]
    /\ receiver \in [C -> {"none", "on", "ended"}]
    /\ hand \in [C -> Nat] /\ received \in [C -> Nat]
    /\ wire \in [C -> Seq(Nat)] /\ got \in [C -> Seq(Nat)]
    /\ buffer \in Seq(Nat) /\ events \in Nat
    /\ dropped \in SUBSET Nat /\ lost \in SUBSET Nat

\* The call c has returned.
Past(c) == c < call \/ phase = "over"

\* A stream is cancelled, or fails at the client, after its call returned.
Streams == \A c \in C :
    stream[c] = "cancelled" \/ (receiver[c] = "on" /\ stream[c] # "on") => Past(c)

\* What was taken from the channel is older than what is in it, and what a
\* stream holds is newer than what it sent.
Ordered ==
    /\ Increasing(buffer) /\ Spaced(buffer)
    /\ \A c \in C : Increasing(Arrived(c))
    /\ \A c \in C : hand[c] # 0 => \A x : Elem(Arrived(c), x) => x < hand[c]
    /\ \A e : Elem(buffer, e) =>
          \A c \in C : hand[c] < e /\ \A x : Elem(Arrived(c), x) => x < e

Held(e) == e # 0 /\ \E c \in C : hand[c] = e
Came(e) == \E c \in C : Elem(Arrived(c), e)

\* An event is in one place.
OnePlace(e) ==
    /\ Elem(buffer, e) => ~Held(e) /\ ~Came(e) /\ e \notin dropped \cup lost
    /\ Held(e) => ~Came(e) /\ e \notin dropped \cup lost
    /\ Came(e) => e \notin dropped \cup lost
    /\ e \in dropped => e \notin lost

Places ==
    /\ \A e : OnePlace(e)
    /\ \A e : e \in 1..events <=>
          Elem(buffer, e) \/ Held(e) \/ Came(e) \/ e \in dropped \/ e \in lost
    /\ \A c, d \in C : hand[c] # 0 /\ hand[c] = hand[d] => c = d
    /\ \A c, d \in C : \A e : Elem(Arrived(c), e) /\ Elem(Arrived(d), e) => c = d

Losses ==
    /\ lost # {} => call > 1 \/ phase = "over"
    /\ dropped # {} => events > ReporterCap

PrepareInv == PrepareType /\ Streams /\ Ordered /\ Places /\ Losses

\* A channel, or a stream, in terms of its elements.
LEMMA EmptyElems == \A x : ~Elem(<<>>, x) /\ Increasing(<<>>) /\ Spaced(<<>>)
  BY DEF Elem, Increasing, Spaced

LEMMA AppendElems ==
    ASSUME NEW s \in Seq(Nat), NEW e \in Nat
    PROVE  /\ Append(s, e) \in Seq(Nat)
           /\ \A x : Elem(Append(s, e), x) <=> Elem(s, x) \/ x = e
           /\ Increasing(s) /\ (\A x : Elem(s, x) => x < e) => Increasing(Append(s, e))
           /\ Spaced(s) /\ e > Len(s) => Spaced(Append(s, e))
<1>1. /\ Append(s, e) \in Seq(Nat) /\ Len(s) \in Nat
      /\ Len(Append(s, e)) = Len(s) + 1 /\ Append(s, e)[Len(s) + 1] = e
      /\ \A i \in 1..Len(s) : Append(s, e)[i] = s[i]
  OBVIOUS
<1>2. \A x : Elem(Append(s, e), x) <=> Elem(s, x) \/ x = e
  BY <1>1 DEF Elem
<1>3. ASSUME Increasing(s), \A x : Elem(s, x) => x < e
      PROVE  Increasing(Append(s, e))
  <2> SUFFICES ASSUME NEW i \in 1..(Len(s) + 1), NEW j \in 1..(Len(s) + 1), i < j
               PROVE  Append(s, e)[i] < Append(s, e)[j]
    BY <1>1 DEF Increasing
  <2>1. i \in 1..Len(s) /\ Append(s, e)[i] = s[i]
    BY <1>1
  <2>2. CASE j = Len(s) + 1
    BY <1>1, <1>3, <2>1, <2>2 DEF Elem
  <2>3. CASE j \in 1..Len(s)
    BY <1>1, <1>3, <2>1, <2>3 DEF Increasing
  <2> QED
    BY <1>1, <2>2, <2>3
<1>4. ASSUME Spaced(s), e > Len(s) PROVE Spaced(Append(s, e))
  <2> SUFFICES ASSUME NEW i \in 1..(Len(s) + 1) PROVE Append(s, e)[i] >= i
    BY <1>1 DEF Spaced
  <2>1. CASE i = Len(s) + 1
    BY <1>1, <1>4, <2>1
  <2>2. CASE i \in 1..Len(s)
    BY <1>1, <1>4, <2>2 DEF Spaced
  <2> QED
    BY <1>1, <2>1, <2>2
<1> QED
  BY <1>1, <1>2, <1>3, <1>4

LEMMA TailElems ==
    ASSUME NEW s \in Seq(Nat), s # <<>>
    PROVE  /\ Tail(s) \in Seq(Nat) /\ Head(s) \in Nat
           /\ \A x : Elem(s, x) <=> Elem(Tail(s), x) \/ x = Head(s)
           /\ Increasing(s) => /\ Increasing(Tail(s))
                               /\ \A x : Elem(Tail(s), x) => Head(s) < x
           /\ Spaced(s) => Spaced(Tail(s))
<1>1. /\ Tail(s) \in Seq(Nat) /\ Head(s) \in Nat /\ Len(s) \in Nat \ {0}
      /\ Len(Tail(s)) = Len(s) - 1 /\ Head(s) = s[1] /\ 1 \in 1..Len(s)
      /\ \A i \in 1..(Len(s) - 1) : Tail(s)[i] = s[i + 1] /\ i + 1 \in 1..Len(s) /\ 1 < i + 1
      /\ \A i \in 1..Len(s) : s[i] \in Nat
  OBVIOUS
<1>2. ASSUME NEW x PROVE Elem(s, x) <=> Elem(Tail(s), x) \/ x = Head(s)
  <2>1. ASSUME Elem(s, x), x # Head(s) PROVE Elem(Tail(s), x)
    <3>1. PICK i \in 1..Len(s) : s[i] = x
      BY <2>1 DEF Elem
    <3>2. i # 1
      BY <1>1, <2>1, <3>1
    <3>3. i - 1 \in 1..(Len(s) - 1) /\ (i - 1) + 1 = i
      BY <1>1, <3>2
    <3>4. Tail(s)[i - 1] = x
      BY <1>1, <3>1, <3>3
    <3> QED
      BY <1>1, <3>3, <3>4 DEF Elem
  <2>2. Elem(Tail(s), x) => Elem(s, x)
    BY <1>1 DEF Elem
  <2>3. x = Head(s) => Elem(s, x)
    BY <1>1 DEF Elem
  <2> QED
    BY <2>1, <2>2, <2>3
<1>3. ASSUME Increasing(s)
      PROVE  Increasing(Tail(s)) /\ \A x : Elem(Tail(s), x) => Head(s) < x
  <2>1. \A i, j \in 1..(Len(s) - 1) : i < j => i + 1 < j + 1
    BY <1>1
  <2>2. Increasing(Tail(s))
    BY <1>1, <1>3, <2>1 DEF Increasing
  <2>3. \A x : Elem(Tail(s), x) => Head(s) < x
    BY <1>1, <1>3 DEF Increasing, Elem
  <2> QED
    BY <2>2, <2>3
<1>4. ASSUME Spaced(s) PROVE Spaced(Tail(s))
  BY <1>1, <1>4 DEF Spaced
<1> QED
  BY <1>1, <1>2, <1>3, <1>4

LEMMA ElemNat ==
    ASSUME NEW s \in Seq(Nat), NEW x, Elem(s, x)
    PROVE  x \in Nat
  BY DEF Elem

LEMMA ToSetElems ==
    ASSUME NEW s \in Seq(Nat)
    PROVE  \A e : e \in ToSet(s) <=> Elem(s, e)
<1>1. DOMAIN s = 1..Len(s)
  OBVIOUS
<1> QED
  BY <1>1 DEF ToSet, Elem

\* What came with a call, put together.
LEMMA Associates ==
    ASSUME NEW s \in Seq(Nat), NEW t \in Seq(Nat), NEW u \in Seq(Nat)
    PROVE  (s \o t) \o u \in Seq(Nat) /\ (s \o t) \o u = s \o (t \o u)
<1>1. /\ s \o t \in Seq(Nat) /\ t \o u \in Seq(Nat)
      /\ Len(s) \in Nat /\ Len(t) \in Nat /\ Len(u) \in Nat
      /\ Len(s \o t) = Len(s) + Len(t) /\ Len(t \o u) = Len(t) + Len(u)
      /\ \A i \in 1..Len(s) + Len(t) : (s \o t)[i] = IF i <= Len(s) THEN s[i] ELSE t[i - Len(s)]
      /\ \A i \in 1..Len(t) + Len(u) : (t \o u)[i] = IF i <= Len(t) THEN t[i] ELSE u[i - Len(t)]
  BY ConcatProperties
<1> DEFINE n == Len(s) + Len(t) + Len(u)
<1>2. /\ (s \o t) \o u \in Seq(Nat) /\ Len((s \o t) \o u) = n
      /\ \A i \in 1..n : ((s \o t) \o u)[i] = IF i <= Len(s) + Len(t) THEN (s \o t)[i]
                                              ELSE u[i - (Len(s) + Len(t))]
  BY <1>1, ConcatProperties
<1>3. /\ s \o (t \o u) \in Seq(Nat) /\ Len(s \o (t \o u)) = n
      /\ \A i \in 1..n : (s \o (t \o u))[i] = IF i <= Len(s) THEN s[i] ELSE (t \o u)[i - Len(s)]
  BY <1>1, ConcatProperties
<1>4. ASSUME NEW i \in 1..n PROVE ((s \o t) \o u)[i] = (s \o (t \o u))[i]
  <2>1. CASE i <= Len(s)
    BY <1>1, <1>2, <1>3, <2>1
  <2>2. CASE Len(s) < i /\ i <= Len(s) + Len(t)
    BY <1>1, <1>2, <1>3, <2>2
  <2>3. CASE Len(s) + Len(t) < i
    <3>1. i - Len(s) \in 1..Len(t) + Len(u) /\ ~(i - Len(s) <= Len(t)) /\ ~(i <= Len(s))
      BY <1>1, <2>3
    <3>2. (i - Len(s)) - Len(t) = i - (Len(s) + Len(t))
      BY <1>1
    <3> QED
      BY <1>1, <1>2, <1>3, <2>3, <3>1, <3>2
  <2> QED
    BY <1>1, <2>1, <2>2, <2>3
<1> QED
  BY <1>2, <1>3, <1>4, SeqEqual

\* An event at the end of the wire,
LEMMA JoinsSent ==
    ASSUME NEW g \in Seq(Nat), NEW m \in Seq(Nat), NEW w \in Seq(Nat), NEW e \in Nat
    PROVE  (g \o m) \o Append(w, e) = Append((g \o m) \o w, e)
<1>1. /\ <<e>> \in Seq(Nat) /\ g \o m \in Seq(Nat) /\ (g \o m) \o w \in Seq(Nat)
  BY ConcatProperties
<1>2. Append(w, e) = w \o <<e>>
  BY AppendIsConcat
<1>3. Append((g \o m) \o w, e) = ((g \o m) \o w) \o <<e>>
  BY <1>1, AppendIsConcat
<1>4. ((g \o m) \o w) \o <<e>> = (g \o m) \o (w \o <<e>>)
  BY <1>1, Associates
<1> QED
  BY <1>2, <1>3, <1>4, Zenon

\* at its head, taken from it,
LEMMA JoinsReceived ==
    ASSUME NEW g \in Seq(Nat), NEW w \in Seq(Nat), w # <<>>
    PROVE  (g \o <<Head(w)>>) \o Tail(w) = (g \o <<>>) \o w
<1>1. /\ Head(w) \in Nat /\ Tail(w) \in Seq(Nat) /\ <<Head(w)>> \in Seq(Nat)
      /\ Len(Tail(w)) = Len(w) - 1 /\ Len(w) \in Nat \ {0}
      /\ \A i \in 1..Len(Tail(w)) : Tail(w)[i] = w[i + 1]
      /\ Head(w) = w[1]
  BY HeadTailProperties
<1>2. <<Head(w)>> \o Tail(w) = w
  <2>1. /\ <<Head(w)>> \o Tail(w) \in Seq(Nat)
        /\ Len(<<Head(w)>> \o Tail(w)) = Len(w)
        /\ \A i \in 1..Len(w) : (<<Head(w)>> \o Tail(w))[i] = w[i]
    BY <1>1, ConcatProperties
  <2> QED
    BY <2>1, SeqEqual
<1>3. (g \o <<Head(w)>>) \o Tail(w) = g \o (<<Head(w)>> \o Tail(w))
  BY <1>1, Associates
<1>4. g \o <<>> = g
  BY ConcatEmptySeq
<1> QED
  BY <1>2, <1>3, <1>4, Zenon

\* and given to the collector.
LEMMA JoinsGiven ==
    ASSUME NEW g \in Seq(Nat), NEW w \in Seq(Nat), NEW e \in Nat
    PROVE  (Append(g, e) \o <<>>) \o w = (g \o <<e>>) \o w
<1>1. Append(g, e) \in Seq(Nat) /\ Append(g, e) = g \o <<e>>
  BY AppendIsConcat
<1>2. Append(g, e) \o <<>> = Append(g, e)
  BY <1>1, ConcatEmptySeq
<1> QED
  BY <1>1, <1>2, Zenon

\* ... of which a stream that fails leaves what was given to the collector.
LEMMA JoinsEmpty ==
    ASSUME NEW g \in Seq(Nat), NEW w \in Seq(Nat)
    PROVE  /\ (g \o <<>>) \o <<>> = g /\ (g \o <<>>) \o w = g \o w
           /\ \A x : Elem(g \o w, x) <=> Elem(g, x) \/ Elem(w, x)
           /\ Increasing(g \o w) => Increasing(g) /\ \A x : ~(Elem(g, x) /\ Elem(w, x))
<1>1. g \o <<>> = g
  BY ConcatEmptySeq
<1>2. /\ g \o w \in Seq(Nat) /\ Len(g \o w) = Len(g) + Len(w)
      /\ Len(g) \in Nat /\ Len(w) \in Nat
      /\ \A i \in 1..Len(g) + Len(w) :
            (g \o w)[i] = IF i <= Len(g) THEN g[i] ELSE w[i - Len(g)]
  BY ConcatProperties
<1>3. /\ \A i \in 1..Len(g) : i \in 1..Len(g \o w) /\ (g \o w)[i] = g[i]
      /\ \A i \in 1..Len(w) : /\ Len(g) + i \in 1..Len(g \o w) /\ (g \o w)[Len(g) + i] = w[i]
                              /\ \A k \in 1..Len(g) : k < Len(g) + i
  BY <1>2
<1>4. ASSUME NEW x PROVE Elem(g \o w, x) <=> Elem(g, x) \/ Elem(w, x)
  <2>1. ASSUME Elem(g \o w, x) PROVE Elem(g, x) \/ Elem(w, x)
    <3>1. PICK i \in 1..Len(g) + Len(w) : (g \o w)[i] = x
      BY <1>2, <2>1 DEF Elem
    <3>2. CASE i <= Len(g)
      BY <1>2, <3>1, <3>2 DEF Elem
    <3>3. CASE ~(i <= Len(g))
      <4>1. i - Len(g) \in 1..Len(w) /\ w[i - Len(g)] = x
        BY <1>2, <3>1, <3>3
      <4> QED
        BY <4>1 DEF Elem
    <3> QED
      BY <3>2, <3>3
  <2>2. Elem(g, x) \/ Elem(w, x) => Elem(g \o w, x)
    BY <1>3 DEF Elem
  <2> QED
    BY <2>1, <2>2
<1>5. ASSUME Increasing(g \o w)
      PROVE  Increasing(g) /\ \A x : ~(Elem(g, x) /\ Elem(w, x))
  <2>1. Increasing(g)
    BY <1>3, <1>5 DEF Increasing
  <2>2. ASSUME NEW k \in 1..Len(g), NEW i \in 1..Len(w) PROVE g[k] # w[i]
    <3>1. /\ k \in 1..Len(g \o w) /\ Len(g) + i \in 1..Len(g \o w) /\ k < Len(g) + i
          /\ (g \o w)[k] = g[k] /\ (g \o w)[Len(g) + i] = w[i]
      BY <1>3
    <3>2. g[k] < w[i]
      BY <1>5, <3>1, Zenon DEF Increasing
    <3>3. g[k] \in Nat /\ w[i] \in Nat
      OBVIOUS
    <3> QED
      BY <3>2, <3>3
  <2> QED
    BY <2>1, <2>2 DEF Elem
<1> QED
  BY <1>1, <1>4, <1>5

LEMMA ArrivedType ==
    ASSUME PrepareType, NEW c \in C
    PROVE  Arrived(c) \in Seq(Nat)
<1>1. got[c] \in Seq(Nat) /\ wire[c] \in Seq(Nat) /\ received[c] \in Nat
  BY DEF PrepareType
<1>2. (IF received[c] = Empty THEN <<>> ELSE <<received[c]>>) \in Seq(Nat)
  BY <1>1
<1> QED
  BY <1>1, <1>2, Associates DEF Arrived

LEMMA InitPrepareInv == PrepareInit => PrepareInv
<1> SUFFICES ASSUME PrepareInit PROVE PrepareInv
  OBVIOUS
<1>1. /\ call = 1 /\ phase = "idle" /\ 1 \in C
      /\ \A c \in C : /\ stream[c] = "none" /\ hand[c] = 0 /\ wire[c] = <<>>
                      /\ receiver[c] = "none" /\ received[c] = 0 /\ got[c] = <<>>
      /\ buffer = <<>> /\ events = 0 /\ dropped = {} /\ lost = {}
  BY PrepareBounds DEF PrepareInit, C, Empty
<1>2. PrepareType
  <2>1. wire \in [C -> Seq(Nat)] /\ buffer \in Seq(Nat) /\ got \in [C -> Seq(Nat)]
    BY DEF PrepareInit
  <2>2. /\ hand \in [C -> Nat] /\ received \in [C -> Nat]
        /\ stream \in [C -> {"none", "on", "cancelled", "ended"}]
        /\ receiver \in [C -> {"none", "on", "ended"}]
    BY DEF PrepareInit, Empty
  <2> QED
    BY <1>1, <2>1, <2>2 DEF PrepareType
<1>3. Streams
  BY <1>1 DEF Streams
<1>4. \A c \in C : Arrived(c) = <<>>
  <2>1. (<<>> \o <<>>) \o <<>> = <<>>
    BY JoinsEmpty
  <2> QED
    BY <1>1, <2>1 DEF Arrived, Empty
<1>5. Ordered
  BY <1>1, <1>4, EmptyElems DEF Ordered
<1>6. Places
  BY <1>1, <1>4, EmptyElems DEF Places, OnePlace, Held, Came
<1>7. Losses
  BY <1>1 DEF Losses
<1> QED
  BY <1>2, <1>3, <1>5, <1>6, <1>7 DEF PrepareInv

\* Where no event moves but within what came with a call, and no call is
\* undone, only the types and the streams are left to show.
LEMMA NoEventMoves ==
    ASSUME PrepareInv, PrepareType', Streams',
           UNCHANGED <<hand, buffer, events, dropped, lost>>,
           \A c \in C : Arrived(c)' = Arrived(c),
           call > 1 => call' > 1, phase = "over" => phase' = "over"
    PROVE  PrepareInv'
<1>1. Ordered'
  BY DEF PrepareInv, Ordered
<1>2. Places'
  BY DEF PrepareInv, Places, OnePlace, Held, Came
<1>3. Losses'
  BY DEF PrepareInv, Losses
<1> QED
  BY <1>1, <1>2, <1>3 DEF PrepareInv

LEMMA ArrivedStays ==
    ASSUME NEW c, got'[c] = got[c], received'[c] = received[c], wire'[c] = wire[c]
    PROVE  Arrived(c)' = Arrived(c)
  BY DEF Arrived

\* The client opens a stream, calls Prepare, and cancels the stream.
LEMMA CallStep ==
    ASSUME PrepareInv,
           CallPrepare \/ Return \/ \E ok \in BOOLEAN : Open(ok)
    PROVE  PrepareInv'
<1>0. PrepareType /\ Streams /\ call \in C /\ call \in Nat
  BY DEF PrepareInv, PrepareType, C
<1>1. UNCHANGED <<hand, wire, received, buffer, events, dropped, lost, got>>
  BY DEF CallPrepare, Return, Open, serverVars
<1>2. \A c \in C : Arrived(c)' = Arrived(c)
  BY <1>1, ArrivedStays
<1>3. CASE CallPrepare
  <2>1. PrepareType' /\ phase # "over" /\ call' = call
    BY <1>0, <1>1, <1>3 DEF CallPrepare, PrepareType
  <2>2. Streams'
    BY <1>0, <1>3 DEF CallPrepare, Streams, Past
  <2> QED
    BY <1>1, <1>2, <2>1, <2>2, NoEventMoves
<1>4. ASSUME NEW ok \in BOOLEAN, Open(ok) PROVE PrepareInv'
  <2>1. /\ phase' = "open" /\ phase # "over" /\ call' = call
        /\ stream' \in [C -> {"none", "on", "cancelled", "ended"}]
        /\ receiver' \in [C -> {"none", "on", "ended"}]
        /\ \A c \in C : c # call => stream'[c] = stream[c] /\ receiver'[c] = receiver[c]
        /\ \/ stream'[call] = "on" /\ receiver'[call] = "on"
           \/ stream'[call] = "ended" /\ receiver'[call] = "ended"
    BY <1>0, <1>4 DEF Open, PrepareType
  <2>2. PrepareType'
    BY <1>0, <1>1, <2>1 DEF PrepareType
  <2>3. Streams'
    BY <1>0, <2>1 DEF Streams, Past
  <2> QED
    BY <1>1, <1>2, <2>1, <2>2, <2>3, NoEventMoves
<1>5. CASE Return
  <2>1. /\ phase = "called" /\ Calls \in Nat /\ receiver' = receiver
        /\ \/ call = Calls /\ phase' = "over" /\ call' = call
           \/ call # Calls /\ phase' = "idle" /\ call' = call + 1
        /\ stream' \in [C -> {"none", "on", "cancelled", "ended"}]
        /\ \A c \in C : c # call => stream'[c] = stream[c]
    BY PrepareBounds, <1>0, <1>5 DEF Return, PrepareType
  <2>2. call' \in C /\ (call > 1 => call' > 1)
    BY <1>0, <2>1 DEF C
  <2>3. PrepareType'
    BY <1>0, <1>1, <2>1, <2>2 DEF PrepareType
  <2>4. \A c \in C : c \in Nat /\ (Past(c) \/ c = call => Past(c)')
    BY <1>0, <2>1 DEF Past, C
  <2>5. Streams'
    BY <1>0, <2>1, <2>4 DEF Streams
  <2> QED
    BY <1>1, <1>2, <2>1, <2>2, <2>3, <2>5, NoEventMoves
<1> QED
  BY <1>3, <1>4, <1>5

\* The client receives an event and gives it to the collector, which may
\* forward it.
LEMMA ReceiveStep ==
    ASSUME PrepareInv, NEW c \in C,
           Recv(c) \/ GiveEvent(c) \/ ShowEvent(c) \/ ForwarderReturns(c)
    PROVE  PrepareInv'
<1>0. /\ PrepareType /\ Streams
      /\ got[c] \in Seq(Nat) /\ wire[c] \in Seq(Nat) /\ received[c] \in Nat
  BY DEF PrepareInv, PrepareType
<1>1. UNCHANGED <<call, phase, stream, hand, receiver, buffer, events, dropped, lost>>
  BY DEF Recv, GiveEvent, ShowEvent, ForwarderReturns, serverVars
<1>2. Streams'
  BY <1>0, <1>1 DEF Streams, Past
<1>3. CASE Recv(c)
  <2>1. /\ received[c] = 0 /\ wire[c] # <<>> /\ got' = got
        /\ received' = [received EXCEPT ![c] = Head(wire[c])]
        /\ wire' = [wire EXCEPT ![c] = Tail(@)]
    BY <1>3 DEF Recv, Empty
  <2>2. PICK h \in Nat : h = Head(wire[c])
    BY <1>0, <2>1, TailElems
  <2>3. Tail(wire[c]) \in Seq(Nat) /\ Elem(wire[c], h)
    BY <1>0, <2>1, <2>2, TailElems
  <2>4. PrepareType'
    BY <1>0, <1>1, <2>1, <2>2, <2>3 DEF PrepareType
  <2>5. /\ received'[c] = h /\ wire'[c] = Tail(wire[c])
        /\ \A d \in C : d # c => received'[d] = received[d] /\ wire'[d] = wire[d]
    BY <1>0, <2>1, <2>2 DEF PrepareType
  <2>6. h # 0
    <3>1. Arrived(c) = got[c] \o wire[c]
      BY <1>0, <2>1, JoinsEmpty DEF Arrived, Empty
    <3>2. Came(h)
      <4>1. \A x : Elem(got[c] \o wire[c], x) <=> Elem(got[c], x) \/ Elem(wire[c], x)
        BY <1>0, JoinsEmpty
      <4> QED
        BY <2>3, <3>1, <4>1, Zenon DEF Came
    <3>3. h \in 1..events /\ events \in Nat
      BY <1>0, <3>2 DEF PrepareInv, Places, PrepareType
    <3> QED
      BY <3>3
  <2>7. Arrived(c)' = Arrived(c)
    <3>1. Arrived(c)' = (got[c] \o <<Head(wire[c])>>) \o Tail(wire[c])
      BY <2>1, <2>2, <2>5, <2>6 DEF Arrived, Empty
    <3>2. Arrived(c) = (got[c] \o <<>>) \o wire[c]
      BY <2>1 DEF Arrived, Empty
    <3> QED
      <4>1. (got[c] \o <<Head(wire[c])>>) \o Tail(wire[c]) = (got[c] \o <<>>) \o wire[c]
        BY <1>0, <2>1, JoinsReceived
      <4> QED
        BY <3>1, <3>2, <4>1, Zenon
  <2>8. \A d \in C : Arrived(d)' = Arrived(d)
    BY <2>1, <2>5, <2>7, ArrivedStays
  <2> QED
    BY <1>1, <1>2, <2>4, <2>8, NoEventMoves
<1>4. CASE GiveEvent(c)
  <2>1. /\ received[c] # 0 /\ wire' = wire
        /\ got' = [got EXCEPT ![c] = Append(@, received[c])]
        /\ received' = [received EXCEPT ![c] = 0]
    BY <1>4 DEF GiveEvent, Empty
  <2>2. Append(got[c], received[c]) \in Seq(Nat)
    BY <1>0
  <2>3. PrepareType'
    BY <1>0, <1>1, <2>1, <2>2 DEF PrepareType
  <2>4. /\ received'[c] = 0 /\ got'[c] = Append(got[c], received[c])
        /\ \A d \in C : d # c => received'[d] = received[d] /\ got'[d] = got[d]
    BY <1>0, <2>1 DEF PrepareType
  <2>5. Arrived(c)' = Arrived(c)
    <3>1. Arrived(c)' = (Append(got[c], received[c]) \o <<>>) \o wire[c]
      BY <2>1, <2>4 DEF Arrived, Empty
    <3>2. Arrived(c) = (got[c] \o <<received[c]>>) \o wire[c]
      BY <2>1 DEF Arrived, Empty
    <3> QED
      <4>1. (Append(got[c], received[c]) \o <<>>) \o wire[c] = (got[c] \o <<received[c]>>) \o wire[c]
        BY <1>0, JoinsGiven
      <4> QED
        BY <3>1, <3>2, <4>1, Zenon
  <2>6. \A d \in C : Arrived(d)' = Arrived(d)
    BY <2>1, <2>4, <2>5, ArrivedStays
  <2> QED
    BY <1>1, <1>2, <2>3, <2>6, NoEventMoves
<1>5. CASE ShowEvent(c) \/ ForwarderReturns(c)
  <2>1. UNCHANGED <<got, received, wire>>
    BY <1>5 DEF ShowEvent, ForwarderReturns
  <2>2. PrepareType'
    BY <1>0, <1>1, <2>1 DEF PrepareType
  <2>3. \A d \in C : Arrived(d)' = Arrived(d)
    BY <2>1, ArrivedStays
  <2> QED
    BY <1>1, <1>2, <2>2, <2>3, NoEventMoves
<1> QED
  BY <1>3, <1>4, <1>5

\* The client sees its stream cancelled: what is on the wire is lost.
LEMMA FailStep ==
    ASSUME PrepareInv, NEW c \in C, RecvFails(c)
    PROVE  PrepareInv'
<1>0. /\ PrepareType /\ Streams /\ Ordered /\ Places /\ Losses
      /\ got[c] \in Seq(Nat) /\ wire[c] \in Seq(Nat)
  BY DEF PrepareInv, PrepareType
<1>1. /\ UNCHANGED <<call, phase, stream, hand, received, buffer, events, dropped, got>>
      /\ receiver[c] = "on" /\ received[c] = 0 /\ stream[c] # "on"
      /\ lost' = lost \cup ToSet(wire[c])
  BY DEF RecvFails, serverVars, Empty
<1>2. /\ receiver' \in [C -> {"none", "on", "ended"}] /\ receiver'[c] = "ended"
      /\ wire' \in [C -> Seq(Nat)] /\ wire'[c] = <<>>
      /\ \A d \in C : d # c => wire'[d] = wire[d] /\ receiver'[d] = receiver[d]
  BY <1>0 DEF RecvFails, PrepareType
<1>3. \A e : e \in lost' <=> e \in lost \/ Elem(wire[c], e)
  BY <1>0, <1>1, ToSetElems
<1>4. PrepareType'
  <2>1. lost' \in SUBSET Nat
    BY <1>0, <1>3, ElemNat DEF PrepareType
  <2> QED
    BY <1>0, <1>1, <1>2, <2>1 DEF PrepareType
<1>5. Streams'
  BY <1>0, <1>1, <1>2 DEF Streams, Past
<1>6. /\ Arrived(c)' = got[c] /\ Arrived(c) = got[c] \o wire[c]
      /\ \A d \in C : d # c => Arrived(d)' = Arrived(d)
  <2>1. Arrived(c)' = (got[c] \o <<>>) \o <<>> /\ Arrived(c) = (got[c] \o <<>>) \o wire[c]
    BY <1>1, <1>2 DEF Arrived, Empty
  <2> QED
    BY <1>0, <1>1, <1>2, <2>1, ArrivedStays, JoinsEmpty
<1>7. /\ \A x : Elem(Arrived(c), x) <=> Elem(got[c], x) \/ Elem(wire[c], x)
      /\ Increasing(got[c]) /\ \A x : ~(Elem(got[c], x) /\ Elem(wire[c], x))
  <2>1. /\ \A x : Elem(got[c] \o wire[c], x) <=> Elem(got[c], x) \/ Elem(wire[c], x)
        /\ Increasing(got[c] \o wire[c]) =>
              Increasing(got[c]) /\ \A x : ~(Elem(got[c], x) /\ Elem(wire[c], x))
    BY <1>0, JoinsEmpty
  <2>2. Increasing(Arrived(c))
    BY <1>0 DEF Ordered
  <2> QED
    BY <1>6, <2>1, <2>2, Zenon
<1>8. /\ \A d \in C : \A x : Elem(Arrived(d)', x) => Elem(Arrived(d), x)
      /\ \A d \in C : Increasing(Arrived(d)')
  BY <1>0, <1>6, <1>7 DEF Ordered
<1>9. Ordered'
  BY <1>0, <1>1, <1>8 DEF Ordered
<1>10. Places'
  <2>1. \A e : Came(e) <=> Came(e)' \/ Elem(wire[c], e)
    BY <1>6, <1>7 DEF Came
  <2>2. \A e : Elem(wire[c], e) => ~Came(e)'
    <3>1. \A e : Elem(wire[c], e) => Elem(Arrived(c), e) /\ ~Elem(got[c], e)
      BY <1>7
    <3> QED
      BY <1>0, <1>6, <1>8, <3>1 DEF Places, Came
  <2>3. \A e : Held(e)' <=> Held(e)
    BY <1>1 DEF Held
  <2>4. \A e : OnePlace(e)'
    BY <1>0, <1>1, <1>3, <2>1, <2>2, <2>3 DEF Places, OnePlace
  <2>5. \A e : e \in 1..events' <=>
           Elem(buffer', e) \/ Held(e)' \/ Came(e)' \/ e \in dropped' \/ e \in lost'
    BY <1>0, <1>1, <1>3, <2>1, <2>3 DEF Places
  <2> QED
    BY <1>0, <1>1, <1>8, <2>4, <2>5 DEF Places
<1>11. Losses'
  <2>1. call > 1 \/ phase = "over"
    BY <1>0, <1>1 DEF Streams, Past, PrepareType, C
  <2> QED
    BY <1>0, <1>1, <2>1 DEF Losses
<1> QED
  BY <1>4, <1>5, <1>9, <1>10, <1>11 DEF PrepareInv

\* The provider reports an event: the channel takes it or it is dropped.
LEMMA ReportStep ==
    ASSUME PrepareInv, ReportEvent
    PROVE  PrepareInv'
<1> USE DEF PrepareInv
<1>0. PrepareType /\ buffer \in Seq(Nat) /\ events \in Nat /\ ReporterCap \in Nat
  BY PrepareBounds DEF PrepareType
<1>1. /\ UNCHANGED <<call, phase, stream, receiver, hand, wire, received, lost, got>>
      /\ \A d \in C : Arrived(d)' = Arrived(d)
      /\ events' = events + 1
      /\ \/ buffer' = Append(buffer, events + 1) /\ dropped' = dropped
         \/ Len(buffer) >= ReporterCap /\ dropped' = dropped \cup {events + 1} /\ buffer' = buffer
  <2>1. Len(buffer) \in Nat
    BY <1>0
  <2> QED
    BY <1>0, <2>1, ArrivedStays DEF ReportEvent
<1>2. PICK n \in Nat : n = events + 1
  BY <1>0
<1>3. \A e : e \in 1..events' <=> e \in 1..events \/ e = n
  BY <1>0, <1>1, <1>2
<1>4. /\ n \notin 1..events
      /\ \A e \in 1..events : e < n /\ e \in Nat
  BY <1>0, <1>2
<1>5. Len(buffer) \in Nat /\ Len(buffer) < n
  <2>1. Len(buffer) \in Nat
    BY <1>0
  <2>2. CASE Len(buffer) = 0
    BY <1>0, <1>2, <2>2
  <2>3. CASE Len(buffer) # 0
    <3>1. Len(buffer) \in 1..Len(buffer)
      BY <2>1, <2>3
    <3>2. buffer[Len(buffer)] >= Len(buffer) /\ Elem(buffer, buffer[Len(buffer)])
      BY <3>1 DEF Ordered, Spaced, Elem
    <3>3. buffer[Len(buffer)] \in 1..events
      BY <3>2 DEF Places
    <3> QED
      BY <1>0, <1>2, <2>1, <3>2, <3>3
  <2> QED
    BY <2>2, <2>3
<1>6. \A e : Held(e)' <=> Held(e)
  BY <1>1 DEF Held
<1>7. \A e : Came(e)' <=> Came(e)
  BY <1>1 DEF Came
<1>8. Streams'
  BY <1>1 DEF Streams, Past
<1>9. /\ \A c \in C : hand[c] < n /\ \A e : Elem(Arrived(c), e) => e < n
      /\ \A e : Elem(buffer, e) => e < n
  <2>1. \A c \in C : hand[c] # 0 => Held(hand[c])
    BY DEF Held
  <2>2. \A c \in C : \A e : Elem(Arrived(c), e) => Came(e)
    BY DEF Came
  <2>3. 0 < n
    BY <1>0, <1>2
  <2>4. \A c \in C : hand[c] # 0 => hand[c] \in 1..events
    BY <2>1 DEF Places
  <2>5. \A e : Elem(buffer, e) \/ Came(e) => e \in 1..events
    BY DEF Places
  <2> QED
    BY <1>4, <2>2, <2>3, <2>4, <2>5
<1>10. CASE buffer' = Append(buffer, events + 1) /\ dropped' = dropped
  <2>1. /\ buffer' \in Seq(Nat)
        /\ \A x : Elem(buffer', x) <=> Elem(buffer, x) \/ x = n
        /\ Increasing(buffer) /\ (\A x : Elem(buffer, x) => x < n) => Increasing(buffer')
        /\ Spaced(buffer) /\ n > Len(buffer) => Spaced(buffer')
    BY <1>0, <1>2, <1>10, AppendElems
  <2>2. PrepareType'
    BY <1>0, <1>1, <1>10, <2>1 DEF PrepareType
  <2>3. Increasing(buffer') /\ Spaced(buffer')
    BY <1>5, <1>9, <2>1 DEF Ordered
  <2>4. Ordered'
    BY <1>1, <1>9, <2>1, <2>3 DEF Ordered
  <2>5. \A e : OnePlace(e)'
    <3>1. /\ ~Held(n) /\ ~Came(n) /\ n \notin dropped /\ n \notin lost
      BY <1>4 DEF Places
    <3> QED
      BY <1>1, <1>6, <1>7, <1>10, <2>1, <3>1 DEF Places, OnePlace
  <2>6. \A e : e \in 1..events' <=>
           \/ Elem(buffer', e) \/ Held(e)' \/ Came(e)' \/ e \in dropped' \/ e \in lost'
    BY <1>1, <1>3, <1>6, <1>7, <1>10, <2>1 DEF Places
  <2>7. Places'
    BY <1>1, <2>5, <2>6 DEF Places
  <2>8. Losses'
    BY <1>0, <1>1, <1>10 DEF Losses
  <2> QED
    BY <1>8, <2>2, <2>4, <2>7, <2>8
<1>11. CASE Len(buffer) >= ReporterCap /\ dropped' = dropped \cup {events + 1} /\ buffer' = buffer
  <2>1. \A e : e \in dropped' <=> e \in dropped \/ e = n
    BY <1>2, <1>11
  <2>2. PrepareType'
    BY <1>0, <1>1, <1>11 DEF PrepareType
  <2>3. Ordered'
    BY <1>1, <1>11 DEF Ordered
  <2>4. \A e : OnePlace(e)'
    <3>1. /\ ~Held(n) /\ ~Came(n) /\ ~Elem(buffer, n) /\ n \notin lost
      BY <1>4 DEF Places
    <3> QED
      BY <1>1, <1>6, <1>7, <1>11, <2>1, <3>1 DEF Places, OnePlace
  <2>5. \A e : e \in 1..events' <=>
           \/ Elem(buffer', e) \/ Held(e)' \/ Came(e)' \/ e \in dropped' \/ e \in lost'
    BY <1>1, <1>3, <1>6, <1>7, <1>11, <2>1 DEF Places
  <2>6. Places'
    BY <1>1, <2>4, <2>5 DEF Places
  <2>7. Losses'
    BY <1>0, <1>1, <1>2, <1>5, <1>11 DEF Losses
  <2> QED
    BY <1>8, <2>2, <2>3, <2>6, <2>7
<1> QED
  BY <1>1, <1>10, <1>11

\* The server side of a call takes an event from the channel.
LEMMA TakeStep ==
    ASSUME PrepareInv, NEW c \in C, TakeEvent(c)
    PROVE  PrepareInv'
<1> USE DEF PrepareInv
<1>0. PrepareType /\ buffer \in Seq(Nat)
  BY DEF PrepareType
<1>1. /\ UNCHANGED <<call, phase, stream, receiver, wire, received, events, dropped, lost, got>>
      /\ \A d \in C : Arrived(d)' = Arrived(d)
      /\ hand[c] = 0 /\ buffer # <<>> /\ buffer' = Tail(buffer)
  BY ArrivedStays DEF TakeEvent, Empty
<1>2. PICK h \in Nat : h = Head(buffer)
  BY <1>0, <1>1, TailElems
<1>3. \A d \in C : hand'[d] = IF d = c THEN h ELSE hand[d]
  BY <1>0, <1>2 DEF TakeEvent, PrepareType
<1>4. /\ buffer' \in Seq(Nat)
      /\ \A x : Elem(buffer, x) <=> Elem(buffer', x) \/ x = h
      /\ Increasing(buffer) => /\ Increasing(buffer')
                               /\ \A x : Elem(buffer', x) => h < x
      /\ Spaced(buffer) => Spaced(buffer')
  BY <1>0, <1>1, <1>2, TailElems
<1>5. Increasing(buffer') /\ Spaced(buffer') /\ \A x : Elem(buffer', x) => h < x
  BY <1>4 DEF Ordered
<1>6. Elem(buffer, h) /\ h \in 1..events /\ h # 0
  <2>1. Elem(buffer, h) /\ h \in 1..events
    BY <1>4 DEF Places
  <2>2. events \in Nat
    BY <1>0 DEF PrepareType
  <2> QED
    BY <2>1, <2>2
<1>7. PrepareType'
  <2>1. hand' \in [C -> Nat]
    BY <1>0, <1>2 DEF TakeEvent, PrepareType
  <2> QED
    BY <1>0, <1>1, <1>4, <2>1 DEF PrepareType
<1>8. Streams'
  BY <1>1 DEF Streams, Past
<1>9. Ordered'
  <2>1. ASSUME NEW d \in C, hand'[d] # 0
        PROVE  \A x : Elem(Arrived(d)', x) => x < hand'[d]
    <3>1. CASE d = c
      BY <1>1, <1>3, <1>6, <3>1 DEF Ordered
    <3>2. CASE d # c
      BY <1>1, <1>3, <2>1, <3>2 DEF Ordered
    <3> QED
      BY <3>1, <3>2
  <2>2. ASSUME NEW e, Elem(buffer', e)
        PROVE  \A d \in C : hand'[d] < e /\ \A x : Elem(Arrived(d)', x) => x < e
    <3>1. Elem(buffer, e) /\ h < e
      BY <1>4, <1>5, <2>2
    <3> QED
      BY <1>1, <1>3, <3>1 DEF Ordered
  <2> QED
    BY <1>1, <1>5, <2>1, <2>2 DEF Ordered
<1>10. Places'
  <2>1. \A e : Held(e)' <=> Held(e) \/ e = h
    BY <1>1, <1>3, <1>6 DEF Held
  <2>2. \A e : Came(e)' <=> Came(e)
    BY <1>1 DEF Came
  <2>3. ~Elem(buffer', h)
    BY <1>5
  <2>4. \A e : OnePlace(e)'
    BY <1>1, <1>4, <1>6, <2>1, <2>2, <2>3 DEF Places, OnePlace
  <2>5. \A e : e \in 1..events' <=>
           \/ Elem(buffer', e) \/ Held(e)' \/ Came(e)' \/ e \in dropped' \/ e \in lost'
    BY <1>1, <1>4, <2>1, <2>2 DEF Places
  <2>6. ASSUME NEW x \in C, NEW y \in C, hand'[x] # 0, hand'[x] = hand'[y]
        PROVE  x = y
    <3>1. \A d \in C : hand[d] # h
      BY <1>6 DEF Places, OnePlace, Held
    <3> QED
      BY <1>3, <2>6, <3>1 DEF Places
  <2> QED
    BY <1>1, <2>4, <2>5, <2>6 DEF Places
<1>11. Losses'
  BY <1>1 DEF Losses
<1> QED
  BY <1>7, <1>8, <1>9, <1>10, <1>11

\* ... and sends it: to a client that receives, or to nobody.
LEMMA SendStep ==
    ASSUME PrepareInv, NEW c \in C, NEW fate, SendEvent(c, fate)
    PROVE  PrepareInv'
<1> USE DEF PrepareInv
<1>0. /\ PrepareType /\ wire[c] \in Seq(Nat) /\ got[c] \in Seq(Nat) /\ received[c] \in Nat
      /\ Arrived(c) \in Seq(Nat)
  BY ArrivedType DEF PrepareType
<1>1. /\ UNCHANGED <<call, phase, receiver, received, buffer, events, dropped, got>>
      /\ hand[c] # 0
  BY DEF SendEvent, serverVars, Empty
<1>2. PICK h \in Nat : h = hand[c]
  BY <1>0 DEF PrepareType
<1>3. /\ \A d \in C : hand'[d] = IF d = c THEN 0 ELSE hand[d]
      /\ hand' \in [C -> Nat]
  BY <1>0 DEF SendEvent, PrepareType, Empty
<1>4. /\ \A e : Held(e) <=> Held(e)' \/ e = h
      /\ ~Held(h)'
  <2>1. h # 0 /\ \A d \in C : d # c => hand[d] # h
    BY <1>1, <1>2 DEF Places
  <2> QED
    BY <1>2, <1>3, <2>1 DEF Held
<1>5. \A x, y \in C : hand'[x] # 0 /\ hand'[x] = hand'[y] => x = y
  BY <1>3 DEF Places
<1>6. Held(h) /\ ~Came(h)
  BY <1>4 DEF Places, OnePlace
<1>7. \A e : Elem(buffer, e) => \A d \in C : hand'[d] < e /\ h < e
  <2> SUFFICES ASSUME NEW e, Elem(buffer, e), NEW d \in C PROVE hand'[d] < e /\ h < e
    OBVIOUS
  <2>1. e \in Nat /\ hand[d] < e /\ h < e /\ hand[d] \in Nat
    BY <1>0, <1>2, ElemNat DEF Ordered, PrepareType
  <2>2. 0 < e
    BY <1>2, <2>1
  <2> QED
    BY <1>3, <2>1, <2>2
<1>8. CASE fate = "arrives"
  <2>1. lost' = lost /\ stream' = stream /\ wire' = [wire EXCEPT ![c] = Append(@, hand[c])]
    BY <1>8 DEF SendEvent
  <2>2. /\ \A d \in C : d # c => wire'[d] = wire[d]
        /\ wire'[c] = Append(wire[c], h) /\ Append(wire[c], h) \in Seq(Nat)
        /\ wire' \in [C -> Seq(Nat)]
    BY <1>0, <1>2, <2>1 DEF PrepareType
  <2>3. Arrived(c)' = Append(Arrived(c), h)
    <3>1. CASE received[c] = 0
      <4>1. /\ Arrived(c)' = (got[c] \o <<>>) \o Append(wire[c], h)
            /\ Arrived(c) = (got[c] \o <<>>) \o wire[c]
        BY <1>1, <2>2, <3>1 DEF Arrived, Empty
      <4>2. <<>> \in Seq(Nat)
        OBVIOUS
      <4>3. (got[c] \o <<>>) \o Append(wire[c], h) = Append((got[c] \o <<>>) \o wire[c], h)
        BY <1>0, <4>2, JoinsSent
      <4> QED
        BY <4>1, <4>3, Zenon
    <3>2. CASE received[c] # 0
      <4>1. /\ Arrived(c)' = (got[c] \o <<received[c]>>) \o Append(wire[c], h)
            /\ Arrived(c) = (got[c] \o <<received[c]>>) \o wire[c]
        BY <1>1, <2>2, <3>2 DEF Arrived, Empty
      <4>2. <<received[c]>> \in Seq(Nat)
        BY <1>0
      <4>3. (got[c] \o <<received[c]>>) \o Append(wire[c], h)
               = Append((got[c] \o <<received[c]>>) \o wire[c], h)
        BY <1>0, <4>2, JoinsSent
      <4> QED
        BY <4>1, <4>3, Zenon
    <3> QED
      BY <3>1, <3>2
  <2>4. \A d \in C : d # c => Arrived(d)' = Arrived(d)
    BY <1>1, <2>2, ArrivedStays
  <2>5. /\ \A x : Elem(Arrived(c)', x) <=> Elem(Arrived(c), x) \/ x = h
        /\ Increasing(Arrived(c)')
    <3>1. Increasing(Arrived(c)) /\ \A x : Elem(Arrived(c), x) => x < h
      BY <1>1, <1>2 DEF Ordered
    <3> QED
      BY <1>0, <2>3, <3>1, AppendElems
  <2>6. \A d \in C : \A x : Elem(Arrived(d)', x) <=> Elem(Arrived(d), x) \/ (d = c /\ x = h)
    BY <2>4, <2>5
  <2>7. PrepareType'
    BY <1>0, <1>1, <1>3, <2>1, <2>2 DEF PrepareType
  <2>8. Streams'
    BY <1>1, <2>1 DEF Streams, Past
  <2>9. Ordered'
    <3>1. \A d \in C : Increasing(Arrived(d)')
      BY <2>4, <2>5 DEF Ordered
    <3>2. \A d \in C : hand'[d] # 0 => \A x : Elem(Arrived(d)', x) => x < hand'[d]
      BY <1>3, <2>4 DEF Ordered
    <3>3. \A e : Elem(buffer, e) => \A d \in C : \A x : Elem(Arrived(d)', x) => x < e
      BY <1>7, <2>6 DEF Ordered
    <3> QED
      BY <1>1, <1>7, <3>1, <3>2, <3>3 DEF Ordered
  <2>10. Places'
    <3>1. \A e : Came(e)' <=> Came(e) \/ e = h
      BY <2>6 DEF Came
    <3>2. \A e : OnePlace(e)'
      BY <1>1, <1>4, <1>6, <2>1, <3>1 DEF Places, OnePlace
    <3>3. \A e : e \in 1..events' <=>
             Elem(buffer', e) \/ Held(e)' \/ Came(e)' \/ e \in dropped' \/ e \in lost'
      BY <1>1, <1>4, <2>1, <3>1 DEF Places
    <3>4. \A x, y \in C : \A e : Elem(Arrived(x)', e) /\ Elem(Arrived(y)', e) => x = y
      BY <1>6, <2>6 DEF Places, Came
    <3> QED
      BY <1>5, <3>2, <3>3, <3>4 DEF Places
  <2>11. Losses'
    BY <1>1, <2>1 DEF Losses
  <2> QED
    BY <2>7, <2>8, <2>9, <2>10, <2>11
<1>9. CASE fate # "arrives"
  <2>1. /\ lost' = lost \cup {h} /\ wire' = wire /\ stream[c] = "cancelled"
        /\ stream' \in {stream, [stream EXCEPT ![c] = "ended"]}
    BY <1>2, <1>9 DEF SendEvent
  <2>2. /\ stream' \in [C -> {"none", "on", "cancelled", "ended"}]
        /\ \A d \in C : stream'[d] = stream[d] \/ (d = c /\ stream'[d] = "ended")
    BY <1>0, <2>1 DEF PrepareType
  <2>3. \A d \in C : Arrived(d)' = Arrived(d)
    BY <1>1, <2>1, ArrivedStays
  <2>4. PrepareType'
    BY <1>0, <1>1, <1>3, <2>1, <2>2 DEF PrepareType
  <2>5. Streams'
    BY <1>1, <2>1, <2>2 DEF Streams, Past
  <2>6. Ordered'
    <3>1. \A d \in C : hand'[d] # 0 => \A x : Elem(Arrived(d), x) => x < hand'[d]
      BY <1>3 DEF Ordered
    <3> QED
      BY <1>1, <1>7, <2>3, <3>1 DEF Ordered
  <2>7. Places'
    <3>1. \A e : Came(e)' <=> Came(e)
      BY <2>3 DEF Came
    <3>2. \A e : e \in lost' <=> e \in lost \/ e = h
      BY <2>1
    <3>3. \A e : OnePlace(e)'
      BY <1>1, <1>4, <1>6, <3>1, <3>2 DEF Places, OnePlace
    <3>4. \A e : e \in 1..events' <=>
             Elem(buffer', e) \/ Held(e)' \/ Came(e)' \/ e \in dropped' \/ e \in lost'
      BY <1>1, <1>4, <3>1, <3>2 DEF Places
    <3> QED
      BY <1>5, <2>3, <3>3, <3>4 DEF Places
  <2>8. Losses'
    <3>1. call > 1 \/ phase = "over"
      BY <1>0, <2>1 DEF Streams, Past, PrepareType, C
    <3> QED
      BY <1>1, <3>1 DEF Losses
  <2> QED
    BY <2>4, <2>5, <2>6, <2>7, <2>8
<1> QED
  BY <1>8, <1>9

LEMMA NextPrepareInv == PrepareInv /\ [PrepareNext]_prepareVars => PrepareInv'
<1> SUFFICES ASSUME PrepareInv, [PrepareNext]_prepareVars PROVE PrepareInv'
  OBVIOUS
<1>1. CASE UNCHANGED prepareVars
  <2>1. /\ \A c \in C : Arrived(c)' = Arrived(c)
        /\ UNCHANGED <<call, phase, hand, buffer, events, dropped, lost>>
    BY <1>1, ArrivedStays DEF prepareVars, serverVars
  <2>2. PrepareType' /\ Streams'
    BY <1>1 DEF prepareVars, serverVars, PrepareInv, PrepareType, Streams, Past
  <2> QED
    BY <2>1, <2>2, NoEventMoves
<1> QED
  BY <1>1, CallStep, ReceiveStep, FailStep, ReportStep, TakeStep, SendStep DEF PrepareNext

(***************************************************************************)
(* Over any number of calls of Prepare, with any buffer, and however late  *)
(* the goroutines of earlier calls notice that they are cancelled: every   *)
(* collector gets events in order, no event comes twice, every event is in *)
(* one place, and only a full channel or a cancelled stream loses one.     *)
(***************************************************************************)
THEOREM EventsInOrder == PrepareSpec => []PrepareEventsInOrder
<1>1. PrepareInv => PrepareEventsInOrder
  <2> SUFFICES ASSUME PrepareInv PROVE PrepareEventsInOrder
    OBVIOUS
  <2>0. PrepareType /\ Ordered /\ Places /\ Losses
    BY DEF PrepareInv
  <2> DEFINE holding == {hand[c] : c \in C} \ {Empty}
             all == UNION {ToSet(Arrived(c)) : c \in C}
  <2>1. /\ \A e : e \in ToSet(buffer) <=> Elem(buffer, e)
        /\ \A c \in C : \A e : e \in ToSet(Arrived(c)) <=> Elem(Arrived(c), e)
    BY <2>0, ArrivedType, ToSetElems DEF PrepareType
  <2>2. \A e : e \in holding <=> Held(e)
    BY DEF Held, Empty
  <2>3. \A e : e \in all <=> Came(e)
    BY <2>1 DEF Came
  <2>4. \A c \in C : \A i, k \in 1..Len(Arrived(c)) : i < k => Arrived(c)[i] < Arrived(c)[k]
    BY <2>0 DEF Ordered, Increasing
  <2>5. \A c, d \in C : c # d => ToSet(Arrived(c)) \cap ToSet(Arrived(d)) = {}
    BY <2>0, <2>1 DEF Places
  <2> HIDE DEF all, holding
  <2>6. 1..events = ToSet(buffer) \cup holding \cup all \cup dropped \cup lost
    <3>1. \A e : e \in 1..events <=> e \in ToSet(buffer) \cup holding \cup all \cup dropped \cup lost
      BY <2>0, <2>1, <2>2, <2>3 DEF Places
    <3> QED
      BY <3>1
  <2>7. /\ all \cap (ToSet(buffer) \cup holding \cup dropped \cup lost) = {}
        /\ (ToSet(buffer) \cup holding) \cap (dropped \cup lost) = {} /\ dropped \cap lost = {}
    BY <2>0, <2>1, <2>2, <2>3 DEF Places, OnePlace
  <2> USE DEF all, holding
  <2> QED
    BY <2>0, <2>4, <2>5, <2>6, <2>7 DEF PrepareEventsInOrder, Losses
<1> QED
  BY <1>1, InitPrepareInv, NextPrepareInv, PTL DEF PrepareSpec
=============================================================================
