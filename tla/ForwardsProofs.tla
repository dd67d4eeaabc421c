--------------------------- MODULE ForwardsProofs ---------------------------
(***************************************************************************)
(* Proofs about Forwards, for any number of forwards, requests and local    *)
(* connections, and for queues of any length.                               *)
(***************************************************************************)
EXTENDS Forwards, TLAPS, FiniteSetTheorems, SequenceTheorems

USE PortsAssumption, RequestsAssumption, BoundsAssumption, NoneAssumption

(* How many of the first k events are of a kind. *)
OfKind(events, kind, k) == {i \in 1..k : events[i].kind = kind}

Count(events, kind, k) == Cardinality(OfKind(events, kind, k))

(* What the row will show once the first k queued events are applied. *)
Shown(f, k) == f.connections + Count(f.events, "Opened", k)
                 - Count(f.events, "Closed", k)

(* A forward that went is gone for good; one that reconnects is probed; no  *)
(* prefix of its events takes the count below zero, and all of them take it *)
(* to what the listener has open.                                           *)
ForwardOK(f) ==
    /\ f.state = "Gone" => f = Gone
    /\ f.state = "Reconnecting" => f.probe # "none"
    /\ \A k \in 0..Len(f.events) : Shown(f, k) >= 0
    /\ Shown(f, Len(f.events)) = f.open

(* Ids are never given out twice. *)
IdsInv ==
    /\ \A id \in Ids : id >= nextId => ~Exists(id)
    /\ \A r \in Requests : /\ requests[r].forward # None => requests[r].forward < nextId
                           /\ requests[r].phase \in {"answered", "holding"}
                                => requests[r].forward # None

(* The command that stops forward id is on its way; a feature has it. *)
Stopping(id) == \E i \in DOMAIN commands : /\ commands[i].kind = "Stop"
                                           /\ commands[i].id = id

Held(id) == \E r \in Requests : /\ requests[r].forward = id
                                /\ requests[r].phase \in {"answered", "holding"}

(* Why a forward of a feature may run. *)
Wanted(id) == waiting[id] # None \/ Held(id) \/ Stopping(id)

WantedInv == lateDrops = 0 =>
    \A id \in Ids : Exists(id) /\ forwards[id].feature => Wanted(id)

IInv ==
    /\ TypeOK
    /\ \A id \in Ids : ForwardOK(forwards[id])
    /\ IdsInv
    /\ HeldIsWatched
    /\ WantedInv

-----------------------------------------------------------------------------
(* A prefix of a queue is finite, so its events are counted by a number. *)
LEMMA CountType ==
    ASSUME NEW s, NEW kind, NEW k \in Nat
    PROVE  /\ IsFiniteSet(OfKind(s, kind, k))
           /\ Count(s, kind, k) \in Nat
           /\ k = 0 => Count(s, kind, k) = 0
  <1>1. IsFiniteSet(1..k) /\ OfKind(s, kind, k) \in SUBSET (1..k)
    BY FS_Interval DEF OfKind
  <1>2. IsFiniteSet(OfKind(s, kind, k))
    BY <1>1, FS_Subset
  <1>3. k = 0 => OfKind(s, kind, k) = {}
    BY DEF OfKind
  <1> QED BY <1>2, <1>3, FS_EmptySet, FS_CardinalityType DEF Count

(* One more event is counted if it is of the kind. *)
LEMMA CountNext ==
    ASSUME NEW s, NEW kind, NEW k \in Nat
    PROVE  Count(s, kind, k + 1)
             = Count(s, kind, k) + (IF s[k + 1].kind = kind THEN 1 ELSE 0)
  <1>1. IsFiniteSet(OfKind(s, kind, k)) /\ Count(s, kind, k) \in Nat
    BY CountType
  <1>2. CASE s[k + 1].kind = kind
    <2>1. /\ OfKind(s, kind, k + 1) = OfKind(s, kind, k) \union {k + 1}
          /\ k + 1 \notin OfKind(s, kind, k)
      BY <1>2 DEF OfKind
    <2> QED BY <1>1, <1>2, <2>1, FS_AddElement DEF Count
  <1>3. CASE s[k + 1].kind # kind
    <2>1. OfKind(s, kind, k + 1) = OfKind(s, kind, k)
      BY <1>3 DEF OfKind
    <2> QED BY <1>1, <1>3, <2>1 DEF Count
  <1> QED BY <1>2, <1>3

(* The queues s and t begin with the same n events. *)
SameStart(s, t, n) == \A i \in 1..n : t[i] = s[i]

(* An event at the end of the queue does not change the count before it. *)
LEMMA CountAppend ==
    ASSUME NEW s, NEW t, NEW n \in Nat, SameStart(s, t, n), NEW kind
    PROVE  /\ \A k \in 0..n : Count(t, kind, k) = Count(s, kind, k)
           /\ Count(t, kind, n + 1)
                = Count(s, kind, n) + (IF t[n + 1].kind = kind THEN 1 ELSE 0)
  <1>1. ASSUME NEW k \in 0..n PROVE Count(t, kind, k) = Count(s, kind, k)
    <2>1. OfKind(t, kind, k) = OfKind(s, kind, k)
      BY DEF OfKind, SameStart
    <2> QED BY <2>1 DEF Count
  <1>2. Count(t, kind, n + 1)
          = Count(t, kind, n) + (IF t[n + 1].kind = kind THEN 1 ELSE 0)
    BY CountNext
  <1>3. Count(t, kind, n) = Count(s, kind, n)
    BY <1>1
  <1> QED BY <1>1, <1>2, <1>3

(* Taking the first event off the queue takes it off the count. *)
LEMMA CountTail ==
    ASSUME NEW s \in Seq(Event), s # <<>>, NEW kind, NEW k \in 0..(Len(s) - 1)
    PROVE  Count(s, kind, k + 1)
             = Count(Tail(s), kind, k) + (IF Head(s).kind = kind THEN 1 ELSE 0)
  <1> DEFINE t == Tail(s)
             S == OfKind(t, kind, k)
             R == {i \in 2..(k + 1) : s[i].kind = kind}
  <1>1. /\ Len(s) \in Nat /\ Len(s) > 0 /\ k \in Nat /\ Head(s) = s[1]
        /\ \A i \in 1..k : t[i] = s[i + 1]
    OBVIOUS
  <1> HIDE DEF t
  <1>2. IsFiniteSet(S) /\ Count(t, kind, k) \in Nat
    BY <1>1, CountType
  <1>3. Cardinality(S) = Cardinality(R) /\ IsFiniteSet(R)
    <2> DEFINE f == [i \in S |-> i + 1]
    <2>1. S \subseteq Int /\ \A i \in S : i + 1 \in R
      BY <1>1 DEF OfKind
    <2>2. \A j \in R : j - 1 \in S /\ f[j - 1] = j
      BY <1>1 DEF OfKind
    <2> HIDE DEF S, R
    <2>3. \A i, j \in S : f[i] = f[j] => i = j
      BY <2>1
    <2>4. f \in Bijection(S, R)
      BY <2>1, <2>2, <2>3 DEF Bijection, Injection, Surjection, IsInjective
    <2>5. ExistsBijection(S, R)
      BY <2>4 DEF ExistsBijection
    <2> QED BY <1>2, <2>5, FS_Bijection
  <1>4. CASE Head(s).kind = kind
    <2>1. OfKind(s, kind, k + 1) = R \union {1} /\ 1 \notin R
      BY <1>1, <1>4 DEF OfKind
    <2> HIDE DEF R
    <2> QED BY <1>2, <1>3, <1>4, <2>1, FS_AddElement DEF Count, t
  <1>5. CASE Head(s).kind # kind
    <2>1. OfKind(s, kind, k + 1) = R
      BY <1>1, <1>5 DEF OfKind
    <2> HIDE DEF R
    <2> QED BY <1>2, <1>3, <1>5, <2>1 DEF Count, t
  <1> QED BY <1>4, <1>5

-----------------------------------------------------------------------------
(* An event of a kind without a port. *)
LEMMA PlainEvent ==
    ASSUME NEW kind \in {"Opened", "Closed", "Error"}
    PROVE  [kind |-> kind] \in Event /\ [kind |-> kind].kind = kind
  BY DEF Event

(* A row is a number at every point of the queue. *)
LEMMA ShownType ==
    ASSUME NEW f \in Forward, NEW k \in 0..Len(f.events)
    PROVE  Shown(f, k) \in Int /\ Shown(f, 0) = f.connections
  <1>1. f.events \in Seq(Event) /\ f.connections \in Nat
    BY DEF Forward
  <1>2. k \in Nat /\ 0 \in Nat
    BY <1>1
  <1>3. /\ Count(f.events, "Opened", k) \in Nat /\ Count(f.events, "Closed", k) \in Nat
        /\ Count(f.events, "Opened", 0) = 0 /\ Count(f.events, "Closed", 0) = 0
    BY <1>2, CountType
  <1> QED BY <1>1, <1>3 DEF Shown

(* What a forward that goes on as the same forward keeps. *)
SameForward(g, f) == g.state # "Gone" /\ g.feature = f.feature

(* A step that leaves count, queue and listener's truth alone. *)
LEMMA CountsKept ==
    ASSUME NEW f \in Forward, ForwardOK(f), NEW g \in Forward,
           g.events = f.events, g.connections = f.connections, g.open = f.open,
           g.state # "Gone", g.state = "Reconnecting" => g.probe # "none"
    PROVE  ForwardOK(g)
  <1>1. \A k : Shown(g, k) = Shown(f, k)
    BY DEF Shown
  <1> QED BY <1>1 DEF ForwardOK

(* No forward, and a new one, have nothing to count. *)
LEMMA StartedOK ==
    ASSUME NEW feature \in BOOLEAN, NEW cl \in 0..MaxClients,
           NEW asked \in Ports \union {0}
    PROVE  /\ Gone \in Forward /\ ForwardOK(Gone)
           /\ Started(feature, cl, asked) \in Forward
           /\ ForwardOK(Started(feature, cl, asked))
           /\ Started(feature, cl, asked).state = "Starting"
           /\ Started(feature, cl, asked).feature = feature
  <1> DEFINE f == Started(feature, cl, asked)
  <1>1. /\ Gone \in Forward /\ Gone.events = <<>> /\ Len(Gone.events) = 0
        /\ Gone.connections = 0 /\ Gone.open = 0 /\ Gone.state = "Gone"
    BY DEF Gone, Forward, States
  <1>2. /\ f \in Forward /\ f.events = <<>> /\ Len(f.events) = 0
        /\ f.connections = 0 /\ f.open = 0
        /\ f.state = "Starting" /\ f.feature = feature
    BY <1>1 DEF Started, Forward, States
  <1> HIDE DEF f
  <1>3. ASSUME NEW g \in Forward, Len(g.events) = 0, g.connections = 0
        PROVE  Shown(g, 0) = 0
    BY <1>3, ShownType
  <1>4. ForwardOK(Gone)
    BY <1>1, <1>3 DEF ForwardOK
  <1>5. ForwardOK(f)
    BY <1>2, <1>3 DEF ForwardOK
  <1> QED BY <1>1, <1>2, <1>4, <1>5 DEF f

(* A forward with a probe, an event or a socket exists. *)
LEMMA Alive ==
    ASSUME NEW f \in Forward, ForwardOK(f),
           f.probe # "none" \/ f.events # <<>> \/ f.listener # "ended"
    PROVE  f.state # "Gone"
  BY DEF ForwardOK, Gone

(* `finish_check`, with either result. *)
LEMMA CheckedOK ==
    ASSUME NEW f \in Forward, ForwardOK(f), f.state # "Gone"
    PROVE  /\ Checked(f) \in Forward /\ ForwardOK(Checked(f))
           /\ SameForward(Checked(f), f)
           /\ Unchecked(f) \in Forward /\ ForwardOK(Unchecked(f))
           /\ SameForward(Unchecked(f), f)
  <1>1. LET g == Checked(f)
        IN  /\ g \in Forward /\ SameForward(g, f) /\ g.events = f.events
            /\ g.connections = f.connections /\ g.open = f.open
            /\ g.state # "Reconnecting"
    BY DEF Checked, Forward, States, SameForward
  <1>2. LET g == Unchecked(f)
        IN  /\ g \in Forward /\ SameForward(g, f) /\ g.events = f.events
            /\ g.connections = f.connections /\ g.open = f.open
            /\ g.state = "Reconnecting" => g.probe # "none"
    <2>1. CASE f.state = "Failed"
      BY <2>1 DEF Unchecked, Forward, States, SameForward
    <2>2. CASE f.state # "Failed"
      BY <2>2 DEF Unchecked, Forward, States, SameForward
    <2> QED BY <2>1, <2>2
  <1> QED BY <1>1, <1>2, CountsKept DEF SameForward

(* The forward after its next event. *)
TakesEvent(f) == Applied([f EXCEPT !.events = Tail(@)], Head(f.events))

(* `apply_event`: the count moves with the event that leaves the queue.  An *)
(* event that closes finds the count above zero, or the first prefix of the *)
(* queue would have been below it.                                          *)
LEMMA AppliedOK ==
    ASSUME NEW f \in Forward, ForwardOK(f), f.events # <<>>,
           NEW g, g = TakesEvent(f)
    PROVE  g \in Forward /\ ForwardOK(g) /\ SameForward(g, f)
  <1> DEFINE e == Head(f.events)
             n == Len(f.events)
             x == [f EXCEPT !.events = Tail(f.events)]
  <1>1. /\ f.events \in Seq(Event) /\ e \in Event /\ n \in Nat /\ n > 0
        /\ Tail(f.events) \in Seq(Event) /\ Len(Tail(f.events)) = n - 1
        /\ f.connections \in Nat
    BY DEF Forward
  <1>2. f.state # "Gone"
    BY Alive
  <1>3. /\ x \in Forward /\ x.events = Tail(f.events) /\ x.state = f.state
        /\ x.connections = f.connections /\ x.open = f.open /\ x.probe = f.probe
        /\ x.feature = f.feature /\ x.state # "Gone"
    BY <1>1, <1>2 DEF Forward
  <1>4. g = Applied(x, e)
    BY DEF TakesEvent
  <1>5. Shown(f, 1) = f.connections + (IF e.kind = "Opened" THEN 1 ELSE 0)
                         - (IF e.kind = "Closed" THEN 1 ELSE 0)
    <2>1. 0 \in 0..(n - 1) /\ 0 + 1 = 1
      BY <1>1
    <2>2. \A kind : Count(Tail(f.events), kind, 0) = 0
      BY CountType
    <2>3. \A kind : Count(f.events, kind, 1) = IF e.kind = kind THEN 1 ELSE 0
      <3> TAKE kind
      <3>1. Count(f.events, kind, 0 + 1)
              = Count(Tail(f.events), kind, 0) + (IF Head(f.events).kind = kind THEN 1 ELSE 0)
        BY <1>1, <2>1, CountTail
      <3> QED BY <2>1, <2>2, <3>1
    <2>4. /\ Count(f.events, "Opened", 1) = IF e.kind = "Opened" THEN 1 ELSE 0
          /\ Count(f.events, "Closed", 1) = IF e.kind = "Closed" THEN 1 ELSE 0
      BY <2>3
    <2> QED BY <1>1, <2>4 DEF Shown
  <1>6. Shown(f, 1) >= 0 /\ (f.state = "Reconnecting" => f.probe # "none")
    BY <1>1 DEF ForwardOK
  <1> HIDE DEF x, e
  <1>7. /\ g \in Forward /\ SameForward(g, f)
        /\ g.events = Tail(f.events) /\ g.open = f.open
        /\ g.connections = f.connections + (IF e.kind = "Opened" THEN 1 ELSE 0)
                             - (IF e.kind = "Closed" THEN 1 ELSE 0)
        /\ g.state = "Reconnecting" => g.probe # "none"
    <2>1. CASE e.kind = "Listening"
      <3>1. e.port \in Ports
        BY <1>1, <2>1 DEF Event
      <3>2. g = [x EXCEPT !.port = e.port,
                          !.state = IF x.state = "Starting" THEN "Listening" ELSE x.state]
        BY <1>4, <2>1 DEF Applied
      <3>3. /\ g \in Forward /\ g.events = x.events /\ g.open = x.open
            /\ g.connections = x.connections /\ g.feature = x.feature
            /\ g.state # "Gone" /\ g.probe = x.probe
            /\ g.state = "Reconnecting" => x.state = "Reconnecting"
        BY <1>3, <3>1, <3>2 DEF Forward, States
      <3> QED BY <1>1, <1>3, <1>6, <2>1, <3>3 DEF SameForward
    <2>2. CASE e.kind = "Opened"
      <3>1. g = [x EXCEPT !.connections = x.connections + 1,
                          !.state = IF x.state = "Reconnecting" THEN "Listening"
                                    ELSE x.state,
                          !.probe = IF x.state = "Reconnecting" THEN "none" ELSE x.probe]
        BY <1>4, <2>2 DEF Applied
      <3>2. /\ g \in Forward /\ g.events = x.events /\ g.open = x.open
            /\ g.connections = x.connections + 1 /\ g.feature = x.feature
            /\ g.state # "Gone" /\ g.state # "Reconnecting"
        <4>1. x.connections + 1 \in Nat
          BY <1>1, <1>3
        <4> QED BY <1>3, <3>1, <4>1 DEF Forward, States
      <3> QED BY <1>1, <1>3, <2>2, <3>2 DEF SameForward
    <2>3. CASE e.kind = "Closed"
      <3>1. g = [x EXCEPT !.connections = IF x.connections > 0 THEN x.connections - 1
                                          ELSE 0]
        BY <1>4, <2>3 DEF Applied
      <3>2. f.connections > 0
        BY <1>1, <1>5, <1>6, <2>3
      <3>3. /\ g \in Forward /\ g.events = x.events /\ g.open = x.open
            /\ g.connections = x.connections - 1 /\ g.feature = x.feature
            /\ g.state = x.state /\ g.probe = x.probe
        <4>1. x.connections - 1 \in Nat /\ x.connections > 0
          BY <1>1, <1>3, <3>2
        <4>2. g = [x EXCEPT !.connections = x.connections - 1]
          BY <3>1, <4>1
        <4> QED BY <1>3, <4>1, <4>2 DEF Forward
      <3> QED BY <1>1, <1>3, <1>6, <2>3, <3>3 DEF SameForward
    <2>4. CASE e.kind = "Error"
      <3>1. g = Errored(x)
        BY <1>4, <2>4 DEF Applied
      <3>2. CASE x.state = "Failed"
        BY <1>1, <1>3, <2>4, <3>1, <3>2 DEF Errored, SameForward
      <3>3. CASE x.state # "Failed"
        <4>1. g = [x EXCEPT !.state = "Reconnecting",
                            !.probe = IF x.probe = "none" THEN "check" ELSE x.probe]
          BY <3>1, <3>3 DEF Errored
        <4>2. /\ g \in Forward /\ g.events = x.events /\ g.open = x.open
              /\ g.connections = x.connections /\ g.feature = x.feature
              /\ g.state # "Gone" /\ g.probe # "none"
          BY <1>3, <4>1 DEF Forward, States
        <4> QED BY <1>1, <1>3, <2>4, <4>2 DEF SameForward
      <3> QED BY <3>2, <3>3
    <2> QED BY <1>1, <2>1, <2>2, <2>3, <2>4 DEF Event
  <1>8. ASSUME NEW k \in 0..(n - 1) PROVE Shown(g, k) = Shown(f, k + 1)
    <2>1. \A kind : Count(f.events, kind, k + 1)
                       = Count(Tail(f.events), kind, k) + (IF e.kind = kind THEN 1 ELSE 0)
      BY <1>1, CountTail DEF e
    <2>2. \A kind : Count(Tail(f.events), kind, k) \in Nat
      BY <1>1, CountType
    <2>3. /\ Count(f.events, "Opened", k + 1) = Count(Tail(f.events), "Opened", k)
                                              + (IF e.kind = "Opened" THEN 1 ELSE 0)
          /\ Count(f.events, "Closed", k + 1) = Count(Tail(f.events), "Closed", k)
                                              + (IF e.kind = "Closed" THEN 1 ELSE 0)
          /\ Count(Tail(f.events), "Opened", k) \in Nat
          /\ Count(Tail(f.events), "Closed", k) \in Nat
      BY <2>1, <2>2
    <2>4. Shown(g, k) = g.connections + Count(Tail(f.events), "Opened", k)
                          - Count(Tail(f.events), "Closed", k)
      BY <1>7 DEF Shown
    <2>5. Shown(f, k + 1) = f.connections + Count(f.events, "Opened", k + 1)
                              - Count(f.events, "Closed", k + 1)
      BY DEF Shown
    <2> DEFINE o == Count(Tail(f.events), "Opened", k)
               c == Count(Tail(f.events), "Closed", k)
               up == IF e.kind = "Opened" THEN 1 ELSE 0
               down == IF e.kind = "Closed" THEN 1 ELSE 0
    <2>6. /\ o \in Nat /\ c \in Nat /\ up \in Nat /\ down \in Nat
          /\ g.connections = f.connections + up - down
          /\ Shown(g, k) = g.connections + o - c
          /\ Shown(f, k + 1) = f.connections + (o + up) - (c + down)
      BY <1>7, <2>3, <2>4, <2>5
    <2>7. f.connections \in Nat
      BY <1>1
    <2> HIDE DEF o, c, up, down
    <2>8. \A p, q, i, j, l \in Nat : ((p + i) - j) + q - l = p + (q + i) - (l + j)
      OBVIOUS
    <2> QED BY <2>6, <2>7, <2>8
  <1>9. Len(g.events) = n - 1
    BY <1>1, <1>7
  <1>10. \A k \in 0..n : Shown(f, k) >= 0
    BY DEF ForwardOK
  <1>11. \A k \in 0..(n - 1) : Shown(g, k) >= 0
    <2> TAKE k \in 0..(n - 1)
    <2>1. k + 1 \in 0..n
      BY <1>1
    <2> QED BY <1>8, <1>10, <2>1
  <1>12. Shown(g, n - 1) = g.open
    <2>1. n - 1 \in 0..(n - 1) /\ (n - 1) + 1 = n
      BY <1>1
    <2>2. Shown(f, n) = f.open
      BY DEF ForwardOK
    <2> QED BY <1>7, <1>8, <2>1, <2>2
  <1> QED BY <1>7, <1>9, <1>11, <1>12 DEF ForwardOK, SameForward

(* The queue s with one more event. *)
Posted(t, s, e) == t = Append(s, e)

(* The listener posts one event and moves its own count with it. *)
LEMMA PostedOK ==
    ASSUME NEW f \in Forward, ForwardOK(f), f.state # "Gone", NEW e \in Event,
           NEW g \in Forward, Posted(g.events, f.events, e),
           g.connections = f.connections, g.state = f.state, g.probe = f.probe,
           g.feature = f.feature,
           g.open = f.open + (IF e.kind = "Opened" THEN 1 ELSE 0)
                      - (IF e.kind = "Closed" THEN 1 ELSE 0)
    PROVE  ForwardOK(g) /\ SameForward(g, f)
  <1> DEFINE n == Len(f.events)
  <1>1. /\ f.events \in Seq(Event) /\ n \in Nat /\ Len(g.events) = n + 1
        /\ f.connections \in Nat /\ f.open \in Nat /\ g.open \in Nat
    BY DEF Forward, Posted
  <1>2. g.events[n + 1] = e /\ \A i \in 1..n : g.events[i] = f.events[i]
    BY <1>1 DEF Posted
  <1> HIDE DEF n
  <1>3. ASSUME NEW kind
        PROVE  /\ \A k \in 0..n : Count(g.events, kind, k) = Count(f.events, kind, k)
               /\ Count(g.events, kind, n + 1)
                    = Count(f.events, kind, n) + (IF e.kind = kind THEN 1 ELSE 0)
               /\ Count(f.events, kind, n) \in Nat
    <2> DEFINE s == f.events
               t == g.events
    <2>1. n \in Nat /\ t[n + 1] = e /\ SameStart(s, t, n)
      BY <1>1, <1>2 DEF SameStart
    <2> HIDE DEF s, t
    <2>2. /\ \A k \in 0..n : Count(t, kind, k) = Count(s, kind, k)
          /\ Count(t, kind, n + 1)
               = Count(s, kind, n) + (IF t[n + 1].kind = kind THEN 1 ELSE 0)
      BY <2>1, CountAppend
    <2>3. Count(s, kind, n) \in Nat
      BY <2>1, CountType
    <2> QED BY <2>1, <2>2, <2>3 DEF s, t
  <1>4. Shown(g, n + 1) = g.open /\ \A k \in 0..n : Shown(g, k) = Shown(f, k)
    <2>1. Shown(f, n) = f.open
      BY DEF ForwardOK, n
    <2>2. \A k \in 0..n : /\ Count(g.events, "Opened", k) = Count(f.events, "Opened", k)
                          /\ Count(g.events, "Closed", k) = Count(f.events, "Closed", k)
      BY <1>3
    <2>3. /\ Count(g.events, "Opened", n + 1)
               = Count(f.events, "Opened", n) + (IF e.kind = "Opened" THEN 1 ELSE 0)
          /\ Count(g.events, "Closed", n + 1)
               = Count(f.events, "Closed", n) + (IF e.kind = "Closed" THEN 1 ELSE 0)
          /\ Count(f.events, "Opened", n) \in Nat /\ Count(f.events, "Closed", n) \in Nat
      BY <1>3
    <2> QED BY <1>1, <2>1, <2>2, <2>3 DEF Shown
  <1>5. \A k \in 0..(n + 1) : Shown(g, k) >= 0
    BY <1>1, <1>4 DEF ForwardOK, n
  <1> QED BY <1>1, <1>4, <1>5 DEF ForwardOK, SameForward

-----------------------------------------------------------------------------
(* Forwards are removed: whoever waited is refused, nobody who holds one of *)
(* the others notices.                                                      *)
LEMMA RemoveInv ==
    ASSUME IInv, NEW S \in SUBSET Ids, Remove(S),
           commands' \in Seq(Command), client' \in 0..MaxClients,
           \A id \in Ids : Stopping(id) => id \in S \/ Stopping(id)',
           UNCHANGED <<nextId, lateDrops, clients>>
    PROVE  IInv'
  <1>1. /\ TypeOK /\ IdsInv /\ HeldIsWatched /\ WantedInv
        /\ \A id \in Ids : forwards[id] \in Forward /\ ForwardOK(forwards[id])
    BY DEF IInv, TypeOK
  <1>2. Gone \in Forward /\ ForwardOK(Gone) /\ Gone.state = "Gone"
    BY StartedOK DEF Gone
  <1>3. /\ forwards' \in [Ids -> Forward]
        /\ \A id \in Ids : forwards'[id] = IF id \in S THEN Gone ELSE forwards[id]
    BY <1>1, <1>2 DEF Remove
  <1>4. /\ waiting' \in [Ids -> Wait \union {None}]
        /\ \A id \in Ids \ S : waiting'[id] = waiting[id]
    BY <1>1 DEF Remove, TypeOK
  <1>5. \A q \in Requests : /\ requests'[q] \in Request
                           /\ requests'[q].forward = requests[q].forward
                           /\ \/ requests'[q] = requests[q]
                              \/ /\ requests[q].phase = "sent"
                                 /\ requests'[q].phase = "failed"
    <2> TAKE q \in Requests
    <2>1. requests'[q] \in {requests[q], Refused(q)[q]} /\ requests[q] \in Request
      BY <1>1 DEF Remove, TypeOK
    <2>2. CASE requests'[q] = requests[q]
      BY <2>1, <2>2
    <2>3. CASE requests'[q] # requests[q]
      <3>1. /\ requests'[q] = [requests[q] EXCEPT !.phase = "failed"]
            /\ requests[q].phase = "sent"
        BY <1>1, <2>1, <2>3 DEF Refused, Awaits, TypeOK
      <3> QED BY <2>1, <3>1 DEF Request, Phases
    <2> QED BY <2>2, <2>3
  <1>6. requests' \in [Requests -> Request] /\ watchers' = watchers \ S
    BY <1>5 DEF Remove
  <1>7. TypeOK'
    BY <1>1, <1>3, <1>4, <1>6 DEF TypeOK
  <1>8. \A id \in Ids : ForwardOK(forwards'[id])
    BY <1>1, <1>2, <1>3
  <1>9. \A id \in Ids : Exists(id)' <=> Exists(id) /\ id \notin S
    BY <1>2, <1>3 DEF Exists
  <1>10. IdsInv'
    BY <1>1, <1>5, <1>9 DEF IdsInv
  <1>11. \A q \in Requests : requests'[q].phase \in {"answered", "holding"} =>
                              requests'[q] = requests[q] /\ requests[q].forward \in Ids
    BY <1>1, <1>5 DEF IdsInv, TypeOK, Request
  <1>12. HeldIsWatched'
    BY <1>1, <1>6, <1>9, <1>11 DEF HeldIsWatched, TypeOK
  <1>13. \A id \in Ids : Held(id) => Held(id)'
    BY <1>5 DEF Held
  <1>14. WantedInv'
    BY <1>1, <1>3, <1>4, <1>9, <1>13 DEF WantedInv, Wanted
  <1> QED BY <1>7, <1>8, <1>10, <1>12, <1>14 DEF IInv

(* A forward goes on as the same forward, and who waited for it still does. *)
LEMMA KeepInv ==
    ASSUME IInv, NEW id \in Ids, Exists(id), NEW f \in Forward, ForwardOK(f),
           SameForward(f, forwards[id]), forwards' = [forwards EXCEPT ![id] = f],
           waiting' \in [Ids -> Wait \union {None}],
           \A i \in Ids : waiting[i] # None => waiting'[i] # None,
           UNCHANGED <<watchers, requests, nextId, commands, lateDrops, client, clients>>
    PROVE  IInv'
  <1>1. /\ TypeOK /\ IdsInv /\ HeldIsWatched /\ WantedInv
        /\ \A i \in Ids : forwards[i] \in Forward /\ ForwardOK(forwards[i])
    BY DEF IInv, TypeOK
  <1>2. /\ forwards' \in [Ids -> Forward]
        /\ \A i \in Ids : forwards'[i] = IF i = id THEN f ELSE forwards[i]
    BY <1>1 DEF TypeOK
  <1>3. TypeOK'
    BY <1>1, <1>2 DEF TypeOK
  <1>4. \A i \in Ids : ForwardOK(forwards'[i])
    BY <1>1, <1>2
  <1>5. \A i \in Ids : /\ Exists(i)' <=> Exists(i)
                      /\ forwards'[i].feature = forwards[i].feature
    BY <1>2 DEF Exists, SameForward
  <1>6. IdsInv'
    BY <1>1, <1>5 DEF IdsInv
  <1>7. HeldIsWatched'
    BY <1>1, <1>5 DEF HeldIsWatched, IdsInv, TypeOK, Request
  <1>8. WantedInv'
    BY <1>1, <1>5 DEF WantedInv, Wanted, Held, Stopping
  <1> QED BY <1>3, <1>4, <1>6, <1>7, <1>8 DEF IInv

(* A forward that listens is handed to the request that waits for it. *)
LEMMA ListensInv ==
    ASSUME IInv, NEW id \in Ids, Exists(id), NEW f \in Forward, ForwardOK(f),
           SameForward(f, forwards[id]), waiting[id] # None, ListensFor(id, f),
           UNCHANGED <<nextId, commands, lateDrops, client, clients>>
    PROVE  IInv'
  <1> DEFINE r == waiting[id].request
             q == [requests[r] EXCEPT !.phase = "answered", !.forward = id,
                                      !.port = f.port]
  <1>1. /\ TypeOK /\ IdsInv /\ HeldIsWatched /\ WantedInv
        /\ \A i \in Ids : forwards[i] \in Forward /\ ForwardOK(forwards[i])
    BY DEF IInv, TypeOK
  <1>2. r \in Requests /\ requests[r] \in Request
    BY <1>1 DEF TypeOK, Wait
  <1>3. CASE ~Awaits(r)
    <2>1. Remove({id})
      BY <1>3 DEF ListensFor
    <2> QED BY <1>1, <2>1, RemoveInv DEF TypeOK, Stopping
  <1>4. CASE Awaits(r)
    <2>1. /\ waiting' = [waiting EXCEPT ![id] = None]
          /\ forwards' = [forwards EXCEPT ![id] = f]
          /\ watchers' = watchers \union {id}
          /\ requests' = [requests EXCEPT ![r] = q]
      BY <1>1, <1>2, <1>4 DEF ListensFor, TypeOK
    <2>2. /\ q \in Request /\ q.forward = id /\ q.phase = "answered"
          /\ requests[r].phase = "sent"
      BY <1>2, <1>4 DEF Request, Phases, Forward, Awaits
    <2> HIDE DEF q, r
    <2>3. /\ forwards' \in [Ids -> Forward]
          /\ \A i \in Ids : forwards'[i] = IF i = id THEN f ELSE forwards[i]
      BY <1>1, <2>1 DEF TypeOK
    <2>4. /\ requests' \in [Requests -> Request]
          /\ \A p \in Requests : requests'[p] = IF p = r THEN q ELSE requests[p]
      BY <1>1, <1>2, <2>1, <2>2 DEF TypeOK
    <2>5. /\ waiting' \in [Ids -> Wait \union {None}]
          /\ \A i \in Ids : i # id => waiting'[i] = waiting[i]
      BY <1>1, <2>1 DEF TypeOK
    <2>6. TypeOK'
      BY <1>1, <2>1, <2>3, <2>4, <2>5 DEF TypeOK
    <2>7. \A i \in Ids : ForwardOK(forwards'[i])
      BY <1>1, <2>3
    <2>8. \A i \in Ids : /\ Exists(i)' <=> Exists(i)
                        /\ forwards'[i].feature = forwards[i].feature
      BY <2>3 DEF Exists, SameForward
    <2>9. id < nextId /\ id # None
      BY <1>1 DEF IdsInv, TypeOK, Ids
    <2>10. IdsInv'
      BY <1>1, <1>2, <2>2, <2>4, <2>8, <2>9 DEF IdsInv
    <2>11. HeldIsWatched'
      <3>1. \A i \in watchers' : Exists(i)'
        BY <1>1, <2>1, <2>8 DEF HeldIsWatched, TypeOK
      <3>2. ASSUME NEW p \in Requests, requests'[p].phase \in {"answered", "holding"}
            PROVE  Exists(requests[p].forward)' <=> requests'[p].forward \in watchers'
        <4>1. requests'[p].forward \in Ids
          BY <2>2, <2>4, <2>10, <3>2 DEF IdsInv, Request
        <4>2. CASE requests'[p].forward = id
          BY <2>1, <2>8, <4>2 DEF Exists
        <4>3. CASE requests'[p].forward # id
          <5>1. requests'[p] = requests[p]
            BY <2>2, <2>4, <4>3
          <5> QED BY <1>1, <2>1, <2>8, <3>2, <4>1, <4>3, <5>1 DEF HeldIsWatched, Exists
        <4> QED BY <4>2, <4>3
      <3> QED BY <3>1, <3>2 DEF HeldIsWatched
    <2>12. WantedInv'
      <3>1. Held(id)'
        BY <1>2, <2>2, <2>4 DEF Held
      <3>2. \A i \in Ids : Held(i) => Held(i)'
        BY <2>2, <2>4 DEF Held
      <3>3. \A i \in Ids : i # id /\ Wanted(i) => Wanted(i)'
        BY <2>5, <3>2 DEF Wanted, Stopping
      <3> QED BY <1>1, <2>8, <3>1, <3>3 DEF WantedInv, Wanted
    <2> QED BY <2>6, <2>7, <2>10, <2>11, <2>12 DEF IInv
  <1> QED BY <1>3, <1>4

(* `settle`, whatever forward id has become. *)
LEMMA SettleInv ==
    ASSUME IInv, NEW id \in Ids, Exists(id), NEW f \in Forward, ForwardOK(f),
           SameForward(f, forwards[id]), Settle(id, f),
           UNCHANGED <<nextId, commands, lateDrops, client, clients>>
    PROVE  IInv'
  <1>1. TypeOK /\ waiting[id] \in Wait \union {None}
    BY DEF IInv, TypeOK
  <1>2. CASE waiting[id] = None
    BY <1>1, <1>2, KeepInv DEF Settle, TypeOK
  <1>3. CASE waiting[id] # None /\ Listens(f)
    <2>1. ListensFor(id, f)
      BY <1>3 DEF Settle, Listens, Hopeless
    <2> QED BY <1>3, <2>1, ListensInv
  <1>4. CASE waiting[id] # None /\ ~Listens(f) /\ Hopeless(f)
    <2>1. Remove({id})
      BY <1>4 DEF Settle
    <2> QED BY <1>1, <2>1, RemoveInv DEF TypeOK, Stopping
  <1>5. CASE waiting[id] # None /\ ~Listens(f) /\ ~Hopeless(f)
    <2>1. /\ forwards' = [forwards EXCEPT ![id] = f] /\ UNCHANGED <<watchers, requests>>
          /\ \/ waiting' = waiting
             \/ waiting' = [waiting EXCEPT ![id] = [waiting[id] EXCEPT !.grace = "running"]]
      BY <1>5 DEF Settle
    <2>2. [waiting[id] EXCEPT !.grace = "running"] \in Wait
      BY <1>1, <1>5 DEF Wait
    <2>3. /\ waiting' \in [Ids -> Wait \union {None}]
          /\ \A i \in Ids : waiting[i] # None => waiting'[i] # None
      BY <1>1, <2>1, <2>2 DEF TypeOK
    <2> QED BY <2>1, <2>3, KeepInv
  <1> QED BY <1>2, <1>3, <1>4, <1>5

-----------------------------------------------------------------------------
(* The host takes the first command: only a "Stop" may be lost with it. *)
LEMMA CommandTaken ==
    ASSUME TypeOK, commands # <<>>, commands' = Tail(commands)
    PROVE  /\ commands' \in Seq(Command) /\ Head(commands) \in Command
           /\ \A id : Stopping(id) =>
                \/ Stopping(id)'
                \/ Head(commands).kind = "Stop" /\ Head(commands).id = id
  <1>1. /\ commands \in Seq(Command) /\ Len(commands) \in Nat /\ Len(commands) > 0
        /\ commands' \in Seq(Command) /\ Len(commands') = Len(commands) - 1
        /\ Head(commands) = commands[1] /\ Head(commands) \in Command
        /\ \A i \in 1..(Len(commands) - 1) : commands'[i] = commands[i + 1]
    BY DEF TypeOK
  <1>2. ASSUME NEW id, NEW i \in DOMAIN commands,
               commands[i].kind = "Stop", commands[i].id = id
        PROVE  Stopping(id)' \/ i = 1
    <2>1. CASE i # 1
      <3>1. i \in 1..Len(commands)
        BY <1>1
      <3>2. /\ i - 1 \in 1..(Len(commands) - 1) /\ (i - 1) + 1 = i
            /\ DOMAIN commands' = 1..(Len(commands) - 1)
        BY <1>1, <2>1, <3>1
      <3>3. commands'[i - 1] = commands[i]
        BY <1>1, <3>2
      <3> QED BY <1>2, <3>2, <3>3 DEF Stopping
    <2> QED BY <2>1
  <1> QED BY <1>1, <1>2 DEF Stopping

(* A feature sends a command: those before it stay in the queue. *)
LEMMA CommandSent ==
    ASSUME TypeOK, NEW c \in Command, commands' = Append(commands, c)
    PROVE  /\ commands' \in Seq(Command)
           /\ \A id : Stopping(id) => Stopping(id)'
           /\ c.kind = "Stop" => Stopping(c.id)'
  <1>1. /\ commands \in Seq(Command) /\ Len(commands) \in Nat
        /\ commands' \in Seq(Command) /\ DOMAIN commands' = 1..(Len(commands) + 1)
        /\ DOMAIN commands = 1..Len(commands)
        /\ commands'[Len(commands) + 1] = c
        /\ \A i \in 1..Len(commands) : commands'[i] = commands[i]
    BY DEF TypeOK
  <1>2. \A id : Stopping(id) => Stopping(id)'
    BY <1>1 DEF Stopping
  <1>3. c.kind = "Stop" => Stopping(c.id)'
    BY <1>1 DEF Stopping
  <1> QED BY <1>1, <1>2, <1>3

(* A new forward gets an id nobody has heard of; one for a feature is       *)
(* waited for.                                                              *)
LEMMA StartInv ==
    ASSUME IInv, nextId \in Ids, NEW f \in Forward, ForwardOK(f), f.state # "Gone",
           forwards' = [forwards EXCEPT ![nextId] = f], nextId' = nextId + 1,
           waiting' \in [Ids -> Wait \union {None}],
           \A i \in Ids : waiting[i] # None => waiting'[i] # None,
           f.feature => waiting'[nextId] # None,
           commands' \in Seq(Command), \A i \in Ids : Stopping(i) => Stopping(i)',
           UNCHANGED <<watchers, requests, lateDrops, client, clients>>
    PROVE  IInv'
  <1>1. /\ TypeOK /\ IdsInv /\ HeldIsWatched /\ WantedInv
        /\ \A i \in Ids : forwards[i] \in Forward /\ ForwardOK(forwards[i])
    BY DEF IInv, TypeOK
  <1>2. /\ forwards' \in [Ids -> Forward]
        /\ \A i \in Ids : forwards'[i] = IF i = nextId THEN f ELSE forwards[i]
    BY <1>1 DEF TypeOK
  <1>3. nextId' \in 0..MaxForwards /\ nextId \in Nat
    BY DEF Ids
  <1>4. TypeOK'
    BY <1>1, <1>2, <1>3 DEF TypeOK
  <1>5. \A i \in Ids : ForwardOK(forwards'[i])
    BY <1>1, <1>2
  <1>6. \A i \in Ids : Exists(i)' <=> Exists(i) \/ i = nextId
    BY <1>2 DEF Exists
  <1>7. \A r \in Requests : /\ requests'[r] = requests[r]
                            /\ requests[r].forward \in Ids \union {None}
    BY <1>1 DEF TypeOK, Request
  <1>8. IdsInv'
    <2>1. \A i \in Ids : i >= nextId' => ~Exists(i)'
      BY <1>1, <1>3, <1>6 DEF IdsInv, Ids
    <2>2. \A r \in Requests : requests[r].forward # None => requests[r].forward < nextId'
      BY <1>1, <1>3, <1>7 DEF IdsInv, Ids
    <2> QED BY <1>1, <1>7, <2>1, <2>2 DEF IdsInv
  <1>9. HeldIsWatched'
    <2>1. \A i \in watchers' : Exists(i)'
      BY <1>1, <1>6 DEF HeldIsWatched, TypeOK
    <2>2. ASSUME NEW r \in Requests, requests[r].phase \in {"answered", "holding"}
          PROVE  Exists(requests[r].forward)' <=> requests[r].forward \in watchers
      <3>1. /\ requests[r].forward \in Ids /\ requests[r].forward # nextId
            /\ Exists(requests[r].forward) <=> requests[r].forward \in watchers
        BY <1>1, <1>3, <1>7, <2>2 DEF IdsInv, HeldIsWatched, Ids
      <3> QED BY <1>2, <1>7, <3>1 DEF Exists
    <2> QED BY <1>7, <2>1, <2>2 DEF HeldIsWatched
  <1>10. WantedInv'
    <2>1. \A i \in Ids : Held(i) => Held(i)'
      BY DEF Held
    <2>2. \A i \in Ids : Wanted(i) => Wanted(i)'
      BY <2>1 DEF Wanted
    <2> QED BY <1>1, <1>2, <1>6, <2>2 DEF WantedInv, Wanted
  <1> QED BY <1>4, <1>5, <1>8, <1>9, <1>10 DEF IInv

(* A feature's own step: it never takes a forward it was not given, and one *)
(* that lets go of its forward has sent the command that stops it, unless   *)
(* it dropped the answer unread.                                            *)
LEMMA FeatureInv ==
    ASSUME IInv, NEW r \in Requests, NEW q \in Request, Feature(r, q),
           q.forward = requests[r].forward,
           q.phase \in {"answered", "holding"} =>
               requests[r].phase \in {"answered", "holding"},
           commands' \in Seq(Command), \A i \in Ids : Stopping(i) => Stopping(i)',
           lateDrops' \in 0..MaxLateDrops, lateDrops' = 0 => lateDrops = 0,
           lateDrops' = 0 /\ requests[r].phase \in {"answered", "holding"} =>
               q.phase \in {"answered", "holding"} \/ Stopping(q.forward)'
    PROVE  IInv'
  <1>1. /\ TypeOK /\ IdsInv /\ HeldIsWatched /\ WantedInv
        /\ \A i \in Ids : ForwardOK(forwards[i])
    BY DEF IInv
  <1>2. /\ requests' \in [Requests -> Request]
        /\ \A p \in Requests : requests'[p] = IF p = r THEN q ELSE requests[p]
        /\ UNCHANGED <<forwards, waiting, watchers, nextId, client, clients>>
    BY <1>1 DEF TypeOK, Feature, clusterVars
  <1>3. TypeOK' /\ \A i \in Ids : ForwardOK(forwards'[i])
    BY <1>1, <1>2 DEF TypeOK
  <1>4. \A p \in Requests :
          /\ requests'[p].forward = requests[p].forward
          /\ requests'[p].phase \in {"answered", "holding"} =>
                requests[p].phase \in {"answered", "holding"}
    BY <1>2
  <1>5. IdsInv'
    BY <1>1, <1>2, <1>4 DEF IdsInv, Exists
  <1>6. HeldIsWatched'
    BY <1>1, <1>2, <1>4 DEF HeldIsWatched, Exists
  <1>7. WantedInv'
    <2> SUFFICES ASSUME lateDrops' = 0, NEW i \in Ids, Wanted(i)
                 PROVE  Wanted(i)'
      BY <1>1, <1>2 DEF WantedInv, Exists
    <2>1. CASE waiting[i] # None
      BY <1>2, <2>1 DEF Wanted
    <2>2. CASE Stopping(i)
      BY <2>2 DEF Wanted
    <2>3. CASE Held(i)
      <3>1. PICK p \in Requests : /\ requests[p].forward = i
                                  /\ requests[p].phase \in {"answered", "holding"}
        BY <2>3 DEF Held
      <3>2. CASE p = r /\ q.phase \notin {"answered", "holding"}
        BY <3>1, <3>2 DEF Wanted
      <3>3. CASE ~(p = r /\ q.phase \notin {"answered", "holding"})
        <4>1. Held(i)'
          BY <1>2, <1>4, <3>1, <3>3 DEF Held
        <4> QED BY <4>1 DEF Wanted
      <3> QED BY <3>2, <3>3
    <2> QED BY <2>1, <2>2, <2>3 DEF Wanted
  <1> QED BY <1>3, <1>5, <1>6, <1>7 DEF IInv

-----------------------------------------------------------------------------
(* Each action keeps the invariant: first the calls and timers of the core. *)
LEMMA HostInv ==
    ASSUME IInv
    PROVE  /\ \A asked \in Ports \union {0} : Start(asked) => IInv'
           /\ HandleOpen => IInv'
           /\ HandleStop => IInv'
           /\ ClusterLost => IInv'
           /\ ClusterConnects => IInv'
  <1>1. TypeOK
    BY DEF IInv
  <1>2. ASSUME NEW asked \in Ports \union {0}, Start(asked) PROVE IInv'
    <2> DEFINE f == Started(FALSE, client, asked)
    <2>1. f \in Forward /\ ForwardOK(f) /\ f.state # "Gone" /\ ~f.feature
      BY <1>1, StartedOK DEF TypeOK
    <2>2. /\ nextId \in Ids /\ forwards' = [forwards EXCEPT ![nextId] = f]
          /\ nextId' = nextId + 1
          /\ UNCHANGED <<waiting, watchers, requests, commands, lateDrops, client, clients>>
      BY <1>2 DEF Start, clusterVars
    <2> HIDE DEF f
    <2> QED BY <1>1, <2>1, <2>2, StartInv DEF TypeOK, Stopping
  <1>3. ASSUME HandleOpen PROVE IInv'
    <2> DEFINE c == Head(commands)
               f == Started(TRUE, requests[c.request].client, 0)
               w == [request |-> c.request,
                     grace |-> IF c.grace THEN "unused" ELSE "none"]
    <2>1. /\ commands # <<>> /\ c.kind = "Open" /\ nextId \in Ids
          /\ forwards' = [forwards EXCEPT ![nextId] = f]
          /\ waiting' = [waiting EXCEPT ![nextId] = w]
          /\ nextId' = nextId + 1 /\ commands' = Tail(commands)
          /\ UNCHANGED <<watchers, requests, lateDrops, client, clients>>
      BY <1>3 DEF HandleOpen, clusterVars
    <2>2. /\ commands' \in Seq(Command) /\ c \in Command
          /\ \A i \in Ids : Stopping(i) => Stopping(i)'
      BY <1>1, <2>1, CommandTaken
    <2>3. c.request \in Requests /\ c.grace \in BOOLEAN
      BY <2>1, <2>2 DEF Command
    <2>4. requests[c.request].client \in 0..MaxClients
      BY <1>1, <2>3 DEF TypeOK, Request
    <2>5. f \in Forward /\ ForwardOK(f) /\ f.state # "Gone"
      BY <2>4, StartedOK
    <2>6. w \in Wait
      BY <2>3 DEF Wait
    <2> HIDE DEF f, w, c
    <2>7. /\ waiting' \in [Ids -> Wait \union {None}] /\ waiting'[nextId] # None
          /\ \A i \in Ids : waiting[i] # None => waiting'[i] # None
      BY <1>1, <2>1, <2>6 DEF TypeOK
    <2> QED BY <2>1, <2>2, <2>5, <2>7, StartInv
  <1>4. ASSUME HandleStop PROVE IInv'
    <2>1. /\ commands # <<>> /\ Head(commands).kind = "Stop"
          /\ Remove({Head(commands).id}) /\ commands' = Tail(commands)
          /\ UNCHANGED <<nextId, lateDrops, client, clients>>
      BY <1>4 DEF HandleStop, clusterVars
    <2>2. /\ commands' \in Seq(Command) /\ Head(commands) \in Command
          /\ \A i \in Ids : Stopping(i) => i \in {Head(commands).id} \/ Stopping(i)'
      BY <1>1, <2>1, CommandTaken
    <2>3. {Head(commands).id} \in SUBSET Ids
      BY <2>1, <2>2 DEF Command
    <2>4. client' \in 0..MaxClients
      BY <1>1, <2>1 DEF TypeOK
    <2> QED BY <2>1, <2>2, <2>3, <2>4, RemoveInv
  <1>5. ASSUME ClusterLost PROVE IInv'
    <2> DEFINE S == {id \in Ids : Exists(id)}
    <2>1. /\ S \in SUBSET Ids /\ Remove(S) /\ client' = 0
          /\ UNCHANGED <<nextId, commands, clients, lateDrops>>
      BY <1>5 DEF ClusterLost
    <2> HIDE DEF S
    <2> QED BY <1>1, <2>1, RemoveInv DEF TypeOK, Stopping
  <1>6. ASSUME ClusterConnects PROVE IInv'
    BY <1>6 DEF ClusterConnects, IInv, TypeOK, IdsInv, HeldIsWatched, WantedInv, Exists,
       Wanted, Held, Stopping
  <1> QED BY <1>2, <1>3, <1>4, <1>5, <1>6

(* Then the steps of one forward in the core. *)
LEMMA CoreInv ==
    ASSUME IInv, NEW id \in Ids, Core(id)
    PROVE  IInv'
  <1> DEFINE f == forwards[id]
  <1>1. TypeOK /\ f \in Forward /\ ForwardOK(f)
    BY DEF IInv, TypeOK
  <1>2. /\ UNCHANGED <<nextId, commands, lateDrops, client, clients>>
        /\ commands' \in Seq(Command) /\ client' \in 0..MaxClients
        /\ \A i \in Ids : Stopping(i) => Stopping(i)'
    <2>1. UNCHANGED <<nextId, commands, lateDrops, client, clients>>
      BY DEF Core, Stop, Expire, GraceEnds, CheckSucceeds, CheckFails, ProbeFires,
         ApplyEvent, clusterVars
    <2> QED BY <1>1, <2>1 DEF TypeOK, Stopping
  <1>3. ASSUME Remove({id}) PROVE IInv'
    BY <1>2, <1>3, RemoveInv
  <1>4. CASE Stop(id) \/ Expire(id)
    BY <1>3, <1>4 DEF Stop, Expire
  <1>5. CASE GraceEnds(id)
    <2>1. CASE f.state = "Reconnecting"
      BY <1>3, <1>5, <2>1 DEF GraceEnds
    <2>2. CASE f.state # "Reconnecting"
      <3> DEFINE w == [waiting[id] EXCEPT !.grace = "none"]
      <3>1. /\ waiting[id] # None /\ waiting' = [waiting EXCEPT ![id] = w]
            /\ UNCHANGED <<forwards, watchers, requests>>
        BY <1>5, <2>2 DEF GraceEnds
      <3>2. w \in Wait
        BY <1>1, <3>1 DEF TypeOK, Wait
      <3> HIDE DEF w
      <3>3. /\ waiting' \in [Ids -> Wait \union {None}]
            /\ \A i \in Ids : waiting[i] # None => waiting'[i] # None
        BY <1>1, <3>1, <3>2 DEF TypeOK
      <3> QED BY <1>1, <1>2, <3>1, <3>3 DEF IInv, TypeOK, IdsInv, HeldIsWatched, WantedInv,
              Exists, Wanted, Held, Stopping
    <2> QED BY <2>1, <2>2
  <1>6. CASE CheckSucceeds(id) \/ CheckFails(id)
    <2>1. f.state # "Gone" /\ Exists(id)
      BY <1>1, <1>6, Alive DEF CheckSucceeds, CheckFails, Exists
    <2>2. ASSUME NEW g \in {Checked(f), Unchecked(f)}
          PROVE  g \in Forward /\ ForwardOK(g) /\ SameForward(g, f)
      BY <1>1, <2>1, CheckedOK
    <2>3. CASE CheckSucceeds(id) \/ (CheckFails(id) /\ f.state # "Failed")
      <3>1. Settle(id, Checked(f)) \/ Settle(id, Unchecked(f))
        BY <2>3 DEF CheckSucceeds, CheckFails
      <3> QED BY <1>2, <2>1, <2>2, <3>1, SettleInv
    <2>4. CASE CheckFails(id) /\ f.state = "Failed"
      <3>1. /\ forwards' = [forwards EXCEPT ![id] = Unchecked(f)]
            /\ UNCHANGED <<waiting, watchers, requests>>
        BY <2>4 DEF CheckFails
      <3>2. /\ waiting' \in [Ids -> Wait \union {None}]
            /\ \A i \in Ids : waiting[i] # None => waiting'[i] # None
        BY <1>1, <3>1 DEF TypeOK
      <3> QED BY <1>2, <2>1, <2>2, <3>1, <3>2, KeepInv
    <2> QED BY <1>6, <2>3, <2>4
  <1>7. CASE ProbeFires(id)
    <2> DEFINE g == [f EXCEPT !.probe = "check"]
    <2>1. f.state # "Gone" /\ Exists(id)
      BY <1>1, <1>7, Alive DEF ProbeFires, Exists
    <2>2. /\ forwards' = [forwards EXCEPT ![id] = g]
          /\ UNCHANGED <<waiting, watchers, requests>>
      BY <1>7 DEF ProbeFires
    <2>3. /\ g \in Forward /\ g.events = f.events /\ g.connections = f.connections
          /\ g.open = f.open /\ g.state = f.state /\ g.probe = "check"
          /\ SameForward(g, f)
      BY <1>1, <2>1 DEF Forward, SameForward
    <2> HIDE DEF g
    <2>4. ForwardOK(g)
      BY <1>1, <2>1, <2>3, CountsKept
    <2>5. /\ waiting' \in [Ids -> Wait \union {None}]
          /\ \A i \in Ids : waiting[i] # None => waiting'[i] # None
      BY <1>1, <2>2 DEF TypeOK
    <2> QED BY <1>2, <2>1, <2>2, <2>3, <2>4, <2>5, KeepInv
  <1>8. CASE ApplyEvent(id)
    <2>1. f.events # <<>> /\ Settle(id, TakesEvent(f))
      BY <1>8 DEF ApplyEvent, TakesEvent
    <2>2. Exists(id)
      BY <1>1, <2>1, Alive DEF Exists
    <2>3. /\ TakesEvent(f) \in Forward /\ ForwardOK(TakesEvent(f))
          /\ SameForward(TakesEvent(f), f)
      BY <1>1, <2>1, AppliedOK
    <2> QED BY <1>2, <2>1, <2>2, <2>3, SettleInv
  <1> QED BY <1>4, <1>5, <1>6, <1>7, <1>8 DEF Core

(* What the listener leaves in a forward when it posts an event of a kind   *)
(* without a port.                                                          *)
Post(f, kind, open) == [f EXCEPT !.open = open,
                                 !.events = Append(f.events, [kind |-> kind])]

(* It is still counted right if the listener's truth moved with the event. *)
LEMMA PostOK ==
    ASSUME NEW f \in Forward, ForwardOK(f), f.state # "Gone",
           NEW kind \in {"Opened", "Closed", "Error"}, NEW open \in Nat,
           open = f.open + (IF kind = "Opened" THEN 1 ELSE 0)
                    - (IF kind = "Closed" THEN 1 ELSE 0)
    PROVE  LET g == Post(f, kind, open)
           IN  g \in Forward /\ ForwardOK(g) /\ SameForward(g, f) /\ g.open = open
  <1> DEFINE e == [kind |-> kind]
             t == Append(f.events, e)
             g == Post(f, kind, open)
  <1>1. e \in Event /\ e.kind = kind
    BY PlainEvent
  <1>2. f.events \in Seq(Event)
    BY DEF Forward
  <1>3. g = [f EXCEPT !.open = open, !.events = t]
    BY DEF Post
  <1> HIDE DEF e, g
  <1>4. t \in Seq(Event) /\ Posted(t, f.events, e)
    BY <1>1, <1>2, AppendProperties DEF Posted
  <1> HIDE DEF t
  <1>5. /\ g \in Forward /\ g.events = t /\ g.feature = f.feature
        /\ g.connections = f.connections /\ g.state = f.state /\ g.probe = f.probe
        /\ g.open = open
    BY <1>3, <1>4 DEF Forward
  <1>6. Posted(g.events, f.events, e)
    BY <1>4, <1>5
  <1>7. g.open = f.open + (IF e.kind = "Opened" THEN 1 ELSE 0)
                    - (IF e.kind = "Closed" THEN 1 ELSE 0)
    BY <1>1, <1>5
  <1>8. ForwardOK(g) /\ SameForward(g, f)
    BY <1>1, <1>5, <1>6, <1>7, PostedOK
  <1> QED BY <1>5, <1>8 DEF g

(* Two elements are appended one by one or together. *)
LEMMA AppendTwice ==
    ASSUME NEW S, NEW s \in Seq(S), NEW a \in S, NEW b \in S
    PROVE  Append(Append(s, a), b) = s \o <<a, b>>
  OBVIOUS

(* `Posts` is one event after the other. *)
LEMMA PostsAppends ==
    ASSUME NEW f \in Forward, NEW kind \in {"Opened", "Closed", "Error"}
    PROVE  /\ Posts(f, <<kind>>) = Append(f.events, [kind |-> kind])
           /\ Posts(f, <<"Closed", kind>>)
                = Append(Append(f.events, [kind |-> "Closed"]), [kind |-> kind])
  <1> DEFINE a == [kind |-> "Closed"]
             b == [kind |-> kind]
             s == f.events
  <1>1. /\ Posts(f, <<kind>>) = s \o <<b>>
        /\ Posts(f, <<"Closed", kind>>) = s \o <<a, b>>
    <2>1. [i \in DOMAIN <<kind>> |-> [kind |-> <<kind>>[i]]] = <<b>>
      OBVIOUS
    <2>2. [i \in DOMAIN <<"Closed", kind>> |-> [kind |-> <<"Closed", kind>>[i]]] = <<a, b>>
      OBVIOUS
    <2> QED BY <2>1, <2>2 DEF Posts
  <1>2. a \in Event /\ b \in Event /\ s \in Seq(Event)
    BY PlainEvent DEF Forward
  <1> HIDE DEF a, b, s
  <1>3. Append(s, b) = s \o <<b>>
    BY <1>2, AppendIsConcat
  <1>4. Append(Append(s, a), b) = s \o <<a, b>>
    BY <1>2, AppendTwice
  <1> QED BY <1>1, <1>3, <1>4 DEF a, b, s

(* The listener's steps: the truth and the queue move together. *)
LEMMA NetworkInv ==
    ASSUME IInv, NEW id \in Ids, Network(id)
    PROVE  IInv'
  <1> DEFINE f == forwards[id]
  <1>1. TypeOK /\ f \in Forward /\ ForwardOK(f) /\ f.events \in Seq(Event) /\ f.open \in Nat
    BY DEF IInv, TypeOK, Forward
  <1>2. f.listener # "ended"
    BY DEF Network, BindSucceeds, BindFails, ConnectionOpens, ConnectionCloses,
       ConnectionFails
  <1>3. f.state # "Gone" /\ Exists(id)
    BY <1>1, <1>2, Alive DEF Exists
  <1>4. ASSUME NEW g \in Forward, ForwardOK(g), SameForward(g, f), Listener(id, g)
        PROVE  IInv'
    <2>1. /\ forwards' = [forwards EXCEPT ![id] = g]
          /\ UNCHANGED <<waiting, watchers, requests, nextId, commands, lateDrops, client,
                         clients>>
      BY <1>4 DEF Listener, clusterVars
    <2>2. /\ waiting' \in [Ids -> Wait \union {None}]
          /\ \A i \in Ids : waiting[i] # None => waiting'[i] # None
      BY <1>1, <2>1 DEF TypeOK
    <2> QED BY <1>3, <1>4, <2>1, <2>2, KeepInv
  <1>6. CASE \E port \in Ports, fallback_any \in BOOLEAN : BindSucceeds(id, port, fallback_any)
    <2>1. PICK port \in Ports, fallback_any \in BOOLEAN : BindSucceeds(id, port, fallback_any)
      BY <1>6
    <2> DEFINE e == [kind |-> "Listening", port |-> port]
               t == Append(f.events, e)
               g == [f EXCEPT !.listener = "bound", !.bound = port, !.events = t]
    <2>2. Listener(id, g)
      BY <2>1 DEF BindSucceeds
    <2>3. e \in Event /\ e.kind = "Listening"
      BY DEF Event
    <2> HIDE DEF e
    <2>6. t \in Seq(Event) /\ Posted(t, f.events, e)
      BY <1>1, <2>3, AppendProperties DEF Posted
    <2> HIDE DEF t
    <2>4. /\ g \in Forward /\ Posted(g.events, f.events, e) /\ g.feature = f.feature
          /\ g.connections = f.connections /\ g.state = f.state /\ g.probe = f.probe
          /\ g.open = f.open
      BY <1>1, <2>3, <2>6 DEF Forward
    <2> HIDE DEF g
    <2>5. g.open = f.open + (IF e.kind = "Opened" THEN 1 ELSE 0)
                      - (IF e.kind = "Closed" THEN 1 ELSE 0)
      BY <1>1, <2>3, <2>4
    <2> QED BY <1>1, <1>3, <1>4, <2>2, <2>3, <2>4, <2>5, PostedOK
  <1>7. CASE BindFails(id)
    <2> DEFINE g == [f EXCEPT !.listener = "ended", !.state = "Failed"]
    <2>1. Settle(id, g) /\ UNCHANGED <<nextId, commands, lateDrops, client, clients>>
      BY <1>7 DEF BindFails, clusterVars
    <2>2. /\ g \in Forward /\ g.events = f.events /\ g.connections = f.connections
          /\ g.open = f.open /\ g.state = "Failed" /\ g.feature = f.feature
      BY <1>1 DEF Forward, States
    <2> HIDE DEF g
    <2>3. ForwardOK(g) /\ SameForward(g, f)
      BY <1>1, <2>2, CountsKept DEF SameForward
    <2> QED BY <1>3, <2>1, <2>2, <2>3, SettleInv
  <1>8. CASE ConnectionOpens(id)
    <2> DEFINE g == Post(f, "Opened", f.open + 1)
    <2>1. Listener(id, g)
      BY <1>1, <1>8, PostsAppends DEF ConnectionOpens, Post
    <2>2. g \in Forward /\ ForwardOK(g) /\ SameForward(g, f)
      BY <1>1, <1>3, PostOK
    <2> QED BY <1>4, <2>1, <2>2
  <1>9. CASE ConnectionCloses(id)
    <2> DEFINE g == Post(f, "Closed", f.open - 1)
               h == Post(g, "Error", f.open - 1)
    <2>1. f.open > 0 /\ f.open - 1 \in Nat
      BY <1>1, <1>9 DEF ConnectionCloses
    <2>2. g \in Forward /\ ForwardOK(g) /\ SameForward(g, f) /\ g.open = f.open - 1
      BY <1>1, <1>3, <2>1, PostOK
    <2>3. PICK kinds \in {<<"Closed">>, <<"Closed", "Error">>} :
            Listener(id, [f EXCEPT !.open = f.open - 1, !.events = Posts(f, kinds)])
      BY <1>9 DEF ConnectionCloses
    <2>4. CASE kinds = <<"Closed">>
      <3>1. Listener(id, g)
        BY <1>1, <2>3, <2>4, PostsAppends DEF Post
      <3> QED BY <1>4, <2>2, <3>1
    <2>5. CASE kinds = <<"Closed", "Error">>
      <3>1. g.state # "Gone" /\ f.open - 1 = g.open + 0 - 0
        BY <1>1, <2>1, <2>2 DEF SameForward
      <3>2. h \in Forward /\ ForwardOK(h) /\ SameForward(h, g)
        <4> HIDE DEF g
        <4> QED BY <2>1, <2>2, <3>1, PostOK
      <3>3. Posts(f, kinds) = Append(Append(f.events, [kind |-> "Closed"]), [kind |-> "Error"])
        BY <1>1, <2>5, PostsAppends
      <3>4. h = [f EXCEPT !.open = f.open - 1, !.events = Posts(f, kinds)]
        BY <1>1, <3>3 DEF Post, Forward
      <3>5. SameForward(h, f) /\ Listener(id, h)
        BY <2>2, <2>3, <3>2, <3>4 DEF SameForward
      <3> QED BY <1>4, <3>2, <3>5
    <2> QED BY <2>3, <2>4, <2>5
  <1>10. CASE ConnectionFails(id)
    <2> DEFINE g == Post(f, "Error", f.open)
    <2>1. g = [f EXCEPT !.events = Append(f.events, [kind |-> "Error"])]
      BY <1>1 DEF Post, Forward
    <2>2. Listener(id, g)
      BY <1>1, <1>10, <2>1, PostsAppends DEF ConnectionFails
    <2>3. g \in Forward /\ ForwardOK(g) /\ SameForward(g, f)
      BY <1>1, <1>3, PostOK
    <2> QED BY <1>4, <2>2, <2>3
  <1> QED BY <1>6, <1>7, <1>8, <1>9, <1>10 DEF Network

(* The features' steps. *)
LEMMA FeaturesInv ==
    ASSUME IInv, NEW r \in Requests, Features(r)
    PROVE  IInv'
  <1> DEFINE q == requests[r]
             As(phase) == [q EXCEPT !.phase = phase]
  <1>1. TypeOK /\ q \in Request /\ client \in 0..MaxClients /\ IdsInv
    BY DEF IInv, TypeOK
  <1>2. ASSUME NEW phase \in Phases
        PROVE  As(phase) \in Request /\ As(phase).forward = q.forward /\ As(phase).phase = phase
    BY <1>1 DEF Request
  <1> HIDE DEF As
  <1>3. ASSUME UNCHANGED <<commands, lateDrops>>
        PROVE  /\ commands' \in Seq(Command) /\ lateDrops' \in 0..MaxLateDrops
               /\ \A i \in Ids : Stopping(i) => Stopping(i)'
    BY <1>1, <1>3 DEF TypeOK, Stopping
  <1>4. ASSUME NEW p \in Request, p.forward = q.forward, NEW grace \in BOOLEAN,
               q.phase \notin {"answered", "holding"}, Send(r, p, grace)
        PROVE  IInv'
    <2> DEFINE c == [kind |-> "Open", request |-> r, grace |-> grace]
               x == [p EXCEPT !.phase = "sent"]
    <2>1. /\ Feature(r, x) /\ commands' = Append(commands, c) /\ lateDrops' = lateDrops
      BY <1>4 DEF Send
    <2>2. c \in Command
      BY DEF Command
    <2>3. x \in Request /\ x.forward = q.forward /\ x.phase = "sent"
      BY <1>4 DEF Request, Phases
    <2> HIDE DEF c, x
    <2>4. commands' \in Seq(Command) /\ \A i \in Ids : Stopping(i) => Stopping(i)'
      BY <1>1, <2>1, <2>2, CommandSent
    <2> QED BY <1>1, <1>4, <2>1, <2>3, <2>4, FeatureInv DEF TypeOK
  <1>5. CASE \E named, grace \in BOOLEAN : Ask(r, named, grace)
    <2>1. PICK named \in BOOLEAN, grace \in BOOLEAN : Ask(r, named, grace)
      BY <1>5
    <2> DEFINE p == [q EXCEPT !.client = client]
    <2>2. p \in Request /\ p.forward = q.forward /\ q.phase = "idle"
      BY <1>1, <2>1 DEF Ask, Request
    <2>3. CASE ~named
      <3>1. Send(r, p, grace)
        BY <2>1, <2>3 DEF Ask
      <3> QED BY <1>4, <2>2, <3>1
    <2>4. CASE named
      <3> DEFINE x == [p EXCEPT !.phase = "looking"]
      <3>1. Feature(r, x) /\ UNCHANGED <<commands, lateDrops>>
        BY <2>1, <2>4 DEF Ask
      <3>2. x \in Request /\ x.forward = q.forward /\ x.phase = "looking"
        BY <2>2 DEF Request, Phases
      <3> HIDE DEF x
      <3> QED BY <1>3, <2>2, <3>1, <3>2, FeatureInv
    <2> QED BY <2>3, <2>4
  <1>6. CASE \E grace \in BOOLEAN : LookupFinds(r, grace)
    BY <1>1, <1>4, <1>6 DEF LookupFinds
  <1>7. CASE LookupFails(r)
    <2>1. Feature(r, As("failed")) /\ UNCHANGED <<commands, lateDrops>> /\ q.phase = "looking"
      BY <1>7 DEF LookupFails, As
    <2>2. As("failed") \in Request /\ As("failed").forward = q.forward /\ As("failed").phase = "failed"
      BY <1>2 DEF Phases
    <2> QED BY <1>3, <2>1, <2>2, FeatureInv
  <1>8. CASE Receive(r)
    <2>1. Feature(r, As("holding")) /\ UNCHANGED <<commands, lateDrops>> /\ q.phase = "answered"
      BY <1>8 DEF Receive, As
    <2>2. As("holding") \in Request /\ As("holding").forward = q.forward /\ As("holding").phase = "holding"
      BY <1>2 DEF Phases
    <2> QED BY <1>3, <2>1, <2>2, FeatureInv
  <1>9. As("dropped") \in Request /\ As("dropped").forward = q.forward /\ As("dropped").phase = "dropped"
    BY <1>2 DEF Phases
  <1>10. CASE DropFuture(r)
    <2>1. /\ Feature(r, As("dropped")) /\ UNCHANGED commands
          /\ q.phase \in {"looking", "sent", "answered"}
          /\ q.phase = "answered" => lateDrops < MaxLateDrops
          /\ lateDrops' = IF q.phase = "answered" THEN lateDrops + 1 ELSE lateDrops
      BY <1>10 DEF DropFuture, As
    <2>2. /\ lateDrops' \in 0..MaxLateDrops
          /\ lateDrops' = 0 => lateDrops = 0 /\ q.phase # "answered"
      BY <1>1, <2>1 DEF TypeOK
    <2>3. commands' \in Seq(Command) /\ \A i \in Ids : Stopping(i) => Stopping(i)'
      BY <1>1, <2>1 DEF TypeOK, Stopping
    <2> QED BY <1>9, <2>1, <2>2, <2>3, FeatureInv
  <1>11. CASE DropReached(r)
    <2> DEFINE c == [kind |-> "Stop", id |-> q.forward]
    <2>1. /\ Feature(r, As("dropped")) /\ q.phase = "holding" /\ lateDrops' = lateDrops
          /\ commands' = Append(commands, c)
      BY <1>11 DEF DropReached, As
    <2>2. PICK d \in Ids : d = q.forward
      BY <1>1, <2>1 DEF IdsInv, Request
    <2>3. c \in Command /\ c.kind = "Stop" /\ c.id = d
      BY <2>2 DEF Command
    <2> HIDE DEF c
    <2>4. /\ commands' \in Seq(Command) /\ \A i \in Ids : Stopping(i) => Stopping(i)'
          /\ Stopping(d)'
      <3>1. PICK k \in Command : k = c
        BY <2>3
      <3>2. commands' = Append(commands, k) /\ k.kind = "Stop" /\ k.id = d
        BY <2>1, <2>3, <3>1
      <3> QED BY <1>1, <3>2, CommandSent
    <2>5. PICK y \in Request : y = As("dropped")
      BY <1>9
    <2>6. Feature(r, y) /\ y.forward = d /\ y.forward = q.forward /\ y.phase = "dropped"
      BY <1>9, <2>1, <2>2, <2>5
    <2>7. Stopping(y.forward)'
      BY <2>4, <2>6
    <2> QED BY <1>1, <2>1, <2>4, <2>6, <2>7, FeatureInv DEF TypeOK
  <1> QED BY <1>5, <1>6, <1>7, <1>8, <1>10, <1>11 DEF Features

-----------------------------------------------------------------------------
(* Nothing to count, nobody waiting, no id given out. *)
LEMMA InitInv == Init => IInv
  <1> SUFFICES ASSUME Init PROVE IInv
    OBVIOUS
  <1>1. Gone \in Forward /\ ForwardOK(Gone) /\ Gone.state = "Gone"
    <2>1. TRUE \in BOOLEAN /\ 0 \in 0..MaxClients /\ 0 \in Ports \union {0}
      OBVIOUS
    <2>2. Gone \in Forward /\ ForwardOK(Gone)
      BY <2>1, StartedOK
    <2> QED BY <2>2 DEF Gone
  <1>2. TypeOK /\ \A id \in Ids : ~Exists(id) /\ ForwardOK(forwards[id])
    BY <1>1 DEF Init, TypeOK, Exists, Request, Phases
  <1> QED BY <1>2 DEF Init, IInv, IdsInv, HeldIsWatched, WantedInv

(* Every step keeps the invariant. *)
LEMMA Inductive == IInv /\ [Next]_vars => IInv'
  <1> SUFFICES ASSUME IInv, [Next]_vars PROVE IInv'
    OBVIOUS
  <1>1. CASE UNCHANGED vars
    BY <1>1 DEF vars, IInv, TypeOK, IdsInv, HeldIsWatched, WantedInv, Exists, Wanted, Held,
       Stopping
  <1>2. CASE \/ \E asked \in Ports \union {0} : Start(asked)
             \/ HandleOpen \/ HandleStop \/ ClusterLost \/ ClusterConnects
    BY <1>2, HostInv
  <1>3. CASE \E id \in Ids : Core(id) \/ Network(id)
    BY <1>3, CoreInv, NetworkInv
  <1>4. CASE \E r \in Requests : Features(r)
    BY <1>4, FeaturesInv
  <1> QED BY <1>1, <1>2, <1>3, <1>4 DEF Next

(* The inductive invariant holds in every state of ForwardsCore, its        *)
(* listeners and the features that use it.                                  *)
THEOREM Invariance == Spec => []IInv
  BY InitInv, Inductive, PTL DEF Spec

(* Every variable keeps to its type; the rows' counts of connections stay   *)
(* natural numbers although events take them down.                          *)
THEOREM TypeCorrect == Spec => []TypeOK
  <1>1. IInv => TypeOK
    BY DEF IInv
  <1> QED BY <1>1, Invariance, PTL

(* A forward that shows "reconnecting" has a resolution or its timer under  *)
(* way, in whatever order events, checks and connections arrive.            *)
THEOREM ReconnectingIsAlwaysProbed == Spec => []ReconnectingIsProbed
  <1>1. IInv => ReconnectingIsProbed
    BY DEF IInv, ForwardOK, ReconnectingIsProbed
  <1> QED BY <1>1, Invariance, PTL

(* The number of open connections a row shows is the listener's, but for    *)
(* the events still queued: `saturating_sub` never saturates.               *)
THEOREM ConnectionsAlwaysCounted == Spec => []ConnectionsAreCounted
  <1>1. IInv => ConnectionsAreCounted
    <2> SUFFICES ASSUME IInv, NEW id \in Ids
                 PROVE  LET f == forwards[id]
                            queued(kind) == Cardinality({i \in DOMAIN f.events :
                                                            f.events[i].kind = kind})
                        IN  f.connections + queued("Opened") - queued("Closed") = f.open
      BY DEF ConnectionsAreCounted
    <2> DEFINE f == forwards[id]
    <2>1. f.events \in Seq(Event) /\ DOMAIN f.events = 1..Len(f.events)
      BY DEF IInv, TypeOK, Forward
    <2>2. \A kind : {i \in DOMAIN f.events : f.events[i].kind = kind}
                      = OfKind(f.events, kind, Len(f.events))
      BY <2>1 DEF OfKind
    <2>3. Shown(f, Len(f.events)) = f.open
      BY DEF IInv, ForwardOK
    <2> QED BY <2>2, <2>3 DEF Shown, Count
  <1> QED BY <1>1, Invariance, PTL

(* A feature that has a forward is told when it goes: the watcher is there  *)
(* exactly as long as the forward.                                          *)
THEOREM HeldIsAlwaysWatched == Spec => []HeldIsWatched
  <1>1. IInv => HeldIsWatched
    BY DEF IInv
  <1> QED BY <1>1, Invariance, PTL

(* A forward opened for a feature never runs on without anybody who wants   *)
(* it, unless a feature dropped its request with the answer unread.         *)
THEOREM NeverOrphans == Spec => []NoOrphans
  <1>1. IInv => NoOrphans
    BY DEF IInv, WantedInv, Wanted, Held, Stopping, NoOrphans, Owned
  <1> QED BY <1>1, Invariance, PTL
=============================================================================
