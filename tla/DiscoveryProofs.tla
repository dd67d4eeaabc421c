--------------------------- MODULE DiscoveryProofs ---------------------------
(***************************************************************************)
(* Proofs about Discovery: what the watch of CRDs tells, and how often      *)
(* discovery runs.                                                          *)
(***************************************************************************)
EXTENDS Discovery, TLAPS

USE DiscoveryAssumption

-----------------------------------------------------------------------------
(* The runs beyond the first of every batch are the retries since the last  *)
(* batch and those of the batches before it.                                *)
RunsInv ==
    /\ batches = 0 => crds = None /\ retries = 0 /\ runs = 1
    /\ batches > 0 => runs <= (1 + UnservedRetries) * (batches - 1) + 1 + retries

(* An event is about one CRD, a list about all of them. *)
About(e, c) == e.kind = "list" \/ e.crd = c

(* The generation an event leaves a CRD with. *)
GenerationIn(e, c) ==
    CASE e.kind = "list" -> e.generations[c]
      [] e.kind = "apply" -> e.generation
      [] e.kind = "delete" -> None

Pending(s, c) == {i \in DOMAIN s : About(s[i], c)}

(* The events s leave a CRD, of generation g0 before, with generation g:    *)
(* that of the last of them that is about it.                               *)
Leaves(s, c, g0, g) ==
    /\ Pending(s, c) = {} => g = g0
    /\ \A i \in Pending(s, c) : (\A j \in Pending(s, c) : j <= i)
                                => GenerationIn(s[i], c) = g

(* No event has a later generation than the server, and a list has the      *)
(* shape that belongs to the generation.                                    *)
NotAhead(g, crd) == g # None => g <= crd.generation

Grown(s, c, crd) ==
    /\ \A i \in Pending(s, c) : NotAhead(GenerationIn(s[i], c), crd)
    /\ \A i \in DOMAIN s :
          s[i].kind = "list" /\ s[i].generations[c] = crd.generation
          => s[i].shapes[c] = crd.shape

(* What is known of a CRD as it is now was told. *)
ToldIfKnown(c) ==
    known.generations[c] = server[c].generation \/ known.shapes[c] = server[c].shape
    => told[c] = server[c].shape

(* Shapes come from the past, and none was fetched before the first list.   *)
(* Of a CRD that never was there is no generation anywhere.                 *)
PastInv ==
    /\ \A c \in CRDs : known.shapes[c] \in past[c] \union {None}
    /\ \A c \in CRDs : server[c] # None => server[c].shape \in past[c]
    /\ \A c \in CRDs : past[c] = {} =>
          /\ known.generations[c] = None
          /\ \A i \in Pending(events, c) : GenerationIn(events[i], c) = None
    /\ ~known.ready => \A c \in CRDs : known.shapes[c] = None

(* While the stream watches, its events lead to the generations the server  *)
(* has.                                                                     *)
StreamInv ==
    /\ stream # "watching" => events = <<>>
    /\ stream = "watching" =>
          \A c \in CRDs : Leaves(events, c, known.generations[c], Generations[c])

NewsInv ==
    \A c \in CRDs : server[c] # None /\ c \notin unusual =>
        /\ NotAhead(known.generations[c], server[c])
        /\ Grown(events, c, server[c])
        /\ ToldIfKnown(c)

IInv == TypeOK /\ RunsInv /\ UnservedIsRetriedUnlessFailed /\ PastInv /\ StreamInv
          /\ NewsInv

-----------------------------------------------------------------------------
(* An event at the end of the queue says what a CRD is left with. *)
LEMMA LeavesAppend ==
    ASSUME NEW s \in Seq(Event), NEW e \in Event, NEW c, NEW g0, NEW g, NEW h,
           IF About(e, c) THEN h = GenerationIn(e, c)
           ELSE h = g /\ Leaves(s, c, g0, g)
    PROVE  Leaves(Append(s, e), c, g0, h)
  <1> DEFINE t == Append(s, e)
  <1>1. /\ Len(t) = Len(s) + 1 /\ t[Len(s) + 1] = e /\ Len(s) \in Nat
        /\ DOMAIN t = 1..(Len(s) + 1) /\ DOMAIN s = 1..Len(s)
        /\ \A i \in 1..Len(s) : t[i] = s[i]
    OBVIOUS
  <1> HIDE DEF t
  <1>2. CASE About(e, c)
    <2>1. Len(s) + 1 \in Pending(t, c)
      BY <1>1, <1>2 DEF Pending
    <2>2. ASSUME NEW i \in Pending(t, c), \A j \in Pending(t, c) : j <= i
          PROVE  GenerationIn(t[i], c) = h
      <3>1. i = Len(s) + 1
        BY <1>1, <2>1, <2>2 DEF Pending
      <3> QED BY <1>1, <1>2, <3>1
    <2> QED BY <2>1, <2>2 DEF Leaves, t
  <1>3. CASE ~About(e, c)
    <2>1. Pending(t, c) = Pending(s, c)
      BY <1>1, <1>3 DEF Pending
    <2>2. \A i \in Pending(s, c) : t[i] = s[i]
      BY <1>1 DEF Pending
    <2> QED BY <1>3, <2>1, <2>2 DEF Leaves, t
  <1> QED BY <1>2, <1>3

(* Taking the first event leaves the rest to say it. *)
LEMMA LeavesTail ==
    ASSUME NEW s \in Seq(Event), s # <<>>, NEW c, NEW g0, NEW g, Leaves(s, c, g0, g),
           NEW h, IF About(Head(s), c) THEN h = GenerationIn(Head(s), c) ELSE h = g0
    PROVE  Leaves(Tail(s), c, h, g)
  <1> DEFINE t == Tail(s)
  <1>1. /\ Len(s) \in Nat /\ Len(s) > 0 /\ Head(s) = s[1]
        /\ DOMAIN s = 1..Len(s) /\ DOMAIN t = 1..(Len(s) - 1)
        /\ \A i \in 1..(Len(s) - 1) : t[i] = s[i + 1]
    OBVIOUS
  <1> HIDE DEF t
  <1>2. \A i : i \in Pending(t, c) => i \in Nat /\ i + 1 \in Pending(s, c) /\ t[i] = s[i + 1]
    BY <1>1 DEF Pending
  <1>3. \A j : j \in Pending(s, c) => j \in Nat /\ (j = 1 \/ j - 1 \in Pending(t, c))
    BY <1>1 DEF Pending
  <1>4. ASSUME NEW i \in Pending(t, c), \A j \in Pending(t, c) : j <= i
        PROVE  GenerationIn(t[i], c) = g
    <2>1. \A j \in Pending(s, c) : j <= i + 1
      BY <1>2, <1>3, <1>4
    <2> QED BY <1>2, <2>1 DEF Leaves
  <1>5. ASSUME Pending(t, c) = {}
        PROVE  g = h
    <2>1. \A j \in Pending(s, c) : j = 1
      BY <1>3, <1>5
    <2>2. CASE About(s[1], c)
      <3>1. 1 \in Pending(s, c)
        BY <1>1, <2>2 DEF Pending
      <3> QED BY <1>1, <2>1, <2>2, <3>1 DEF Leaves
    <2>3. CASE ~About(s[1], c)
      <3>1. Pending(s, c) = {}
        BY <2>1, <2>3 DEF Pending
      <3> QED BY <1>1, <2>3, <3>1 DEF Leaves
    <2> QED BY <2>2, <2>3
  <1> QED BY <1>4, <1>5 DEF Leaves, t

(* The events of the three kinds. *)
LEMMA EventKinds ==
    ASSUME NEW e \in Event
    PROVE  \/ /\ e.kind = "list" /\ e.generations \in [CRDs -> MaybeNat]
              /\ e.shapes \in [CRDs -> MaybeShape]
           \/ e.kind = "apply" /\ e.crd \in CRDs /\ e.generation \in Nat
           \/ e.kind = "delete" /\ e.crd \in CRDs
  BY DEF Event

(* The server's CRDs have generations and shapes. *)
LEMMA ServerTypes ==
    ASSUME server \in [CRDs -> Crd \union {None}]
    PROVE  /\ Generations \in [CRDs -> MaybeNat] /\ ShapesNow \in [CRDs -> MaybeShape]
           /\ \A c \in CRDs : server[c] = None =>
                 Generations[c] = None /\ ShapesNow[c] = None
           /\ \A c \in CRDs : server[c] # None =>
                 /\ server[c] \in Crd
                 /\ Generations[c] = server[c].generation /\ ShapesNow[c] = server[c].shape
                 /\ server[c].generation \in Nat /\ server[c].shape \in Shapes
  BY DEF Generations, ShapesNow, Names, Crd, MaybeNat, MaybeShape

(* The generation an event has is a number or none. *)
LEMMA GenerationInType ==
    ASSUME NEW e \in Event, NEW c \in CRDs
    PROVE  GenerationIn(e, c) \in MaybeNat
  BY EventKinds DEF GenerationIn, MaybeNat

(* What holds of every event of a queue holds of the rest of it. *)
LEMMA GrownTail ==
    ASSUME NEW s \in Seq(Event), s # <<>>, NEW c
    PROVE  /\ \A i \in Pending(Tail(s), c) : i + 1 \in Pending(s, c)
                                             /\ Tail(s)[i] = s[i + 1]
           /\ \A crd : Grown(s, c, crd) => Grown(Tail(s), c, crd)
  <1> DEFINE t == Tail(s)
  <1>1. /\ Len(s) \in Nat /\ DOMAIN s = 1..Len(s) /\ DOMAIN t = 1..(Len(s) - 1)
        /\ \A i \in 1..(Len(s) - 1) : t[i] = s[i + 1]
    OBVIOUS
  <1> HIDE DEF t
  <1>2. \A i \in DOMAIN t : i + 1 \in DOMAIN s /\ t[i] = s[i + 1]
    BY <1>1
  <1>3. \A i \in Pending(t, c) : i \in DOMAIN t /\ i + 1 \in Pending(s, c)
    BY <1>2 DEF Pending
  <1>4. ASSUME NEW crd, Grown(s, c, crd)
        PROVE  Grown(t, c, crd)
    <2>1. \A i \in Pending(t, c) : NotAhead(GenerationIn(t[i], c), crd)
      BY <1>2, <1>3, <1>4 DEF Grown
    <2>2. ASSUME NEW i \in DOMAIN t, t[i].kind = "list",
                 t[i].generations[c] = crd.generation
          PROVE  t[i].shapes[c] = crd.shape
      BY <1>2, <1>4, <2>2 DEF Grown
    <2> QED BY <2>1, <2>2 DEF Grown
  <1> QED BY <1>2, <1>3, <1>4 DEF t

(* The events that may stand in the queue after a change of the server. *)
LEMMA QueueAfter ==
    ASSUME NEW s \in Seq(Event), NEW e \in Event, NEW t, t \in {s, Append(s, e)}, NEW c
    PROVE  /\ t \in Seq(Event)
           /\ \A i \in DOMAIN t : (i \in DOMAIN s /\ t[i] = s[i]) \/ t[i] = e
           /\ \A i \in Pending(t, c) : \/ i \in Pending(s, c) /\ t[i] = s[i]
                                       \/ About(e, c) /\ t[i] = e
  <1>1. CASE t = s
    BY <1>1 DEF Pending
  <1>2. CASE t = Append(s, e)
    <2>1. /\ t \in Seq(Event)
          /\ Len(s) \in Nat /\ DOMAIN s = 1..Len(s) /\ DOMAIN t = 1..(Len(s) + 1)
          /\ t[Len(s) + 1] = e /\ \A i \in 1..Len(s) : t[i] = s[i]
      BY <1>2
    <2>2. \A i \in DOMAIN t : (i \in DOMAIN s /\ t[i] = s[i]) \/ t[i] = e
      BY <2>1
    <2>3. \A i \in Pending(t, c) : \/ i \in Pending(s, c) /\ t[i] = s[i]
                                   \/ About(e, c) /\ t[i] = e
      BY <2>2 DEF Pending
    <2> QED BY <2>1, <2>2, <2>3
  <1> QED BY <1>1, <1>2

-----------------------------------------------------------------------------
(* What a change of c may make of it: a new generation, unless its shape    *)
(* stays, and the event that tells of it.                                   *)
Evolves(c, crd, event) ==
    /\ crd \in Crd \union {None} /\ event \in Event
    /\ event.kind # "list" /\ event.crd = c
    /\ GenerationIn(event, c) = IF crd = None THEN None ELSE crd.generation
    /\ server[c] = None => crd # None
    /\ server[c] # None /\ crd # None =>
         /\ server[c].generation <= crd.generation
         /\ crd.generation = server[c].generation => crd.shape = server[c].shape

(* A change keeps what is known of the other CRDs as true as it was, and    *)
(* makes what is known of c outdated unless its shape stays.                *)
LEMMA ChangeInv ==
    ASSUME IInv, NEW c \in CRDs, NEW crd, NEW event, Evolves(c, crd, event),
           Change(c, crd, event)
    PROVE  IInv'
  <1>1. /\ TypeOK /\ RunsInv /\ UnservedIsRetriedUnlessFailed
        /\ PastInv /\ StreamInv /\ NewsInv
    BY DEF IInv
  <1>2. /\ changes < MaxChanges /\ changes' = changes + 1
        /\ server' = [server EXCEPT ![c] = crd]
        /\ events' = IF stream = "watching" THEN Append(events, event) ELSE events
        /\ past' = [past EXCEPT ![c] = IF crd = None THEN @ ELSE @ \union {crd.shape}]
        /\ unusual' = IF crd # None /\ crd.shape # ShapesNow[c]
                           /\ \/ crd.shape \in past[c]
                              \/ server[c] = None /\ past[c] # {}
                      THEN unusual \union {c} ELSE unusual
        /\ UNCHANGED <<stream, known, breaks, told, lists, hostVars>>
    BY DEF Change
  <1>3. /\ server \in [CRDs -> Crd \union {None}] /\ events \in Seq(Event)
        /\ known \in [generations : [CRDs -> MaybeNat], shapes : [CRDs -> MaybeShape],
                      ready : BOOLEAN]
        /\ past \in [CRDs -> SUBSET Shapes] /\ unusual \in SUBSET CRDs
        /\ changes \in 0..MaxChanges
    BY <1>1 DEF TypeOK
  <1>4. /\ crd \in Crd \union {None} /\ event \in Event
        /\ crd # None => crd \in Crd /\ crd.generation \in Nat /\ crd.shape \in Shapes
    BY DEF Evolves, Crd
  <1>5. events' \in {events, Append(events, event)}
    BY <1>2
  <1>6. /\ events' \in Seq(Event)
        /\ \A i \in DOMAIN events' : \/ i \in DOMAIN events /\ events'[i] = events[i]
                                     \/ events'[i] = event
        /\ \A d : \A i \in Pending(events', d) :
              \/ i \in Pending(events, d) /\ events'[i] = events[i]
              \/ About(event, d) /\ events'[i] = event
    BY <1>3, <1>4, <1>5, QueueAfter
  <1>7. server' \in [CRDs -> Crd \union {None}] /\ server'[c] = crd
        /\ \A d \in CRDs : d # c => server'[d] = server[d]
    BY <1>2, <1>3, <1>4
  <1>8. /\ past' \in [CRDs -> SUBSET Shapes]
        /\ \A d \in CRDs : past[d] \subseteq past'[d] /\ (d # c => past'[d] = past[d])
        /\ crd # None => crd.shape \in past'[c]
    BY <1>2, <1>3, <1>4
  <1>9. unusual' \in SUBSET CRDs /\ unusual \subseteq unusual'
    BY <1>2, <1>3
  <1>10. TypeOK'
    <2>1. changes' \in 0..MaxChanges
      BY <1>2, <1>3
    <2>2. UNCHANGED <<stream, known, breaks, told, lists, crds, retries, discovery, tasks,
                      runs, batches, failed>>
      BY <1>2 DEF hostVars
    <2> QED BY <1>1, <1>6, <1>7, <1>8, <1>9, <2>1, <2>2 DEF TypeOK
  <1>11. RunsInv' /\ UnservedIsRetriedUnlessFailed'
    BY <1>1, <1>2 DEF RunsInv, UnservedIsRetriedUnlessFailed, UnservedIsRetried, hostVars
  <1>12. PastInv'
    <2>1. \A d \in CRDs : known'.shapes[d] \in past'[d] \union {None}
      BY <1>1, <1>2, <1>8 DEF PastInv
    <2>2. \A d \in CRDs : server'[d] # None => server'[d].shape \in past'[d]
      BY <1>1, <1>7, <1>8 DEF PastInv
    <2>3. ASSUME NEW d \in CRDs, past'[d] = {}
          PROVE  /\ known'.generations[d] = None
                 /\ \A i \in Pending(events', d) : GenerationIn(events'[i], d) = None
      <3>1. past[d] = {}
        BY <1>8, <2>3
      <3>2. About(event, d) => GenerationIn(event, d) = None
        BY <1>8, <2>3 DEF About, Evolves
      <3> QED BY <1>1, <1>2, <1>6, <3>1, <3>2 DEF PastInv
    <2>4. ~known'.ready => \A d \in CRDs : known'.shapes[d] = None
      BY <1>1, <1>2 DEF PastInv
    <2> QED BY <2>1, <2>2, <2>3, <2>4 DEF PastInv
  <1>13. StreamInv'
    <2>1. stream' # "watching" => events' = <<>>
      BY <1>1, <1>2 DEF StreamInv
    <2>2. ASSUME stream' = "watching", NEW d \in CRDs
          PROVE  Leaves(events', d, known'.generations[d], Generations'[d])
      <3>1. events' = Append(events, event) /\ stream = "watching"
        BY <1>2, <2>2
      <3>2. Leaves(events, d, known.generations[d], Generations[d])
        BY <1>1, <2>2, <3>1 DEF StreamInv
      <3>3. IF About(event, d) THEN Generations'[d] = GenerationIn(event, d)
            ELSE Generations'[d] = Generations[d]
        BY <1>7 DEF Evolves, About, Generations, Names
      <3>4. Leaves(Append(events, event), d, known.generations[d], Generations'[d])
        BY <1>3, <1>4, <3>2, <3>3, LeavesAppend
      <3> QED BY <1>2, <3>1, <3>4
    <2> QED BY <2>1, <2>2 DEF StreamInv
  <1>14. ASSUME NEW d \in CRDs, server'[d] # None, d \notin unusual'
         PROVE  /\ NotAhead(known'.generations[d], server'[d])
                /\ Grown(events', d, server'[d])
                /\ ToldIfKnown(d)'
    <2>1. CASE d # c
      <3>1. server'[d] = server[d] /\ server[d] # None /\ d \notin unusual
            /\ ~About(event, d) /\ event.kind # "list"
        BY <1>7, <1>9, <1>14, <2>1 DEF About, Evolves
      <3>2. /\ NotAhead(known.generations[d], server[d]) /\ Grown(events, d, server[d])
            /\ ToldIfKnown(d)
        BY <1>1, <3>1 DEF NewsInv
      <3>3. Grown(events', d, server[d])
        BY <1>6, <3>1, <3>2 DEF Grown
      <3> QED BY <1>2, <3>1, <3>2, <3>3 DEF ToldIfKnown
    <2>2. CASE d = c /\ server[c] = None
      <3>1. crd # None /\ server'[d] = crd /\ ShapesNow[c] = None
        BY <1>3, <1>7, <1>14, <2>2, ServerTypes
      <3>2. past[c] = {}
        BY <1>2, <1>4, <1>14, <2>2, <3>1
      <3>3. /\ known.generations[c] = None /\ known.shapes[c] = None
            /\ \A i \in Pending(events, c) : GenerationIn(events[i], c) = None
        BY <1>1, <3>2 DEF PastInv
      <3>4. \A i \in DOMAIN events : events[i].kind = "list" =>
                events[i].generations[c] = None
        <4> SUFFICES ASSUME NEW i \in DOMAIN events, events[i].kind = "list"
                     PROVE  events[i].generations[c] = None
          OBVIOUS
        <4>1. i \in Pending(events, c)
          BY DEF Pending, About
        <4> QED BY <3>3, <4>1 DEF GenerationIn
      <3>5. Grown(events', c, crd)
        <4>1. \A i \in Pending(events', c) : NotAhead(GenerationIn(events'[i], c), crd)
          <5>1. NotAhead(GenerationIn(event, c), crd)
            BY <1>4, <3>1 DEF NotAhead, Evolves
          <5> QED BY <1>6, <3>3, <5>1 DEF NotAhead
        <4>2. \A i \in DOMAIN events' : events'[i].kind = "list" =>
                  events'[i].generations[c] = None
          BY <1>6, <3>4 DEF Evolves
        <4>3. crd.generation # None
          BY <1>4, <3>1
        <4> QED BY <4>1, <4>2, <4>3 DEF Grown
      <3>6. ToldIfKnown(c)'
        BY <1>2, <1>4, <3>1, <3>3, <2>2 DEF ToldIfKnown
      <3> QED BY <1>2, <2>2, <3>1, <3>3, <3>5, <3>6 DEF NotAhead
    <2>3. CASE d = c /\ server[c] # None
      <3>1. /\ crd # None /\ server'[c] = crd /\ c \notin unusual
            /\ server[c].generation \in Nat /\ ShapesNow[c] = server[c].shape
        BY <1>3, <1>7, <1>9, <1>14, <2>3, ServerTypes
      <3>2. /\ server[c].generation <= crd.generation
            /\ crd.generation = server[c].generation => crd.shape = server[c].shape
            /\ crd.generation \in Nat
        BY <1>4, <2>3, <3>1 DEF Evolves
      <3>3. crd.shape # server[c].shape => crd.shape \notin past[c]
        BY <1>2, <1>14, <2>3, <3>1
      <3>4. /\ NotAhead(known.generations[c], server[c]) /\ Grown(events, c, server[c])
            /\ ToldIfKnown(c)
        BY <1>1, <2>3, <3>1 DEF NewsInv
      <3>5. \A g \in MaybeNat : NotAhead(g, server[c]) =>
               /\ NotAhead(g, crd)
               /\ g = crd.generation => g = server[c].generation /\ crd.shape = server[c].shape
        BY <3>1, <3>2 DEF NotAhead, MaybeNat
      <3>6. known.generations[c] \in MaybeNat
        BY <1>3
      <3>7. Grown(events', c, crd)
        <4>1. \A i \in DOMAIN events : events[i] \in Event
          BY <1>3
        <4>2. \A i \in Pending(events, c) : NotAhead(GenerationIn(events[i], c), crd)
          BY <3>4, <3>5, <4>1, GenerationInType DEF Grown, Pending
        <4>3. NotAhead(GenerationIn(event, c), crd)
          BY <1>4, <3>1 DEF NotAhead, Evolves
        <4>4. ASSUME NEW i \in DOMAIN events, events[i].kind = "list",
                     events[i].generations[c] = crd.generation
              PROVE  events[i].shapes[c] = crd.shape
          <5>1. i \in Pending(events, c)
            BY <4>4 DEF Pending, About
          <5>2. GenerationIn(events[i], c) = crd.generation
            BY <4>4 DEF GenerationIn
          <5>3. crd.generation = server[c].generation /\ crd.shape = server[c].shape
            BY <3>2, <3>4, <3>5, <5>1, <5>2 DEF Grown, MaybeNat
          <5> QED BY <3>4, <4>4, <5>3 DEF Grown
        <4> QED BY <1>6, <4>2, <4>3, <4>4 DEF Grown, Evolves
      <3>8. ToldIfKnown(c)'
        <4>1. known.generations[c] = crd.generation => told[c] = crd.shape
          BY <3>4, <3>5, <3>6 DEF ToldIfKnown
        <4>2. known.shapes[c] = crd.shape => told[c] = crd.shape
          <5>1. known.shapes[c] \in past[c] \union {None} /\ crd.shape # None
            BY <1>1, <1>4, <3>1 DEF PastInv
          <5> QED BY <3>3, <3>4, <5>1 DEF ToldIfKnown
        <4> QED BY <1>2, <3>1, <4>1, <4>2 DEF ToldIfKnown
      <3> QED BY <1>2, <2>3, <3>1, <3>4, <3>5, <3>6, <3>7, <3>8
    <2> QED BY <2>1, <2>2, <2>3
  <1>15. NewsInv'
    BY <1>14 DEF NewsInv
  <1> QED BY <1>10, <1>11, <1>12, <1>13, <1>15 DEF IInv

(* The server creates, serves, changes or deletes a CRD. *)
LEMMA ServerInv ==
    ASSUME IInv, Server
    PROVE  IInv'
  <1>1. server \in [CRDs -> Crd \union {None}]
    BY DEF IInv, TypeOK
  <1>2. PICK c \in CRDs : \/ \E s \in Shapes : Create(c, s) \/ ChangeSpec(c, s)
                          \/ Establish(c) \/ Delete(c)
    BY DEF Server
  <1>3. \A g \in Nat : /\ Applies(c, g) \in Event /\ Applies(c, g).kind # "list"
                       /\ Applies(c, g).crd = c /\ GenerationIn(Applies(c, g), c) = g
    BY DEF Applies, Event, GenerationIn
  <1>4. ASSUME NEW s \in Shapes, Create(c, s)
        PROVE  IInv'
    <2> DEFINE crd == [generation |-> 1, shape |-> s, established |-> FALSE]
    <2>1. crd \in Crd /\ crd.generation = 1
      BY DEF Crd
    <2>2. server[c] = None /\ Change(c, crd, Applies(c, 1))
      BY <1>4 DEF Create
    <2>3. crd # None
      BY <2>1
    <2> HIDE DEF crd
    <2>4. Evolves(c, crd, Applies(c, 1))
      BY <1>3, <2>1, <2>2, <2>3 DEF Evolves
    <2> QED BY <2>2, <2>4, ChangeInv
  <1>5. ASSUME NEW s \in Shapes, ChangeSpec(c, s)
        PROVE  IInv'
    <2> DEFINE crd == [server[c] EXCEPT !.generation = @ + 1, !.shape = s]
    <2>1. server[c] # None /\ Change(c, crd, Applies(c, server[c].generation + 1))
      BY <1>5 DEF ChangeSpec, Names
    <2>2. server[c] \in Crd /\ server[c].generation \in Nat
      BY <1>1, <2>1, ServerTypes
    <2>3. crd \in Crd /\ crd.generation = server[c].generation + 1
      <3>1. PICK g \in Nat : g = server[c].generation + 1
        BY <2>2
      <3>2. crd = [server[c] EXCEPT !.generation = g, !.shape = s]
        BY <3>1
      <3> HIDE DEF crd
      <3> QED BY <2>2, <3>1, <3>2 DEF Crd
    <2>4. crd # None
      BY <2>3
    <2> HIDE DEF crd
    <2>5. Evolves(c, crd, Applies(c, server[c].generation + 1))
      BY <1>3, <2>1, <2>2, <2>3, <2>4 DEF Evolves
    <2> QED BY <2>1, <2>5, ChangeInv
  <1>6. CASE Establish(c)
    <2> DEFINE crd == [server[c] EXCEPT !.established = TRUE]
    <2>1. server[c] # None /\ Change(c, crd, Applies(c, server[c].generation))
      BY <1>6 DEF Establish, Names
    <2>2. server[c] \in Crd /\ server[c].generation \in Nat
      BY <1>1, <2>1, ServerTypes
    <2>3. /\ crd \in Crd /\ crd.generation = server[c].generation
          /\ crd.shape = server[c].shape
      BY <2>2 DEF Crd
    <2>4. crd # None
      BY <2>3
    <2> HIDE DEF crd
    <2>5. Evolves(c, crd, Applies(c, server[c].generation))
      BY <1>3, <2>1, <2>2, <2>3, <2>4 DEF Evolves
    <2> QED BY <2>1, <2>5, ChangeInv
  <1>7. CASE Delete(c)
    <2> DEFINE event == [kind |-> "delete", crd |-> c]
    <2>1. server[c] # None /\ Change(c, None, event)
      BY <1>7 DEF Delete, Names
    <2>2. /\ event \in Event /\ event.kind # "list" /\ event.crd = c
          /\ GenerationIn(event, c) = None
      BY DEF Event, GenerationIn
    <2> HIDE DEF event
    <2>3. Evolves(c, None, event)
      BY <2>1, <2>2 DEF Evolves
    <2> QED BY <2>1, <2>3, ChangeInv
  <1> QED BY <1>2, <1>4, <1>5, <1>6, <1>7

-----------------------------------------------------------------------------
(* The queue after a list, or after a break: what holds of the host and of  *)
(* the server stays.                                                        *)
LEMMA StreamSteps ==
    ASSUME IInv, Lists \/ Breaks \/ Forbidden
    PROVE  IInv'
  <1>1. /\ TypeOK /\ RunsInv /\ UnservedIsRetriedUnlessFailed
        /\ PastInv /\ StreamInv /\ NewsInv
        /\ server \in [CRDs -> Crd \union {None}]
    BY DEF IInv, TypeOK
  <1>2. /\ UNCHANGED <<known, told, lists>>
        /\ UNCHANGED <<server, changes, past, unusual>> /\ UNCHANGED hostVars
    BY DEF Lists, Breaks, Forbidden, serverVars
  <1>3. RunsInv' /\ UnservedIsRetriedUnlessFailed'
    BY <1>1, <1>2 DEF RunsInv, UnservedIsRetriedUnlessFailed, UnservedIsRetried, hostVars
  <1>4. UNCHANGED <<crds, retries, discovery, tasks, runs, batches, failed>>
    BY <1>2 DEF hostVars
  <1>5. UNCHANGED Generations
    BY <1>2 DEF Generations, Names
  <1>6. CASE Lists
    <2> DEFINE e == [kind |-> "list", generations |-> Generations, shapes |-> ShapesNow]
    <2>1. /\ e \in Event /\ e.kind = "list" /\ e.generations = Generations
          /\ e.shapes = ShapesNow
      BY <1>1, ServerTypes DEF Event
    <2>2. events' = <<e>> /\ stream' = "watching" /\ UNCHANGED breaks
      BY <1>6 DEF Lists
    <2> HIDE DEF e
    <2>3. /\ events' \in Seq(Event) /\ DOMAIN events' = {1} /\ events'[1] = e
      BY <2>1, <2>2
    <2>4. \A c \in CRDs : Pending(events', c) = {1} /\ GenerationIn(e, c) = Generations[c]
      BY <2>1, <2>3 DEF Pending, About, GenerationIn
    <2>5. TypeOK'
      BY <1>1, <1>2, <1>4, <2>2, <2>3 DEF TypeOK
    <2>6. PastInv'
      <3>1. \A c \in CRDs : past[c] = {} => GenerationIn(events'[1], c) = None
        BY <1>1, <2>3, <2>4, ServerTypes DEF PastInv
      <3> QED BY <1>1, <1>2, <2>4, <3>1 DEF PastInv
    <2>7. StreamInv'
      <3>1. \A c \in CRDs : Leaves(events', c, known'.generations[c], Generations'[c])
        BY <1>5, <2>3, <2>4 DEF Leaves
      <3> QED BY <2>2, <3>1 DEF StreamInv
    <2>8. ASSUME NEW c \in CRDs, server[c] # None
          PROVE  Grown(events', c, server[c])
      <3>1. server[c].generation \in Nat /\ Generations[c] = server[c].generation
            /\ ShapesNow[c] = server[c].shape
        BY <1>1, <2>8, ServerTypes
      <3> QED BY <2>1, <2>3, <2>4, <3>1 DEF Grown, NotAhead
    <2>9. NewsInv'
      BY <1>1, <1>2, <2>8 DEF NewsInv, ToldIfKnown
    <2> QED BY <1>3, <2>5, <2>6, <2>7, <2>9 DEF IInv
  <1>7. CASE Breaks \/ Forbidden
    <2>1. /\ events' = <<>> /\ stream' \in {"listing", "ended"}
          /\ breaks' \in 0..MaxBreaks
      BY <1>1, <1>7 DEF Breaks, Forbidden, TypeOK
    <2>2. events' \in Seq(Event) /\ \A c : Pending(events', c) = {}
      BY <2>1 DEF Pending
    <2>3. TypeOK'
      BY <1>1, <1>2, <1>4, <2>1, <2>2 DEF TypeOK
    <2>4. PastInv'
      BY <1>1, <1>2, <2>2 DEF PastInv
    <2>5. StreamInv'
      BY <2>1 DEF StreamInv
    <2>6. \A c, crd : Grown(events', c, crd)
      BY <2>1, <2>2 DEF Grown
    <2>7. NewsInv'
      BY <1>1, <1>2, <2>6 DEF NewsInv, ToldIfKnown
    <2> QED BY <1>3, <2>3, <2>4, <2>5, <2>7 DEF IInv
  <1> QED BY <1>6, <1>7

-----------------------------------------------------------------------------
KnownType == [generations : [CRDs -> MaybeNat], shapes : [CRDs -> MaybeShape],
              ready : BOOLEAN]

(* What taking an event e does, in sum: generations are those of the event, *)
(* shapes are kept, forgotten or fetched, and when nothing is told then     *)
(* every generation that changed has the shape of before.                   *)
Learns(e) ==
    /\ known' \in KnownType /\ known'.ready /\ lists' \in Seq(SUBSET CRDs)
    /\ \A c \in CRDs : IF About(e, c) THEN known'.generations[c] = GenerationIn(e, c)
                       ELSE known'.generations[c] = known.generations[c]
    /\ \A c \in CRDs : known'.shapes[c] \in {known.shapes[c], None, ShapesNow[c]}
    /\ \/ told' = ShapesNow
       \/ ~known.ready /\ e.kind = "list" /\ told' = e.shapes /\ known'.shapes = known.shapes
       \/ /\ told' = told
          /\ \A c \in CRDs :
                \/ known'.generations[c] \in {known.generations[c], None}
                     /\ known'.shapes[c] \in {known.shapes[c], None}
                \/ known.shapes[c] = ShapesNow[c]

(* `Knows`, for the parts of `known` one by one. *)
LEMMA KnowsOK ==
    ASSUME NEW g \in [CRDs -> MaybeNat], NEW shapes \in [CRDs -> MaybeShape],
           NEW changed \in BOOLEAN, NEW at, Knows(g, shapes, changed, at),
           lists \in Seq(SUBSET CRDs)
    PROVE  /\ known' \in KnownType /\ known'.ready /\ lists' \in Seq(SUBSET CRDs)
           /\ known'.generations = g /\ known'.shapes = shapes
           /\ told' = IF changed THEN at ELSE told
  <1>1. known' = [generations |-> g, shapes |-> shapes, ready |-> TRUE]
        /\ told' = IF changed THEN at ELSE told
    BY DEF Knows
  <1>2. known' \in KnownType /\ known'.ready /\ known'.generations = g
        /\ known'.shapes = shapes
    BY <1>1 DEF KnownType
  <1>3. lists' \in Seq(SUBSET CRDs)
    <2>1. {c \in CRDs : g[c] # None} \in SUBSET CRDs
      OBVIOUS
    <2> QED BY <2>1 DEF Knows
  <1> QED BY <1>1, <1>2, <1>3

(* A fetch shows the shape of the moment or fails; a shape that did not     *)
(* change was fetched, and is the one known before.                         *)
LEMMA FetchedOK ==
    ASSUME server \in [CRDs -> Crd \union {None}], NEW c \in CRDs, NEW S
    PROVE  /\ Fetched(c, c \in S) \in {None, ShapesNow[c]}
           /\ Fetched(c, c \in S) \in MaybeShape
           /\ ShapeChanged(c, c \in S) \in BOOLEAN
           /\ ~ShapeChanged(c, c \in S) => known.shapes[c] = ShapesNow[c]
  <1>1. ShapesNow[c] \in MaybeShape /\ None \in MaybeShape
    BY ServerTypes DEF MaybeShape
  <1> QED BY <1>1 DEF Fetched, ShapeChanged

(* A list. *)
LEMMA TakeListLearns ==
    ASSUME TypeOK, NEW e \in Event, e.kind = "list", NEW read \in SUBSET CRDs,
           TakeList(e, read)
    PROVE  Learns(e)
  <1> DEFINE g == e.generations
             bumped == {c \in CRDs : known.generations[c] # g[c]}
             gone == [c \in CRDs |-> IF g[c] # None /\ c \notin bumped
                                     THEN known.shapes[c] ELSE None]
             fetched == [c \in CRDs |-> IF c \in bumped THEN Fetched(c, c \in read)
                                        ELSE known.shapes[c]]
             changed == \E c \in bumped : ShapeChanged(c, c \in read)
  <1>1. /\ server \in [CRDs -> Crd \union {None}] /\ known \in KnownType
        /\ lists \in Seq(SUBSET CRDs)
    BY DEF TypeOK, KnownType
  <1>2. /\ known.generations \in [CRDs -> MaybeNat]
        /\ known.shapes \in [CRDs -> MaybeShape] /\ None \in MaybeShape
    BY <1>1 DEF KnownType, MaybeShape
  <1>3. g \in [CRDs -> MaybeNat] /\ \A c \in CRDs : About(e, c) /\ GenerationIn(e, c) = g[c]
    BY EventKinds DEF About, GenerationIn
  <1>4. \A c \in CRDs : /\ Fetched(c, c \in read) \in {None, ShapesNow[c]}
                        /\ Fetched(c, c \in read) \in MaybeShape
                        /\ ~ShapeChanged(c, c \in read) => known.shapes[c] = ShapesNow[c]
    BY <1>1, FetchedOK
  <1>5. /\ gone \in [CRDs -> MaybeShape] /\ fetched \in [CRDs -> MaybeShape]
        /\ changed \in BOOLEAN
    BY <1>2, <1>4
  <1>6. CASE ~known.ready
    <2>1. Knows(g, known.shapes, TRUE, e.shapes)
      BY <1>6 DEF TakeList
    <2>2. /\ known' \in KnownType /\ known'.ready /\ lists' \in Seq(SUBSET CRDs)
          /\ known'.generations = g /\ known'.shapes = known.shapes /\ told' = e.shapes
      BY <1>1, <1>2, <1>3, <2>1, KnowsOK
    <2> QED BY <1>3, <1>6, <2>2 DEF Learns
  <1>7. CASE known.ready /\ \E c \in bumped : None \in {g[c], known.generations[c]}
    <2>1. Knows(g, gone, TRUE, ShapesNow)
      BY <1>7 DEF TakeList
    <2> HIDE DEF gone
    <2>2. /\ known' \in KnownType /\ known'.ready /\ lists' \in Seq(SUBSET CRDs)
          /\ known'.generations = g /\ known'.shapes = gone /\ told' = ShapesNow
      BY <1>1, <1>3, <1>5, <2>1, KnowsOK
    <2>3. \A c \in CRDs : gone[c] \in {known.shapes[c], None}
      BY DEF gone
    <2> QED BY <1>3, <2>2, <2>3 DEF Learns
  <1>8. CASE known.ready /\ ~\E c \in bumped : None \in {g[c], known.generations[c]}
    <2>1. Knows(g, fetched, changed, ShapesNow)
      BY <1>8 DEF TakeList
    <2> HIDE DEF fetched, changed
    <2>2. /\ known' \in KnownType /\ known'.ready /\ lists' \in Seq(SUBSET CRDs)
          /\ known'.generations = g /\ known'.shapes = fetched
          /\ told' = IF changed THEN ShapesNow ELSE told
      BY <1>1, <1>3, <1>5, <2>1, KnowsOK
    <2>3. \A c \in CRDs : fetched[c] \in {known.shapes[c], None, ShapesNow[c]}
      BY <1>4 DEF fetched
    <2>4. ~changed => \A c \in CRDs :
             \/ g[c] = known.generations[c] /\ fetched[c] = known.shapes[c]
             \/ known.shapes[c] = ShapesNow[c]
      BY <1>4 DEF fetched, changed
    <2> QED BY <1>3, <2>2, <2>3, <2>4 DEF Learns
  <1> QED BY <1>6, <1>7, <1>8

(* A CRD that was created or changed. *)
LEMMA TakeApplyLearns ==
    ASSUME TypeOK, NEW e \in Event, e.kind = "apply", NEW read \in SUBSET CRDs,
           TakeApply(e, read)
    PROVE  Learns(e)
  <1>0. PICK c \in CRDs : c = e.crd
    BY EventKinds
  <1> DEFINE g == [known.generations EXCEPT ![c] = e.generation]
             fetched == [known.shapes EXCEPT ![c] = Fetched(c, c \in read)]
             changed == ShapeChanged(c, c \in read)
  <1>1. /\ server \in [CRDs -> Crd \union {None}] /\ known \in KnownType
        /\ lists \in Seq(SUBSET CRDs)
    BY DEF TypeOK, KnownType
  <1>2. /\ known.generations \in [CRDs -> MaybeNat]
        /\ known.shapes \in [CRDs -> MaybeShape]
    BY <1>1 DEF KnownType
  <1>3. /\ e.generation \in MaybeNat
        /\ \A d \in CRDs : /\ About(e, d) <=> d = c
                           /\ d = c => GenerationIn(e, d) = e.generation
    BY <1>0, EventKinds DEF About, GenerationIn, MaybeNat
  <1>4. /\ g \in [CRDs -> MaybeNat] /\ g[c] = e.generation
        /\ \A d \in CRDs : d # c => g[d] = known.generations[d]
    BY <1>2, <1>3
  <1>5. \A d \in CRDs : IF About(e, d) THEN g[d] = GenerationIn(e, d)
                        ELSE g[d] = known.generations[d]
    BY <1>3, <1>4
  <1>6. /\ Fetched(c, c \in read) \in {None, ShapesNow[c]}
        /\ Fetched(c, c \in read) \in MaybeShape /\ changed \in BOOLEAN
        /\ ~changed => known.shapes[c] = ShapesNow[c]
    BY <1>1, FetchedOK
  <1>7. /\ fetched \in [CRDs -> MaybeShape]
        /\ \A d \in CRDs : d # c => fetched[d] = known.shapes[d]
        /\ fetched[c] \in {None, ShapesNow[c]}
    BY <1>2, <1>6
  <1> HIDE DEF g, fetched, changed
  <1>8. CASE known.generations[c] = None
    <2>1. Knows(g, known.shapes, TRUE, ShapesNow)
      BY <1>0, <1>8 DEF TakeApply, g
    <2>2. /\ known' \in KnownType /\ known'.ready /\ lists' \in Seq(SUBSET CRDs)
          /\ known'.generations = g /\ known'.shapes = known.shapes /\ told' = ShapesNow
      BY <1>1, <1>2, <1>4, <2>1, KnowsOK
    <2> QED BY <1>5, <2>2 DEF Learns
  <1>9. CASE known.generations[c] # None /\ known.generations[c] = e.generation
    <2>1. Knows(g, known.shapes, FALSE, told)
      BY <1>0, <1>9 DEF TakeApply, g
    <2>2. /\ known' \in KnownType /\ known'.ready /\ lists' \in Seq(SUBSET CRDs)
          /\ known'.generations = g /\ known'.shapes = known.shapes /\ told' = told
      BY <1>1, <1>2, <1>4, <2>1, KnowsOK
    <2>3. \A d \in CRDs : g[d] = known.generations[d]
      BY <1>4, <1>9
    <2> QED BY <1>5, <2>2, <2>3 DEF Learns
  <1>10. CASE known.generations[c] # None /\ known.generations[c] # e.generation
    <2>1. Knows(g, fetched, changed, ShapesNow)
      BY <1>0, <1>10 DEF TakeApply, g, fetched, changed
    <2>2. /\ known' \in KnownType /\ known'.ready /\ lists' \in Seq(SUBSET CRDs)
          /\ known'.generations = g /\ known'.shapes = fetched
          /\ told' = IF changed THEN ShapesNow ELSE told
      BY <1>1, <1>4, <1>6, <1>7, <2>1, KnowsOK
    <2>3. \A d \in CRDs : fetched[d] \in {known.shapes[d], None, ShapesNow[d]}
      BY <1>7
    <2>4. ~changed => \A d \in CRDs :
             \/ g[d] = known.generations[d] /\ fetched[d] = known.shapes[d]
             \/ known.shapes[d] = ShapesNow[d]
      BY <1>4, <1>6, <1>7
    <2> QED BY <1>5, <2>2, <2>3, <2>4 DEF Learns
  <1> QED BY <1>8, <1>9, <1>10

(* A CRD that was deleted. *)
LEMMA TakeDeleteLearns ==
    ASSUME TypeOK, NEW e \in Event, e.kind = "delete", TakeDelete(e)
    PROVE  Learns(e)
  <1>0. PICK c \in CRDs : c = e.crd
    BY EventKinds
  <1> DEFINE g == [known.generations EXCEPT ![c] = None]
             shapes == [known.shapes EXCEPT ![c] = None]
             changed == known.generations[c] # None
  <1>1. known \in KnownType /\ lists \in Seq(SUBSET CRDs)
    BY DEF TypeOK, KnownType
  <1>2. /\ known.generations \in [CRDs -> MaybeNat]
        /\ known.shapes \in [CRDs -> MaybeShape] /\ None \in MaybeNat /\ None \in MaybeShape
    BY <1>1 DEF KnownType, MaybeNat, MaybeShape
  <1>3. \A d \in CRDs : /\ About(e, d) <=> d = c
                        /\ d = c => GenerationIn(e, d) = None
    BY <1>0, EventKinds DEF About, GenerationIn
  <1>4. /\ g \in [CRDs -> MaybeNat] /\ shapes \in [CRDs -> MaybeShape]
        /\ \A d \in CRDs : IF d = c THEN g[d] = None /\ shapes[d] = None
                           ELSE g[d] = known.generations[d] /\ shapes[d] = known.shapes[d]
    BY <1>2
  <1>5. Knows(g, shapes, changed, ShapesNow)
    BY <1>0 DEF TakeDelete
  <1> HIDE DEF g, shapes
  <1>6. /\ known' \in KnownType /\ known'.ready /\ lists' \in Seq(SUBSET CRDs)
        /\ known'.generations = g /\ known'.shapes = shapes
        /\ told' = IF changed THEN ShapesNow ELSE told
    BY <1>1, <1>4, <1>5, KnowsOK
  <1>7. \A d \in CRDs : IF About(e, d) THEN g[d] = GenerationIn(e, d)
                        ELSE g[d] = known.generations[d]
    BY <1>3, <1>4
  <1>8. \A d \in CRDs : /\ g[d] \in {known.generations[d], None}
                        /\ shapes[d] \in {known.shapes[d], None}
    BY <1>4
  <1> QED BY <1>6, <1>7, <1>8 DEF Learns

(* An event that is taken: what it leaves known was told. *)
LEMMA TakeEventInv ==
    ASSUME IInv, NEW read \in SUBSET CRDs, TakeEvent(read)
    PROVE  IInv'
  <1>1. /\ TypeOK /\ RunsInv /\ UnservedIsRetriedUnlessFailed
        /\ PastInv /\ StreamInv /\ NewsInv
    BY DEF IInv
  <1>2. /\ server \in [CRDs -> Crd \union {None}] /\ events \in Seq(Event)
        /\ events # <<>> /\ events' = Tail(events)
        /\ UNCHANGED <<stream, breaks>> /\ UNCHANGED hostVars
        /\ UNCHANGED <<server, changes, past, unusual>>
    BY <1>1 DEF TakeEvent, TypeOK, serverVars
  <1>3. PICK e \in Event : e = Head(events)
    BY <1>2
  <1>4. Learns(e)
    <2>1. \/ e.kind = "list" /\ TakeList(e, read)
          \/ e.kind = "apply" /\ TakeApply(e, read)
          \/ e.kind = "delete" /\ TakeDelete(e)
      BY <1>3, EventKinds DEF TakeEvent
    <2> QED BY <1>1, <2>1, TakeListLearns, TakeApplyLearns, TakeDeleteLearns
  <1>5. UNCHANGED <<crds, retries, discovery, tasks, runs, batches, failed>>
    BY <1>2 DEF hostVars
  <1>6. ShapesNow \in [CRDs -> MaybeShape]
        /\ (e.kind = "list" => e.shapes \in [CRDs -> MaybeShape])
    BY <1>2, ServerTypes, EventKinds
  <1>7. /\ DOMAIN events = 1..Len(events) /\ Len(events) \in Nat /\ Len(events) > 0
        /\ events[1] = e /\ events' \in Seq(Event)
    BY <1>2, <1>3
  <1>8. TypeOK'
    <2>1. told' \in [CRDs -> MaybeShape]
      BY <1>1, <1>4, <1>6 DEF Learns, TypeOK
    <2>2. known' \in KnownType /\ lists' \in Seq(SUBSET CRDs)
      BY <1>4 DEF Learns
    <2> QED BY <1>1, <1>2, <1>5, <1>7, <2>1, <2>2 DEF TypeOK, KnownType
  <1>9. RunsInv' /\ UnservedIsRetriedUnlessFailed'
    BY <1>1, <1>5 DEF RunsInv, UnservedIsRetriedUnlessFailed, UnservedIsRetried
  <1>10. \A c \in CRDs : About(e, c) => 1 \in Pending(events, c)
    BY <1>7 DEF Pending
  <1>11. PastInv'
    <2>1. \A c \in CRDs : ShapesNow[c] \in past[c] \union {None}
      BY <1>1, <1>2, ServerTypes DEF PastInv
    <2>2. \A c \in CRDs : known'.shapes[c] \in past[c] \union {None}
      BY <1>1, <1>4, <2>1 DEF PastInv, Learns
    <2>3. ASSUME NEW c \in CRDs, past[c] = {}
          PROVE  /\ known'.generations[c] = None
                 /\ \A i \in Pending(events', c) : GenerationIn(events'[i], c) = None
      <3>1. /\ known.generations[c] = None
            /\ \A i \in Pending(events, c) : GenerationIn(events[i], c) = None
        BY <1>1, <2>3 DEF PastInv
      <3>2. known'.generations[c] = None
        BY <1>4, <1>7, <1>10, <3>1 DEF Learns
      <3>3. \A i \in Pending(events', c) : i + 1 \in Pending(events, c)
                                           /\ events'[i] = events[i + 1]
        BY <1>2, GrownTail
      <3> QED BY <3>1, <3>2, <3>3
    <2>4. known'.ready
      BY <1>4 DEF Learns
    <2> QED BY <1>1, <1>2, <2>2, <2>3, <2>4 DEF PastInv
  <1>12. StreamInv'
    <2>1. stream = "watching"
      BY <1>1, <1>2 DEF StreamInv
    <2>2. UNCHANGED Generations
      BY <1>2 DEF Generations, Names
    <2>3. ASSUME NEW c \in CRDs
          PROVE  Leaves(events', c, known'.generations[c], Generations'[c])
      <3>1. Leaves(events, c, known.generations[c], Generations[c])
        BY <1>1, <2>1 DEF StreamInv
      <3>2. IF About(e, c) THEN known'.generations[c] = GenerationIn(e, c)
            ELSE known'.generations[c] = known.generations[c]
        BY <1>4 DEF Learns
      <3>3. Leaves(Tail(events), c, known'.generations[c], Generations[c])
        BY <1>2, <1>3, <3>1, <3>2, LeavesTail
      <3> QED BY <1>2, <2>2, <3>3
    <2> QED BY <1>2, <2>1, <2>3 DEF StreamInv
  <1>13. ASSUME NEW c \in CRDs, server[c] # None, c \notin unusual
         PROVE  /\ NotAhead(known'.generations[c], server[c])
                /\ Grown(events', c, server[c])
                /\ ToldIfKnown(c)'
    <2>1. /\ NotAhead(known.generations[c], server[c]) /\ Grown(events, c, server[c])
          /\ ToldIfKnown(c)
      BY <1>1, <1>13 DEF NewsInv
    <2>2. Grown(events', c, server[c])
      BY <1>2, <2>1, GrownTail
    <2>3. NotAhead(known'.generations[c], server[c])
      BY <1>4, <1>7, <1>10, <2>1 DEF Learns, Grown
    <2>4. /\ ShapesNow[c] = server[c].shape /\ server[c].shape \in Shapes
          /\ server[c].generation \in Nat
      BY <1>2, <1>13, ServerTypes
    <2>5. server[c].shape # None /\ server[c].generation # None
      BY <2>4
    <2>6. ToldIfKnown(c)'
      <3>1. CASE told' = ShapesNow
        BY <1>2, <2>4, <3>1 DEF ToldIfKnown
      <3>2. CASE /\ ~known.ready /\ e.kind = "list" /\ told' = e.shapes
                 /\ known'.shapes = known.shapes
        <4>1. known'.shapes[c] # server[c].shape
          BY <1>1, <2>5, <3>2 DEF PastInv
        <4>2. known'.generations[c] = e.generations[c]
          BY <1>4, <3>2 DEF Learns, About, GenerationIn
        <4>3. e.generations[c] = server[c].generation => e.shapes[c] = server[c].shape
          BY <1>7, <2>1, <3>2 DEF Grown
        <4> QED BY <1>2, <3>2, <4>1, <4>2, <4>3 DEF ToldIfKnown
      <3>3. CASE /\ told' = told
                 /\ \/ known'.generations[c] \in {known.generations[c], None}
                         /\ known'.shapes[c] \in {known.shapes[c], None}
                    \/ known.shapes[c] = ShapesNow[c]
        BY <1>2, <2>1, <2>4, <2>5, <3>3 DEF ToldIfKnown
      <3> QED BY <1>4, <3>1, <3>2, <3>3 DEF Learns
    <2> QED BY <2>2, <2>3, <2>6
  <1>14. NewsInv'
    BY <1>2, <1>13 DEF NewsInv
  <1> QED BY <1>8, <1>9, <1>11, <1>12, <1>14 DEF IInv

-----------------------------------------------------------------------------
(* The host does not touch the server or the watch: what is known of them   *)
(* stays as it is.                                                          *)
LEMMA HostKeeps ==
    ASSUME IInv, UNCHANGED serverVars, UNCHANGED watchVars
    PROVE  PastInv' /\ StreamInv' /\ NewsInv'
  BY DEF IInv, PastInv, StreamInv, NewsInv, ToldIfKnown, Generations, Names, serverVars,
         watchVars

HostType ==
    /\ lists \in Seq(SUBSET CRDs)
    /\ crds \in (SUBSET CRDs) \union {None}
    /\ retries \in 0..UnservedRetries
    /\ discovery \in (SUBSET CRDs) \union {None}
    /\ tasks \in SUBSET Task
    /\ runs \in 0..MaxRuns /\ batches \in Nat /\ failed \in BOOLEAN

(* What is left to show of a step of the host. *)
LEMMA HostSuffices ==
    ASSUME IInv, UNCHANGED serverVars, UNCHANGED watchVars, HostType', RunsInv',
           UnservedIsRetriedUnlessFailed'
    PROVE  IInv'
  <1>1. TypeOK'
    BY DEF IInv, TypeOK, HostType, serverVars, watchVars
  <1> QED BY <1>1, HostKeeps DEF IInv

(* `rediscover_unserved` starts a timer, and counts it, if something listed *)
(* is not served and retries are left.                                      *)
LEMMA RediscoverOK ==
    ASSUME HostType, NEW listed, NEW found, NEW before \in SUBSET Task,
           RediscoverUnserved(listed, found, before)
    PROVE  /\ tasks' \in SUBSET Task /\ runs' \in 0..MaxRuns
           /\ retries' \in 0..UnservedRetries /\ runs' - retries' = runs - retries
           /\ runs' >= runs /\ (listed = None => runs' = runs)
           /\ /\ found # None /\ listed # None /\ ~(listed \subseteq found)
              /\ retries' < UnservedRetries
              => tasks' # {}
  <1>1. CASE /\ found # None /\ listed # None /\ ~(listed \subseteq found)
             /\ retries < UnservedRetries
    <2>1. /\ runs < MaxRuns /\ runs' = runs + 1 /\ retries' = retries + 1
          /\ tasks' = before \union {[kind |-> "timer", run |-> runs + 1]}
      BY <1>1 DEF RediscoverUnserved
    <2>2. [kind |-> "timer", run |-> runs + 1] \in Task
      BY DEF HostType, Task
    <2> QED BY <1>1, <2>1, <2>2 DEF HostType
  <1>2. CASE ~(/\ found # None /\ listed # None /\ ~(listed \subseteq found)
               /\ retries < UnservedRetries)
    BY <1>2 DEF RediscoverUnserved, HostType
  <1> QED BY <1>1, <1>2

(* The host takes a batch: the first one looks for CRDs that are not        *)
(* served, each later one starts over with a discovery.                     *)
LEMMA TakeListsInv ==
    ASSUME IInv, TakeLists
    PROVE  IInv'
  <1>1. /\ HostType /\ RunsInv
        /\ UNCHANGED serverVars /\ UNCHANGED watchVars /\ UNCHANGED <<discovery, failed>>
        /\ lists' = <<>> /\ batches' = batches + 1
    BY DEF IInv, TypeOK, HostType, TakeLists
  <1>2. PICK listed \in SUBSET CRDs : listed = Last(lists)
    BY <1>1 DEF TakeLists, HostType, Last
  <1>3. crds' = listed /\ lists' \in Seq(SUBSET CRDs) /\ batches' \in Nat
    BY <1>1, <1>2 DEF TakeLists, HostType
  <1>4. CASE batches > 0
    <2>1. /\ retries' = 0 /\ runs < MaxRuns /\ runs' = runs + 1
          /\ tasks' = tasks \union {[kind |-> "asking", run |-> runs + 1]}
      BY <1>4 DEF TakeLists, RunDiscovery
    <2>2. [kind |-> "asking", run |-> runs + 1] \in Task
      BY <1>1 DEF HostType, Task
    <2>3. HostType'
      BY <1>1, <1>3, <2>1, <2>2 DEF HostType
    <2>4. tasks' # {}
      BY <2>1
    <2>5. RunsInv'
      <3>1. runs <= (1 + UnservedRetries) * (batches - 1) + 1 + retries
        BY <1>1, <1>4 DEF RunsInv
      <3>2. (1 + UnservedRetries) * (batches - 1) + (1 + UnservedRetries)
              = (1 + UnservedRetries) * batches
        BY <1>1, <1>4 DEF HostType
      <3>3. PICK m \in Int : m = (1 + UnservedRetries) * (batches - 1)
        BY <1>1 DEF HostType
      <3>4. PICK n \in Int : n = (1 + UnservedRetries) * batches
        BY <1>1 DEF HostType
      <3>5. runs <= m + 1 + retries /\ m + (1 + UnservedRetries) = n
        BY <3>1, <3>2, <3>3, <3>4
      <3>6. runs + 1 <= n + 1
        BY <1>1, <3>5 DEF HostType
      <3>7. batches' - 1 = batches /\ batches' # 0
        BY <1>1 DEF HostType
      <3>8. (1 + UnservedRetries) * (batches' - 1) = n
        BY <3>4, <3>7
      <3> QED BY <2>1, <3>6, <3>7, <3>8 DEF RunsInv
    <2>6. UnservedIsRetriedUnlessFailed'
      BY <2>4 DEF UnservedIsRetriedUnlessFailed, UnservedIsRetried
    <2> QED BY <1>1, <2>3, <2>5, <2>6, HostSuffices
  <1>5. CASE ~(batches > 0)
    <2>1. RediscoverUnserved(listed, discovery, tasks) /\ tasks \in SUBSET Task
      BY <1>1, <1>2, <1>5 DEF TakeLists, HostType
    <2>2. batches = 0 /\ runs = 1 /\ retries = 0
      BY <1>1, <1>5 DEF RunsInv, HostType
    <2>3. /\ tasks' \in SUBSET Task /\ runs' \in 0..MaxRuns
          /\ retries' \in 0..UnservedRetries /\ runs' - retries' = runs - retries
          /\ /\ discovery # None /\ listed # None /\ ~(listed \subseteq discovery)
             /\ retries' < UnservedRetries
             => tasks' # {}
      BY <1>1, <2>1, RediscoverOK
    <2>4. HostType'
      BY <1>1, <1>3, <2>3 DEF HostType
    <2>5. RunsInv'
      <3>1. batches' = 1 /\ runs' = 1 + retries'
        BY <1>1, <2>2, <2>3
      <3>2. (1 + UnservedRetries) * (batches' - 1) = 0
        BY <3>1
      <3>3. PICK r \in Nat : r = retries'
        BY <2>3
      <3>4. PICK n \in Nat : n = runs'
        BY <2>3
      <3>5. n = 1 + r
        BY <3>1, <3>3, <3>4
      <3>6. n <= 0 + 1 + r
        BY <3>5
      <3>7. batches' # 0
        BY <3>1
      <3> QED BY <3>2, <3>3, <3>4, <3>6, <3>7 DEF RunsInv
    <2>6. UnservedIsRetriedUnlessFailed'
      BY <1>1, <1>3, <2>3 DEF UnservedIsRetriedUnlessFailed, UnservedIsRetried
    <2> QED BY <1>1, <2>4, <2>5, <2>6, HostSuffices
  <1> QED BY <1>4, <1>5

(* A task goes on, or ends: a discovery that is done looks for CRDs that    *)
(* are not served, one that failed does not.                                *)
LEMMA TaskInv ==
    ASSUME IInv, NEW t \in tasks,
           TimerFires(t) \/ Discover(t) \/ DiscoveryDone(t) \/ DiscoveryFails(t)
    PROVE  IInv'
  <1>1. /\ HostType /\ RunsInv /\ UnservedIsRetriedUnlessFailed
        /\ UNCHANGED serverVars /\ UNCHANGED watchVars /\ UNCHANGED <<lists, crds, batches>>
    BY DEF IInv, TypeOK, HostType, TimerFires, Discover, DiscoveryDone, DiscoveryFails
  <1>2. t \in Task /\ tasks \ {t} \in SUBSET Task
    BY <1>1 DEF HostType
  <1>3. t.run \in Nat /\ (t.kind = "result" => t.found \in SUBSET CRDs)
    BY <1>2 DEF Task
  <1>4. CASE TimerFires(t) \/ Discover(t)
    <2>1. UNCHANGED <<retries, discovery, runs, failed>>
      BY <1>4 DEF TimerFires, Discover
    <2>2. Served \in SUBSET CRDs
      BY DEF Served, Names
    <2>3. PICK u \in Task : tasks' = (tasks \ {t}) \union {u}
      <3>1. CASE TimerFires(t)
        <4>1. [kind |-> "asking", run |-> t.run] \in Task
          BY <1>3 DEF Task
        <4> QED BY <3>1, <4>1 DEF TimerFires
      <3>2. CASE Discover(t)
        <4>1. [kind |-> "result", run |-> t.run, found |-> Served] \in Task
          BY <1>3, <2>2 DEF Task
        <4> QED BY <3>2, <4>1 DEF Discover
      <3> QED BY <1>4, <3>1, <3>2
    <2>4. HostType'
      BY <1>1, <1>2, <2>1, <2>3 DEF HostType
    <2>5. RunsInv'
      BY <1>1, <2>1 DEF RunsInv
    <2>6. UnservedIsRetriedUnlessFailed'
      BY <2>3 DEF UnservedIsRetriedUnlessFailed, UnservedIsRetried
    <2> QED BY <1>1, <2>4, <2>5, <2>6, HostSuffices
  <1>5. CASE DiscoveryFails(t)
    <2>1. failed' /\ tasks' = tasks \ {t} /\ UNCHANGED <<retries, discovery, runs>>
          /\ failed' \in BOOLEAN
      BY <1>5 DEF DiscoveryFails
    <2>2. HostType'
      BY <1>1, <1>2, <2>1 DEF HostType
    <2>3. RunsInv'
      BY <1>1, <2>1 DEF RunsInv
    <2>4. UnservedIsRetriedUnlessFailed'
      BY <2>1 DEF UnservedIsRetriedUnlessFailed
    <2> QED BY <1>1, <2>2, <2>3, <2>4, HostSuffices
  <1>6. CASE DiscoveryDone(t)
    <2>1. /\ t.kind = "result" /\ discovery' = t.found /\ UNCHANGED failed
          /\ RediscoverUnserved(crds, t.found, tasks \ {t})
      BY <1>6 DEF DiscoveryDone
    <2>2. /\ tasks' \in SUBSET Task /\ runs' \in 0..MaxRuns
          /\ retries' \in 0..UnservedRetries /\ runs' - retries' = runs - retries
          /\ runs' >= runs /\ (crds = None => runs' = runs)
          /\ /\ t.found # None /\ crds # None /\ ~(crds \subseteq t.found)
             /\ retries' < UnservedRetries
             => tasks' # {}
      BY <1>1, <1>2, <2>1, RediscoverOK
    <2>3. HostType'
      BY <1>1, <1>3, <2>1, <2>2 DEF HostType
    <2>4. RunsInv'
      <3>1. CASE batches = 0
        BY <1>1, <2>2, <3>1 DEF RunsInv, HostType
      <3>2. CASE batches # 0
        <4>1. PICK m \in Int : m = (1 + UnservedRetries) * (batches - 1)
          BY <1>1 DEF HostType
        <4>2. runs <= m + 1 + retries
          BY <1>1, <3>2, <4>1 DEF RunsInv, HostType
        <4>3. runs \in Int /\ retries \in Int /\ runs' \in Int /\ retries' \in Int
          BY <1>1, <2>2 DEF HostType
        <4>4. runs' - retries' = runs - retries
          BY <2>2
        <4>5. runs' <= m + 1 + retries'
          <5> SUFFICES ASSUME NEW n \in Int, NEW r \in Int, NEW n1 \in Int, NEW r1 \in Int,
                              n <= m + 1 + r, n1 - r1 = n - r
                       PROVE  n1 <= m + 1 + r1
            BY <4>2, <4>3, <4>4
          <5> QED OBVIOUS
        <4> QED BY <1>1, <3>2, <4>1, <4>5 DEF RunsInv
      <3> QED BY <3>1, <3>2
    <2>5. UnservedIsRetriedUnlessFailed'
      BY <1>1, <2>1, <2>2 DEF UnservedIsRetriedUnlessFailed, UnservedIsRetried
    <2> QED BY <1>1, <2>3, <2>4, <2>5, HostSuffices
  <1> QED BY <1>4, <1>5, <1>6

-----------------------------------------------------------------------------
(* When the cluster connects nothing is known, and one discovery is under   *)
(* way.                                                                     *)
LEMMA InitInv == Init => IInv
  <1> SUFFICES ASSUME Init
               PROVE  IInv
    OBVIOUS
  <1>1. server \in [CRDs -> Crd \union {None}]
    <2>1. \A s \in Shapes : [generation |-> 1, shape |-> s, established |-> TRUE] \in Crd
      BY DEF Crd
    <2> QED BY <2>1 DEF Init
  <1>2. /\ known.generations = [c \in CRDs |-> None]
        /\ known.shapes = [c \in CRDs |-> None] /\ known.ready = FALSE
        /\ known \in KnownType
    BY DEF Init, KnownType, MaybeNat, MaybeShape
  <1>3. past \in [CRDs -> SUBSET Shapes]
        /\ \A c \in CRDs : server[c] # None => server[c].shape \in past[c]
    BY <1>1, ServerTypes DEF Init
  <1>4. events = <<>> /\ events \in Seq(Event) /\ \A c : Pending(events, c) = {}
    BY DEF Init, Pending
  <1>5. [kind |-> "asking", run |-> 1] \in Task
    BY DEF Task
  <1>6. TypeOK
    <2>1. told \in [CRDs -> MaybeShape]
      BY DEF Init, MaybeShape
    <2>2. tasks \in SUBSET Task
      BY <1>5 DEF Init
    <2>3. lists \in Seq(SUBSET CRDs)
      BY DEF Init
    <2>4. runs \in 0..MaxRuns /\ retries \in 0..UnservedRetries /\ changes \in 0..MaxChanges
          /\ breaks \in 0..MaxBreaks
      BY DEF Init
    <2> QED BY <1>1, <1>2, <1>3, <1>4, <2>1, <2>2, <2>3, <2>4 DEF Init, TypeOK, KnownType
  <1>7. RunsInv /\ UnservedIsRetriedUnlessFailed
    BY DEF Init, RunsInv, UnservedIsRetriedUnlessFailed, UnservedIsRetried
  <1>8. PastInv
    BY <1>2, <1>3, <1>4 DEF PastInv
  <1>9. StreamInv
    BY <1>4 DEF Init, StreamInv
  <1>10. ASSUME NEW c \in CRDs, server[c] # None
         PROVE  /\ NotAhead(known.generations[c], server[c])
                /\ Grown(events, c, server[c]) /\ ToldIfKnown(c)
    <2>1. server[c].generation # None /\ server[c].shape # None
      BY <1>1, <1>10, ServerTypes
    <2> QED BY <1>2, <1>4, <2>1 DEF NotAhead, Grown, ToldIfKnown
  <1>11. NewsInv
    BY <1>10 DEF NewsInv
  <1> QED BY <1>6, <1>7, <1>8, <1>9, <1>11 DEF IInv

(* Every step keeps the invariant. *)
LEMMA Inductive == IInv /\ [Next]_vars => IInv'
  <1> SUFFICES ASSUME IInv, [Next]_vars
               PROVE  IInv'
    OBVIOUS
  <1>1. CASE UNCHANGED vars
    <2>1. /\ UNCHANGED serverVars /\ UNCHANGED watchVars
          /\ UNCHANGED <<lists, crds, retries, discovery, tasks, runs, batches, failed>>
      BY <1>1 DEF vars, hostVars
    <2>2. HostType' /\ RunsInv' /\ UnservedIsRetriedUnlessFailed'
      BY <2>1 DEF IInv, TypeOK, HostType, RunsInv, UnservedIsRetriedUnlessFailed,
         UnservedIsRetried
    <2> QED BY <2>1, <2>2, HostSuffices
  <1>2. CASE Next
    BY <1>2, ServerInv, StreamSteps, TakeEventInv, TakeListsInv, TaskInv
       DEF Next, Watch, Host
  <1> QED BY <1>1, <1>2

(* The inductive invariant holds in every reachable state: the events on    *)
(* their way lead to the generations of the server, what is known of a CRD  *)
(* as it is now was told, and runs are counted.                             *)
THEOREM Invariance == Spec => []IInv
  BY InitInv, Inductive, PTL DEF Spec

(* Every variable keeps to its type, for every number of CRDs and shapes.   *)
THEOREM TypeCorrect == Spec => []TypeOK
  <1>1. IInv => TypeOK
    BY DEF IInv
  <1> QED BY <1>1, Invariance, PTL

(* `watch_crds`: once it has caught up, a message was sent after the last   *)
(* change that discovery shows, whatever was lost, failed or came late.     *)
THEOREM ChangesAlwaysTold == Spec => []ChangesAreTold
  <1>1. IInv => ChangesAreTold
    <2> SUFFICES ASSUME IInv, CaughtUp, NEW c \in Names \ unusual
                 PROVE  told[c] = ShapesNow[c]
      BY DEF ChangesAreTold
    <2>1. /\ stream = "watching" /\ events = <<>> /\ c \in CRDs /\ server[c] # None
          /\ server \in [CRDs -> Crd \union {None}]
      BY DEF CaughtUp, Names, IInv, TypeOK
    <2>2. Leaves(events, c, known.generations[c], Generations[c]) /\ ToldIfKnown(c)
      BY <2>1 DEF IInv, StreamInv, NewsInv
    <2>3. Pending(events, c) = {}
      BY <2>1 DEF Pending
    <2>4. known.generations[c] = server[c].generation
      BY <2>1, <2>2, <2>3, ServerTypes DEF Leaves
    <2> QED BY <2>1, <2>2, <2>4, ServerTypes DEF ToldIfKnown
  <1> QED BY <1>1, Invariance, PTL

(* `rediscover_unserved`: while a listed CRD is not in discovery and        *)
(* retries are left, a discovery or its timer is under way, in whatever     *)
(* order overlapping discoveries end, unless one failed.                    *)
THEOREM UnservedAlwaysRetried == Spec => []UnservedIsRetriedUnlessFailed
  <1>1. IInv => UnservedIsRetriedUnlessFailed
    BY DEF IInv
  <1> QED BY <1>1, Invariance, PTL

(* A CRD that is never served does not keep discovery running: every batch  *)
(* costs one discovery and at most `UNSERVED_RETRIES` more.                 *)
THEOREM RunsAlwaysBounded == Spec => []RunsAreBounded
  <1>1. IInv => RunsAreBounded
    <2> SUFFICES ASSUME IInv
                 PROVE  RunsAreBounded
      OBVIOUS
    <2>1. /\ batches \in Nat /\ retries \in 0..UnservedRetries /\ runs \in 0..MaxRuns
          /\ RunsInv
      BY DEF IInv, TypeOK
    <2>2. CASE batches = 0
      <3>1. runs = 1
        BY <2>1, <2>2 DEF RunsInv
      <3>2. (1 + UnservedRetries) * 1 = 1 + UnservedRetries
        OBVIOUS
      <3> QED BY <2>2, <3>1, <3>2 DEF RunsAreBounded
    <2>3. CASE batches # 0
      <3>1. PICK m \in Int : m = (1 + UnservedRetries) * (batches - 1)
        BY <2>1
      <3>2. runs <= m + 1 + retries
        BY <2>1, <2>3, <3>1 DEF RunsInv
      <3>3. (1 + UnservedRetries) * batches = m + (1 + UnservedRetries)
        BY <2>1, <3>1
      <3>4. runs <= m + (1 + UnservedRetries)
        BY <2>1, <3>2
      <3> QED BY <2>3, <3>3, <3>4 DEF RunsAreBounded
    <2> QED BY <2>2, <2>3
  <1> QED BY <1>1, Invariance, PTL
=============================================================================
