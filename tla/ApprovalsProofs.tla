--------------------------- MODULE ApprovalsProofs ---------------------------
(***************************************************************************)
(* Proofs about Approvals, for any number of calls, documents and objects.  *)
(***************************************************************************)
EXTENDS Approvals, TLAPS

USE ApprovalsAssumption, NoneAssumption

(* What holds of a call by itself.  The documents of a call and what was    *)
(* reviewed of them stand still once a request was sent; at most one        *)
(* request waits for its result.                                            *)
CallOK(call) ==
    /\ call.phase \in {"new", "checking", "asking"} => call.sent = 0
    /\ call.phase # "ended" => call.outcome = None
    /\ Len(call.results) <= call.sent /\ call.sent <= Len(call.results) + 1
    /\ call.sent <= Len(call.docs) /\ Len(call.reviewed) <= Len(call.docs)
    /\ call.phase \in {"asking", "executing"} \/ call.sent > 0
         => Len(call.reviewed) = Len(call.docs)
    /\ call.kind # "apply" => /\ Len(call.docs) = 1
                              /\ \A i \in 1..Len(call.reviewed) : call.reviewed[i] # None
    /\ call.outcome \in {"off", "nothing", "refused", "rejected", "stopped"}
         => call.sent = 0
    /\ call.outcome = "done" =>
         /\ Len(call.results) = Len(call.docs)
         /\ \A i \in 1..Len(call.results) :
              call.results[i] = "ok" \/ (call.kind = "delete" /\ call.results[i] = "missing")

(* Nothing is sent without a yes of the user. *)
SaidOK(c) == (calls[c].decision = "Approved" \/ calls[c].phase = "executing"
                 \/ calls[c].sent > 0) => c \in said

(* Object o, as somebody saw it: a version stands for one state of it. *)
Seen(o, v) == v # None =>
    /\ v.version <= version
    /\ objects[o] # None /\ objects[o].version = v.version => objects[o] = v

SeenOK(call) == \A i \in 1..Len(call.reviewed) : Seen(call.docs[i], call.reviewed[i])

(* A request is the one its call sent for that document, and an answer that *)
(* waits is the one its call waits for.                                     *)
RequestOK(r) ==
    /\ r.doc \in 1..calls[r.call].sent
    /\ r.object = calls[r.call].docs[r.doc] /\ r.kind = calls[r.call].kind
    /\ r.requires = Precondition(calls[r.call], r.doc)
    /\ r.answer # None => Heard(r)

(* The API server did document i of call c; a request for it is on its way. *)
Made(c, i) == \E e \in effects : e.call = c /\ e.doc = i
OnItsWay(c, i) == \E r \in requests : r.call = c /\ r.doc = i

RequestsInv == \A r \in requests :
    /\ RequestOK(r)
    /\ \A q \in requests : q.call = r.call /\ q.doc = r.doc => q = r
    /\ Made(r.call, r.doc) <=> r.answer = "ok"

(* What was done, was done once and to what was reviewed. *)
EffectOK(e) ==
    LET call == calls[e.call]
        seen == call.reviewed[e.doc]
    IN  /\ e.doc \in 1..call.sent
        /\ call.kind = "patch" => e.onto = seen
        /\ call.kind = "delete" => e.onto.uid = seen.uid
        /\ seen = None => e.onto = None

EffectsInv == \A e \in effects :
    /\ EffectOK(e)
    /\ \A f \in effects : f.call = e.call /\ f.doc = e.doc => f = e

(* What a call heard is so, and what was refused stays undone. *)
ResultOK(c, i) ==
    /\ calls[c].results[i] = "ok" => Made(c, i)
    /\ calls[c].results[i] \in {"conflict", "missing"} => ~Made(c, i) /\ ~OnItsWay(c, i)

ResultsInv == \A c \in Calls : \A i \in 1..Len(calls[c].results) : ResultOK(c, i)

IInv ==
    /\ TypeOK
    /\ \A c \in Calls : CallOK(calls[c]) /\ SaidOK(c) /\ SeenOK(calls[c])
    /\ \A o \in Objects : Seen(o, objects[o])
    /\ RequestsInv
    /\ EffectsInv
    /\ ResultsInv

-----------------------------------------------------------------------------
(* Call y goes on as x: nothing it sent is forgotten, and what it sent      *)
(* requests for stands still.                                               *)
SameWork(x, y) ==
    /\ x.sent = y.sent
    /\ y.sent > 0 => /\ x.docs = y.docs /\ x.reviewed = y.reviewed
                     /\ x.kind = y.kind /\ x.results = y.results

(* Why a call needs the user's yes. *)
NeedsYes(x) == x.decision = "Approved" \/ x.phase = "executing" \/ x.sent > 0

(* Any number of calls go on while the API server does nothing. *)
LEMMA CallsInv ==
    ASSUME IInv, calls' \in [Calls -> CallState],
           \A c \in Calls :
               /\ CallOK(calls'[c]) /\ SeenOK(calls'[c]) /\ SameWork(calls'[c], calls[c])
               /\ NeedsYes(calls'[c]) => c \in said',
           requests' \in SUBSET requests,
           \A r \in requests' : r.answer # None => calls'[r.call].phase = "executing",
           writes' \in BOOLEAN, cluster' \in [listed : BOOLEAN, readOnly : BOOLEAN],
           toggles' \in 0..MaxToggles, channel' \in Seq(Calls),
           pending' \in SUBSET Calls, said' \in SUBSET Calls,
           UNCHANGED <<objects, version, effects>>
    PROVE  IInv'
  <1>1. /\ TypeOK /\ RequestsInv /\ EffectsInv /\ ResultsInv
        /\ \A c \in Calls : CallOK(calls[c]) /\ calls[c] \in CallState
        /\ \A o \in Objects : Seen(o, objects[o])
    BY DEF IInv, TypeOK
  <1>2. TypeOK'
    BY <1>1 DEF TypeOK
  <1>3. /\ \A c \in Calls : CallOK(calls'[c]) /\ SaidOK(c)' /\ SeenOK(calls[c])'
        /\ \A o \in Objects : Seen(o, objects[o])'
    <2>1. ASSUME NEW o, NEW v PROVE Seen(o, v)' <=> Seen(o, v)
      BY DEF Seen
    <2>2. \A c \in Calls : SeenOK(calls[c])'
      BY <2>1 DEF SeenOK
    <2>3. \A o \in Objects : Seen(o, objects[o])'
      BY <1>1 DEF Seen
    <2> QED BY <2>2, <2>3 DEF SaidOK, NeedsYes
  <1>4. /\ \A c, i : Made(c, i)' <=> Made(c, i)
        /\ \A c, i : OnItsWay(c, i)' => OnItsWay(c, i)
    BY DEF Made, OnItsWay
  <1>5. ASSUME NEW r \in requests' PROVE RequestOK(r)'
    <2> DEFINE x == calls'[r.call]
               y == calls[r.call]
    <2>1. /\ r \in requests /\ r.call \in Calls /\ RequestOK(r)
          /\ x \in CallState /\ y \in CallState /\ SameWork(x, y)
      BY <1>1 DEF TypeOK, Request, RequestsInv
    <2>2. y.sent \in Nat /\ r.doc \in 1..y.sent
      BY <2>1 DEF RequestOK, CallState
    <2>3. /\ y.sent > 0 /\ x.sent = y.sent /\ x.docs = y.docs /\ x.kind = y.kind
          /\ x.reviewed = y.reviewed /\ x.results = y.results
      BY <2>1, <2>2 DEF SameWork
    <2>4. Precondition(x, r.doc) = Precondition(y, r.doc)
      BY <2>3 DEF Precondition
    <2>5. r.answer # None => Heard(r)'
      BY <2>1, <2>3 DEF RequestOK, Heard
    <2> QED BY <2>1, <2>2, <2>3, <2>4, <2>5 DEF RequestOK
  <1>6. RequestsInv'
    BY <1>1, <1>4, <1>5 DEF RequestsInv
  <1>7. ASSUME NEW e \in effects PROVE EffectOK(e)'
    <2> DEFINE x == calls'[e.call]
               y == calls[e.call]
    <2>1. /\ EffectOK(e) /\ x \in CallState /\ y \in CallState /\ SameWork(x, y)
      BY <1>1 DEF TypeOK, EffectsInv
    <2>2. y.sent \in Nat /\ e.doc \in 1..y.sent
      BY <2>1 DEF EffectOK, CallState
    <2>3. /\ x.sent = y.sent /\ x.kind = y.kind /\ x.reviewed = y.reviewed
      BY <2>1, <2>2 DEF SameWork
    <2> QED BY <2>1, <2>3 DEF EffectOK
  <1>8. EffectsInv'
    BY <1>1, <1>7 DEF EffectsInv
  <1>9. ResultsInv'
    <2> SUFFICES ASSUME NEW c \in Calls, NEW i \in 1..Len(calls'[c].results)
                 PROVE  ResultOK(c, i)'
      BY DEF ResultsInv
    <2> DEFINE x == calls'[c]
               y == calls[c]
    <2>1. /\ x \in CallState /\ y \in CallState /\ SameWork(x, y) /\ CallOK(x)
      BY <1>1
    <2>2. x.sent \in Nat /\ Len(x.results) \in Nat /\ Len(x.results) <= x.sent
      BY <2>1 DEF CallOK, CallState
    <2>3. x.results = y.results
      BY <2>1, <2>2 DEF SameWork
    <2> QED BY <1>1, <1>4, <2>3 DEF ResultsInv, ResultOK
  <1> QED BY <1>2, <1>3, <1>6, <1>8, <1>9 DEF IInv

(* One call goes on as x while nothing else happens, but that requests it   *)
(* no longer listens to go.                                                 *)
LEMMA BecomesInv ==
    ASSUME IInv, NEW c \in Calls, NEW x \in CallState, Becomes(c, x),
           CallOK(x), SeenOK(x), SameWork(x, calls[c]), NeedsYes(x) => c \in said,
           requests' \in SUBSET requests,
           x.sent > 0 => \A r \in requests' : r.call = c => r.answer = None,
           channel' \in Seq(Calls), pending' \in SUBSET Calls,
           UNCHANGED <<objects, version, effects, said, writes, cluster, toggles>>
    PROVE  IInv'
  <1>1. /\ TypeOK /\ RequestsInv
        /\ \A d \in Calls : CallOK(calls[d]) /\ SaidOK(d) /\ SeenOK(calls[d])
    BY DEF IInv
  <1>2. /\ calls' \in [Calls -> CallState]
        /\ \A d \in Calls : calls'[d] = IF d = c THEN x ELSE calls[d]
    BY <1>1 DEF TypeOK, Becomes
  <1>3. ASSUME NEW d \in Calls
        PROVE  /\ CallOK(calls'[d]) /\ SeenOK(calls'[d]) /\ SameWork(calls'[d], calls[d])
               /\ NeedsYes(calls'[d]) => d \in said'
    <2>1. CASE d = c
      BY <1>2, <2>1
    <2>2. CASE d # c
      BY <1>1, <1>2, <2>2 DEF SameWork, NeedsYes, SaidOK
    <2> QED BY <2>1, <2>2
  <1>4. ASSUME NEW r \in requests', r.answer # None
        PROVE  calls'[r.call].phase = "executing"
    <2>1. /\ r \in requests /\ r.call \in Calls /\ r.doc \in 1..calls[r.call].sent
          /\ calls[r.call].phase = "executing" /\ calls[r.call].sent \in Nat
      BY <1>1, <1>4 DEF TypeOK, Request, RequestsInv, RequestOK, Heard, CallState
    <2>2. r.call # c
      BY <1>4, <2>1 DEF SameWork
    <2> QED BY <1>2, <2>1, <2>2
  <1>5. /\ writes' \in BOOLEAN /\ cluster' \in [listed : BOOLEAN, readOnly : BOOLEAN]
        /\ toggles' \in 0..MaxToggles /\ said' \in SUBSET Calls
    BY <1>1 DEF TypeOK
  <1> QED BY <1>2, <1>3, <1>4, <1>5, CallsInv

(* The future of a call ends; what it sent is remembered. *)
LEMMA EndedOK ==
    ASSUME NEW y \in CallState, CallOK(y), SeenOK(y),
           NEW outcome \in Outcomes \ {"done"},
           outcome \in {"off", "nothing", "refused", "rejected", "stopped"} => y.sent = 0
    PROVE  LET x == Ended(y, outcome)
           IN  /\ x \in CallState /\ CallOK(x) /\ SeenOK(x) /\ SameWork(x, y)
               /\ NeedsYes(x) => y.sent > 0
  <1> DEFINE x == Ended(y, outcome)
  <1>0. y.sent \in Nat
    BY DEF CallState
  <1>1. CASE y.sent = 0
    <2>1. /\ x \in CallState /\ x.sent = 0 /\ x.docs = <<>> /\ x.reviewed = <<>>
          /\ x.results = <<>> /\ x.kind = "apply" /\ x.phase = "ended"
          /\ x.decision = None /\ x.outcome = outcome
      <3>1. x = [NewCall EXCEPT !.phase = "ended", !.outcome = outcome]
        BY <1>1 DEF Ended
      <3>2. NewCall \in CallState
        BY DEF NewCall, CallState, Phases, Kinds
      <3> QED BY <3>1, <3>2 DEF NewCall, CallState, Phases
    <2>2. None # "Approved"
      BY DEF Decisions
    <2> QED BY <1>1, <2>1, <2>2 DEF CallOK, SeenOK, SameWork, NeedsYes
  <1>2. CASE y.sent # 0
    <2>1. /\ x \in CallState /\ x.sent = y.sent /\ x.docs = y.docs
          /\ x.reviewed = y.reviewed /\ x.results = y.results /\ x.kind = y.kind
          /\ x.phase = "ended" /\ x.outcome = outcome
      BY <1>2 DEF Ended, CallState, Phases
    <2> HIDE DEF x
    <2>2. CallOK(x)
      BY <1>0, <1>2, <2>1 DEF CallOK
    <2>3. SeenOK(x)
      BY <2>1 DEF SeenOK
    <2>4. SameWork(x, y) /\ y.sent > 0
      BY <1>0, <1>2, <2>1 DEF SameWork
    <2> QED BY <2>1, <2>2, <2>3, <2>4 DEF x
  <1> QED BY <1>1, <1>2

(* A document that is left out moves only the documents after it. *)
LEMMA LeftOut ==
    ASSUME NEW S, NEW s \in Seq(S), NEW i \in 1..Len(s)
    PROVE  /\ RemoveAt(s, i) \in Seq(S) /\ Len(RemoveAt(s, i)) = Len(s) - 1
           /\ \A j \in 1..(i - 1) : RemoveAt(s, i)[j] = s[j]
  <1> DEFINE p == SubSeq(s, 1, i - 1)
             q == SubSeq(s, i + 1, Len(s))
  <1>1. /\ p \in Seq(S) /\ Len(p) = i - 1 /\ \A j \in 1..(i - 1) : p[j] = s[j]
    OBVIOUS
  <1>2. /\ q \in Seq(S) /\ Len(q) = Len(s) - i
    OBVIOUS
  <1>3. RemoveAt(s, i) = p \o q
    BY DEF RemoveAt
  <1>4. i \in Nat /\ Len(s) \in Nat /\ i <= Len(s)
    OBVIOUS
  <1> HIDE DEF p, q
  <1> QED BY <1>1, <1>2, <1>3, <1>4

-----------------------------------------------------------------------------
(* A call that ends before it sent anything, or stops listening to what it  *)
(* sent.                                                                    *)
LEMMA EndInv ==
    ASSUME IInv, NEW c \in Calls, NEW outcome \in Outcomes \ {"done"},
           Becomes(c, Ended(calls[c], outcome)),
           outcome \in {"off", "nothing", "refused", "rejected", "stopped"} =>
               calls[c].sent = 0,
           requests' \in SUBSET requests,
           calls[c].sent > 0 => requests' = Unheard(c),
           channel' \in Seq(Calls), pending' \in SUBSET Calls,
           UNCHANGED <<objects, version, effects, said, writes, cluster, toggles>>
    PROVE  IInv'
  <1> DEFINE x == Ended(calls[c], outcome)
  <1>1. /\ calls[c] \in CallState /\ CallOK(calls[c]) /\ SaidOK(c) /\ SeenOK(calls[c])
    BY DEF IInv, TypeOK
  <1>2. /\ x \in CallState /\ CallOK(x) /\ SeenOK(x) /\ SameWork(x, calls[c])
        /\ NeedsYes(x) => calls[c].sent > 0
    BY <1>1, EndedOK
  <1> HIDE DEF x
  <1>3. NeedsYes(x) => c \in said
    BY <1>1, <1>2 DEF SaidOK
  <1>4. x.sent > 0 => \A r \in requests' : r.call = c => r.answer = None
    BY <1>2 DEF SameWork, Unheard
  <1>5. Becomes(c, x)
    BY DEF x
  <1> QED BY <1>2, <1>3, <1>4, <1>5, BecomesInv

(* The steps of one call until it acts: nothing is sent before `Execute`.   *)
LEMMA ChecksInv ==
    ASSUME IInv, NEW c \in Calls,
           \/ \E ask \in Asks[c] : Call(c, ask)
           \/ \E same \in BOOLEAN : CheckReads(c, same)
           \/ CheckFails(c) \/ Ask(c) \/ AnswerTimeout(c) \/ Decided(c)
    PROVE  IInv'
  <1> DEFINE y == calls[c]
  <1>1. /\ TypeOK /\ y \in CallState /\ CallOK(y) /\ SaidOK(c) /\ SeenOK(y)
        /\ \A o \in Objects : Seen(o, objects[o])
    BY DEF IInv, TypeOK
  <1>2. y.phase \in {"new", "checking", "asking"} /\ y.sent = 0
    BY <1>1 DEF Call, CheckReads, CheckFails, Ask, AnswerTimeout, Decided, Waits, CallOK
  <1>3. /\ UNCHANGED <<objects, version, requests, effects, pending, said, writes, cluster,
                       toggles>>
        /\ pending' \in SUBSET Calls /\ requests' \in SUBSET requests
    <2>1. UNCHANGED <<objects, version, requests, effects, pending, said, writes, cluster,
                      toggles>>
      BY DEF Call, CheckReads, CheckFails, Ask, AnswerTimeout, Decided, serverVars, hubVars,
         userVars
    <2> QED BY <1>1, <2>1 DEF TypeOK
  <1>4. channel' \in Seq(Calls)
    <2>1. channel' = channel \/ channel' = Append(channel, c)
      BY DEF Call, CheckReads, CheckFails, Ask, AnswerTimeout, Decided, hubVars
    <2> QED BY <1>1, <2>1 DEF TypeOK
  <1>5. ASSUME NEW outcome \in Outcomes \ {"done"}, Becomes(c, Ended(y, outcome))
        PROVE  IInv'
    BY <1>2, <1>3, <1>4, <1>5, EndInv
  <1>6. ASSUME NEW x \in CallState, CallOK(x), SeenOK(x), SameWork(x, y), Becomes(c, x),
               NeedsYes(x) => c \in said
        PROVE  IInv'
    <2>1. x.sent = 0
      BY <1>2, <1>6 DEF SameWork
    <2> QED BY <1>3, <1>4, <1>6, <2>1, BecomesInv
  <1>7. ASSUME NEW ask \in Asks[c], Call(c, ask) PROVE IInv'
    <2>1. CASE ~Allowed
      <3>1. Ended(y, "off") = Ended(NewCall, "off")
        BY <1>2 DEF Ended, NewCall
      <3>2. Becomes(c, Ended(y, "off"))
        BY <1>7, <2>1, <3>1 DEF Call
      <3> QED BY <1>5, <3>2 DEF Outcomes
    <2>2. CASE Allowed
      <3> DEFINE x == [NewCall EXCEPT !.phase = "checking", !.kind = ask.kind,
                                      !.docs = ask.docs]
      <3>1. Becomes(c, x)
        BY <1>7, <2>2 DEF Call
      <3>2. /\ ask.kind \in Kinds /\ ask.docs \in Seq(Objects) /\ Len(ask.docs) \in Nat
            /\ ask.kind # "apply" => Len(ask.docs) = 1
        BY DEF Kinds
      <3>3. NewCall \in CallState
        BY DEF NewCall, CallState, Phases, Kinds
      <3>4. /\ x \in CallState /\ x.sent = 0 /\ x.docs = ask.docs /\ x.reviewed = <<>>
            /\ x.results = <<>> /\ x.kind = ask.kind /\ x.phase = "checking"
            /\ x.decision = None /\ x.outcome = None
        BY <3>2, <3>3 DEF NewCall, CallState, Phases
      <3> HIDE DEF x
      <3>5. CallOK(x) /\ SeenOK(x) /\ SameWork(x, y)
        BY <1>2, <3>2, <3>4 DEF CallOK, SeenOK, SameWork, Outcomes
      <3>6. ~NeedsYes(x)
        BY <3>4 DEF NeedsYes, Decisions
      <3> QED BY <1>6, <3>1, <3>4, <3>5, <3>6
    <2> QED BY <2>1, <2>2
  <1>8. ASSUME NEW same \in BOOLEAN, CheckReads(c, same) PROVE IInv'
    <2> DEFINE next == Len(y.reviewed) + 1
               live == objects[y.docs[next]]
    <2>1. /\ y.docs \in Seq(Objects) /\ y.reviewed \in Seq(Live \union {None})
          /\ Len(y.docs) \in Nat /\ Len(y.reviewed) \in Nat
          /\ y.phase = "checking" /\ next <= Len(y.docs)
          /\ same => live # None /\ y.kind # "delete"
      BY <1>1, <1>8 DEF CheckReads, CallState
    <2>2. next \in 1..Len(y.docs) /\ y.docs[next] \in Objects
      BY <2>1
    <2>3. live \in Live \union {None} /\ Seen(y.docs[next], live)
      BY <1>1, <2>2 DEF TypeOK
    <2>4. CASE live = None /\ y.kind # "apply"
      <3>1. Becomes(c, Ended(y, "refused"))
        BY <1>8, <2>1, <2>4 DEF CheckReads
      <3> QED BY <1>5, <3>1 DEF Outcomes
    <2>5. CASE same /\ y.kind = "patch"
      <3>1. Becomes(c, Ended(y, "nothing"))
        BY <1>8, <2>1, <2>5 DEF CheckReads
      <3> QED BY <1>5, <3>1 DEF Outcomes
    <2>6. CASE same /\ y.kind = "apply"
      <3> DEFINE docs == RemoveAt(y.docs, next)
                 x == [y EXCEPT !.docs = docs]
      <3>1. Becomes(c, x)
        BY <1>8, <2>1, <2>6 DEF CheckReads
      <3>2. /\ docs \in Seq(Objects) /\ Len(docs) = Len(y.docs) - 1
            /\ \A i \in 1..Len(y.reviewed) : docs[i] = y.docs[i]
        <4>1. /\ docs \in Seq(Objects) /\ Len(docs) = Len(y.docs) - 1
              /\ \A i \in 1..(next - 1) : docs[i] = y.docs[i]
          <5> HIDE DEF next
          <5> QED BY <2>1, <2>2, LeftOut
        <4> QED BY <2>1, <4>1
      <3> HIDE DEF docs
      <3>3. /\ x \in CallState /\ x.sent = y.sent /\ x.docs = docs /\ x.reviewed = y.reviewed
            /\ x.results = y.results /\ x.kind = y.kind /\ x.phase = y.phase
            /\ x.decision = y.decision /\ x.outcome = y.outcome
        BY <1>1, <3>2 DEF CallState
      <3> HIDE DEF x
      <3>4. SeenOK(x) /\ SameWork(x, y)
        BY <1>1, <1>2, <3>2, <3>3 DEF SeenOK, SameWork
      <3>5. CallOK(x)
        <4>1. Len(x.reviewed) <= Len(x.docs) /\ 0 <= Len(x.docs) /\ Len(x.docs) \in Nat
          BY <2>1, <2>2, <3>2, <3>3
        <4>2. x.outcome = None /\ None # "done"
          BY <1>1, <2>1, <3>3 DEF CallOK, Outcomes
        <4> QED BY <1>1, <1>2, <2>1, <2>6, <3>3, <4>1, <4>2 DEF CallOK
      <3>6. NeedsYes(x) => c \in said
        BY <1>1, <3>3 DEF NeedsYes, SaidOK
      <3> QED BY <1>6, <3>1, <3>3, <3>4, <3>5, <3>6
    <2>7. CASE /\ ~(live = None /\ y.kind # "apply")
               /\ ~(same /\ y.kind \in {"patch", "apply"})
      <3> DEFINE reviewed == Append(y.reviewed, live)
                 x == [y EXCEPT !.reviewed = reviewed]
      <3>1. Becomes(c, x)
        BY <1>8, <2>1, <2>7 DEF CheckReads
      <3> HIDE DEF live
      <3>2. /\ reviewed \in Seq(Live \union {None}) /\ Len(reviewed) = next
            /\ reviewed[next] = live
            /\ \A i \in 1..Len(y.reviewed) : reviewed[i] = y.reviewed[i]
        BY <2>1, <2>3
      <3> HIDE DEF reviewed
      <3>3. /\ x \in CallState /\ x.sent = y.sent /\ x.docs = y.docs /\ x.reviewed = reviewed
            /\ x.results = y.results /\ x.kind = y.kind /\ x.phase = y.phase
            /\ x.decision = y.decision /\ x.outcome = y.outcome
        BY <1>1, <3>2 DEF CallState
      <3> HIDE DEF x
      <3>4. \A i \in 1..Len(x.reviewed) : i = next \/ i \in 1..Len(y.reviewed)
        BY <2>1, <3>2, <3>3
      <3>5. SeenOK(x) /\ SameWork(x, y)
        BY <1>1, <1>2, <2>3, <3>2, <3>3, <3>4 DEF SeenOK, SameWork
      <3>6. CallOK(x)
        <4>1. Len(x.reviewed) <= Len(x.docs)
          BY <2>2, <3>2, <3>3
        <4>2. x.kind # "apply" => \A i \in 1..Len(x.reviewed) : x.reviewed[i] # None
          BY <1>1, <2>7, <3>2, <3>3, <3>4 DEF CallOK
        <4>3. x.outcome = None /\ None # "done"
          BY <1>1, <2>1, <3>3 DEF CallOK, Outcomes
        <4> QED BY <1>1, <1>2, <2>1, <3>3, <4>1, <4>2, <4>3 DEF CallOK
      <3>7. NeedsYes(x) => c \in said
        BY <1>1, <3>3 DEF NeedsYes, SaidOK
      <3> QED BY <1>6, <3>1, <3>3, <3>5, <3>6, <3>7
    <2> QED BY <2>4, <2>5, <2>6, <2>7
  <1>9. CASE CheckFails(c)
    BY <1>5, <1>9 DEF CheckFails, Outcomes
  <1>10. CASE AnswerTimeout(c)
    BY <1>5, <1>10 DEF AnswerTimeout, Outcomes
  <1>11. ASSUME NEW phase \in {"asking", "executing"}, NEW x,
                x \in {[y EXCEPT !.phase = phase], [y EXCEPT !.phase = phase, !.decision = None]},
                Becomes(c, x), Len(y.reviewed) = Len(y.docs), y.phase # "ended",
                phase = "executing" => c \in said
         PROVE  IInv'
    <2>1. /\ x \in CallState /\ x.sent = y.sent /\ x.docs = y.docs /\ x.reviewed = y.reviewed
          /\ x.results = y.results /\ x.kind = y.kind /\ x.phase = phase
          /\ x.decision = "Approved" => y.decision = "Approved"
          /\ x.outcome = y.outcome
      BY <1>1, <1>11 DEF CallState, Phases, Decisions
    <2>2. SeenOK(x) /\ SameWork(x, y)
      BY <1>1, <2>1 DEF SeenOK, SameWork
    <2>3. CallOK(x)
      BY <1>1, <1>2, <1>11, <2>1 DEF CallOK
    <2>4. NeedsYes(x) => c \in said
      BY <1>1, <1>2, <1>11, <2>1 DEF NeedsYes, SaidOK
    <2> QED BY <1>6, <1>11, <2>1, <2>2, <2>3, <2>4
  <1>12. CASE Ask(c)
    <2>1. CASE y.docs = <<>>
      BY <1>5, <1>12, <2>1 DEF Ask, Outcomes
    <2>2. CASE y.docs # <<>>
      <3>1. /\ Becomes(c, [y EXCEPT !.phase = "asking"]) /\ Len(y.reviewed) = Len(y.docs)
            /\ y.phase # "ended"
        BY <1>12, <2>2 DEF Ask
      <3> QED BY <1>11, <3>1
    <2> QED BY <2>1, <2>2
  <1>13. CASE Decided(c)
    <2>1. CASE y.decision = "Rejected" \/ ~Allowed
      BY <1>5, <1>13, <2>1 DEF Decided, Outcomes
    <2>2. CASE y.decision # "Rejected" /\ Allowed
      <3>1. /\ Becomes(c, [y EXCEPT !.phase = "executing", !.decision = None])
            /\ y.decision = "Approved" /\ y.phase = "asking"
        BY <1>1, <1>13, <2>2 DEF Decided, Waits, CallState, Decisions
      <3>2. c \in said /\ Len(y.reviewed) = Len(y.docs)
        BY <1>1, <3>1 DEF SaidOK, CallOK
      <3> QED BY <1>11, <3>1, <3>2
    <2> QED BY <2>1, <2>2
  <1> QED BY <1>7, <1>8, <1>9, <1>10, <1>12, <1>13

(* Calls hear of a decision; a yes is the user's. *)
LEMMA RepliedInv ==
    ASSUME IInv, NEW heard \in SUBSET Calls, NEW decision \in Decisions,
           calls' = Replied(heard, decision),
           decision = "Approved" => heard \subseteq said',
           said' \in SUBSET Calls, said \subseteq said',
           writes' \in BOOLEAN, toggles' \in 0..MaxToggles,
           channel' \in Seq(Calls), pending' \in SUBSET Calls,
           UNCHANGED <<objects, version, requests, effects, cluster>>
    PROVE  IInv'
  <1>1. /\ TypeOK /\ RequestsInv
        /\ \A c \in Calls : /\ CallOK(calls[c]) /\ SaidOK(c) /\ SeenOK(calls[c])
                             /\ calls[c] \in CallState
    BY DEF IInv, TypeOK
  <1>2. ASSUME NEW c \in Calls
        PROVE  /\ calls'[c] \in CallState
               /\ CallOK(calls'[c]) /\ SeenOK(calls'[c]) /\ SameWork(calls'[c], calls[c])
               /\ NeedsYes(calls'[c]) => c \in said'
               /\ calls'[c].phase = calls[c].phase
    <2> DEFINE x == calls'[c]
               y == calls[c]
    <2>1. CASE ~(c \in heard /\ Waits(c))
      <3>1. x = y
        BY <2>1 DEF Replied
      <3> QED BY <1>1, <3>1 DEF SameWork, NeedsYes, SaidOK
    <2>2. CASE c \in heard /\ Waits(c)
      <3>1. x = [y EXCEPT !.decision = decision]
        BY <2>2 DEF Replied
      <3>2. /\ x \in CallState /\ x.sent = y.sent /\ x.docs = y.docs /\ x.reviewed = y.reviewed
            /\ x.results = y.results /\ x.kind = y.kind /\ x.phase = y.phase
            /\ x.decision = decision /\ x.outcome = y.outcome
        BY <1>1, <3>1 DEF CallState
      <3> HIDE DEF x
      <3>3. CallOK(x)
        BY <1>1, <3>2 DEF CallOK
      <3>4. SeenOK(x) /\ SameWork(x, y)
        BY <1>1, <3>2 DEF SeenOK, SameWork
      <3>5. NeedsYes(x) => c \in said'
        BY <1>1, <2>2, <3>2 DEF NeedsYes, SaidOK
      <3> QED BY <3>2, <3>3, <3>4, <3>5 DEF x
    <2> QED BY <2>1, <2>2
  <1>3. calls' \in [Calls -> CallState]
    BY <1>2 DEF Replied
  <1>4. \A r \in requests' : r.answer # None => calls'[r.call].phase = "executing"
    BY <1>1, <1>2 DEF TypeOK, Request, RequestsInv, RequestOK, Heard
  <1>5. cluster' \in [listed : BOOLEAN, readOnly : BOOLEAN] /\ requests' \in SUBSET requests
    BY <1>1 DEF TypeOK
  <1> QED BY <1>2, <1>3, <1>4, <1>5, CallsInv

(* The calls stand still while the hub, the user or the cluster's list      *)
(* changes.                                                                 *)
LEMMA StandStillInv ==
    ASSUME IInv, UNCHANGED <<calls, objects, version, requests, effects, said>>,
           writes' \in BOOLEAN, cluster' \in [listed : BOOLEAN, readOnly : BOOLEAN],
           toggles' \in 0..MaxToggles, channel' \in Seq(Calls), pending' \in SUBSET Calls
    PROVE  IInv'
  <1>1. /\ TypeOK /\ RequestsInv
        /\ \A c \in Calls : CallOK(calls[c]) /\ SaidOK(c) /\ SeenOK(calls[c])
    BY DEF IInv
  <1>2. \A c \in Calls : /\ CallOK(calls'[c]) /\ SeenOK(calls'[c])
                         /\ SameWork(calls'[c], calls[c])
                         /\ NeedsYes(calls'[c]) => c \in said'
    BY <1>1 DEF SameWork, NeedsYes, SaidOK
  <1>3. \A r \in requests' : r.answer # None => calls'[r.call].phase = "executing"
    BY <1>1 DEF RequestsInv, RequestOK, Heard
  <1>4. calls' \in [Calls -> CallState] /\ said' \in SUBSET Calls
        /\ requests' \in SUBSET requests
    BY <1>1 DEF TypeOK
  <1> QED BY <1>2, <1>3, <1>4, CallsInv

(* The hub's actions, and the user's. *)
LEMMA HubInv ==
    ASSUME IInv,
           \/ Requested \/ Prune \/ SettingsChanged \/ ClustersChanged
           \/ \E c \in Calls, decision \in Decisions : Answer(c, decision)
    PROVE  IInv'
  <1>1. TypeOK
    BY DEF IInv
  <1>2. CASE Requested
    <2>1. /\ Head(channel) \in Calls /\ channel' \in Seq(Calls)
          /\ UNCHANGED <<said, objects, version, requests, effects, writes, cluster, toggles>>
      BY <1>1, <1>2 DEF Requested, TypeOK, serverVars, userVars
    <2>2. CASE ~writes
      <3>1. calls' = Replied({Head(channel)}, "Rejected") /\ pending' = pending
        BY <1>2, <2>2 DEF Requested
      <3>2. {Head(channel)} \in SUBSET Calls /\ "Rejected" \in Decisions
        BY <2>1 DEF Decisions
      <3> QED BY <1>1, <2>1, <3>1, <3>2, RepliedInv DEF TypeOK
    <2>3. CASE writes
      <3>1. calls' = calls /\ pending' \in SUBSET Calls
        BY <1>1, <1>2, <2>1, <2>3 DEF Requested, TypeOK
      <3> QED BY <1>1, <2>1, <3>1, StandStillInv DEF TypeOK
    <2> QED BY <2>2, <2>3
  <1>3. CASE Prune
    BY <1>1, <1>3, StandStillInv DEF Prune, TypeOK, serverVars, userVars
  <1>4. CASE SettingsChanged
    <2>1. /\ writes' \in BOOLEAN /\ toggles' \in 0..MaxToggles
          /\ UNCHANGED <<cluster, channel, said, objects, version, requests, effects>>
      BY <1>1, <1>4 DEF SettingsChanged, TypeOK, serverVars
    <2>2. CASE writes'
      <3>1. UNCHANGED <<pending, calls>>
        BY <1>4, <2>2 DEF SettingsChanged
      <3> QED BY <1>1, <2>1, <3>1, StandStillInv DEF TypeOK
    <2>3. CASE ~writes'
      <3>1. pending' = {} /\ calls' = Replied(pending, "Rejected")
        BY <1>4, <2>3 DEF SettingsChanged
      <3>2. "Rejected" \in Decisions
        BY DEF Decisions
      <3> QED BY <1>1, <2>1, <3>1, <3>2, RepliedInv DEF TypeOK
    <2> QED BY <2>2, <2>3
  <1>5. CASE ClustersChanged
    <2>1. /\ cluster' \in [listed : BOOLEAN, readOnly : BOOLEAN] /\ toggles' \in 0..MaxToggles
          /\ UNCHANGED <<writes, calls, objects, version, requests, effects, channel, pending,
                         said>>
      BY <1>1, <1>5 DEF ClustersChanged, TypeOK, serverVars, hubVars
    <2> QED BY <1>1, <2>1, StandStillInv DEF TypeOK
  <1>6. ASSUME NEW c \in Calls, NEW decision \in Decisions, Answer(c, decision) PROVE IInv'
    <2>1. /\ pending' \in SUBSET Calls /\ calls' = Replied({c}, decision)
          /\ said' = IF decision = "Approved" THEN said \union {c} ELSE said
          /\ UNCHANGED <<channel, objects, version, requests, effects, writes, cluster, toggles>>
      BY <1>1, <1>6 DEF Answer, TypeOK, serverVars, userVars
    <2>2. /\ said' \in SUBSET Calls /\ said \subseteq said'
          /\ decision = "Approved" => {c} \subseteq said'
      BY <1>1, <2>1 DEF TypeOK
    <2>3. {c} \in SUBSET Calls
      OBVIOUS
    <2> QED BY <1>1, <2>1, <2>2, <2>3, RepliedInv DEF TypeOK
  <1> QED BY <1>2, <1>3, <1>4, <1>5, <1>6

-----------------------------------------------------------------------------
(* A call sends its next request: the first for that document. *)
LEMMA ExecuteInv ==
    ASSUME IInv, NEW c \in Calls, Execute(c)
    PROVE  IInv'
  <1> DEFINE y == calls[c]
             n == Len(y.results) + 1
             x == [y EXCEPT !.sent = n]
             need == Precondition(y, n)
             sends == [call |-> c, doc |-> n, object |-> y.docs[n], kind |-> y.kind,
                       requires |-> need, answer |-> None]
  <1>1. /\ TypeOK /\ RequestsInv /\ EffectsInv /\ ResultsInv
        /\ \A d \in Calls : /\ calls[d] \in CallState
                             /\ CallOK(calls[d]) /\ SaidOK(d) /\ SeenOK(calls[d])
        /\ \A o \in Objects : Seen(o, objects[o])
    BY DEF IInv, TypeOK
  <1>2. /\ y.phase = "executing" /\ y.sent < n /\ n <= Len(y.docs)
        /\ requests' = requests \union {sends} /\ calls' = [calls EXCEPT ![c] = x]
        /\ UNCHANGED <<objects, version, effects, channel, pending, said, writes, cluster,
                       toggles>>
    BY DEF Execute, Becomes, hubVars, userVars
  <1>3. /\ y.docs \in Seq(Objects) /\ y.reviewed \in Seq(Live \union {None})
        /\ y.kind \in Kinds /\ y.results \in Seq(Replies \union {"lost"})
        /\ Len(y.docs) \in Nat /\ Len(y.results) \in Nat /\ y.sent \in Nat
        /\ Len(y.reviewed) = Len(y.docs) /\ y.sent = n - 1 /\ n \in 1..Len(y.docs)
        /\ y.kind # "apply" => \A i \in 1..Len(y.reviewed) : y.reviewed[i] # None
    BY <1>1, <1>2 DEF CallOK, CallState
  <1>4. need \in Needs
    <2>1. y.reviewed[n] \in Live \union {None} /\ (y.kind # "apply" => y.reviewed[n] # None)
      BY <1>3
    <2> QED BY <1>3, <2>1 DEF Precondition, Needs, Live
  <1>5. /\ x \in CallState /\ x.sent = n /\ x.docs = y.docs /\ x.reviewed = y.reviewed
        /\ x.results = y.results /\ x.kind = y.kind /\ x.phase = y.phase
        /\ x.decision = y.decision /\ x.outcome = y.outcome
    <2>1. y \in CallState /\ n \in Nat
      BY <1>1, <1>3
    <2> HIDE DEF n, y
    <2> QED BY <2>1 DEF CallState
  <1>6. PICK r \in Request :
        /\ r = sends /\ r.call = c /\ r.doc = n /\ r.object = y.docs[n] /\ r.kind = y.kind
        /\ r.requires = need /\ r.answer = None /\ requests' = requests \union {r}
    <2>1. y.docs[n] \in Objects /\ n \in Nat /\ y.kind \in Kinds
      BY <1>3
    <2>2. sends \in Request
      <3> HIDE DEF need
      <3> QED BY <1>4, <2>1 DEF Request
    <2> QED BY <1>2, <2>2
  <1> HIDE DEF x, sends, need
  <1>7. /\ calls' \in [Calls -> CallState]
        /\ \A d \in Calls : calls'[d] = IF d = c THEN x ELSE calls[d]
    BY <1>1, <1>2, <1>5 DEF TypeOK
  <1>8. TypeOK'
    BY <1>1, <1>2, <1>6, <1>7 DEF TypeOK
  <1>9. CallOK(x) /\ SeenOK(x)
    BY <1>1, <1>2, <1>3, <1>5 DEF CallOK, SeenOK, Outcomes
  <1>10. \A d \in Calls : CallOK(calls'[d]) /\ SaidOK(d)' /\ SeenOK(calls[d])'
    <2>1. c \in said
      BY <1>1, <1>2 DEF SaidOK
    <2>2. \A d \in Calls : SaidOK(d)'
      BY <1>1, <1>2, <1>7, <2>1 DEF SaidOK
    <2>3. \A d \in Calls : SeenOK(calls'[d])
      BY <1>1, <1>7, <1>9
    <2>4. \A d \in Calls : SeenOK(calls[d])'
      BY <1>2, <2>3 DEF SeenOK, Seen
    <2> QED BY <1>1, <1>7, <1>9, <2>2, <2>4
  <1>11. \A o \in Objects : Seen(o, objects[o])'
    BY <1>1, <1>2 DEF Seen
  <1>12. ~Made(c, n) /\ ~OnItsWay(c, n)
    BY <1>1, <1>3 DEF Made, OnItsWay, EffectsInv, EffectOK, RequestsInv, RequestOK
  <1>13. \A d, i : /\ Made(d, i)' <=> Made(d, i)
                   /\ OnItsWay(d, i)' => OnItsWay(d, i) \/ (d = c /\ i = n)
    BY <1>2, <1>6 DEF Made, OnItsWay
  <1>14. ASSUME NEW q \in requests PROVE RequestOK(q)'
    <2>1. /\ q.call \in Calls /\ RequestOK(q) /\ calls[q.call].sent \in Nat
      BY <1>1 DEF TypeOK, Request, RequestsInv, CallState
    <2>2. CASE q.call # c
      <3>1. calls'[q.call] = calls[q.call]
        BY <1>7, <2>1, <2>2
      <3> QED BY <2>1, <3>1 DEF RequestOK, Heard
    <2>3. CASE q.call = c
      <3>1. calls'[q.call] = x /\ calls[q.call] = y
        BY <1>7, <2>1, <2>3
      <3>2. Precondition(x, q.doc) = Precondition(y, q.doc)
        BY <1>5 DEF Precondition
      <3>3. q.doc \in 1..x.sent
        BY <1>3, <1>5, <2>1, <3>1 DEF RequestOK
      <3> QED BY <1>5, <2>1, <3>1, <3>2, <3>3 DEF RequestOK, Heard
    <2> QED BY <2>2, <2>3
  <1>15. RequestOK(r)'
    <2>1. calls'[r.call] = x /\ n \in 1..x.sent
      BY <1>3, <1>5, <1>6, <1>7
    <2>2. Precondition(x, n) = need
      BY <1>5 DEF Precondition, need
    <2> QED BY <1>5, <1>6, <2>1, <2>2 DEF RequestOK
  <1>16. RequestsInv'
    <2>1. \A q \in requests : ~(q.call = r.call /\ q.doc = r.doc)
      BY <1>6, <1>12 DEF OnItsWay
    <2>2. \A p, q \in requests' : q.call = p.call /\ q.doc = p.doc => q = p
      BY <1>1, <1>6, <2>1 DEF RequestsInv
    <2>3. Made(r.call, r.doc)' <=> r.answer = "ok"
      BY <1>6, <1>12, <1>13 DEF Replies
    <2>4. \A q \in requests : Made(q.call, q.doc)' <=> q.answer = "ok"
      BY <1>1, <1>13 DEF RequestsInv
    <2> QED BY <1>6, <1>14, <1>15, <2>2, <2>3, <2>4 DEF RequestsInv
  <1>17. EffectsInv'
    <2>1. ASSUME NEW e \in effects PROVE EffectOK(e)'
      <3>1. /\ e.call \in Calls /\ EffectOK(e) /\ calls[e.call].sent \in Nat
        BY <1>1 DEF TypeOK, EffectsInv, CallState
      <3>2. CASE e.call # c
        BY <1>7, <3>1, <3>2 DEF EffectOK
      <3>3. CASE e.call = c
        <4>1. calls'[e.call] = x /\ calls[e.call] = y /\ e.doc \in 1..x.sent
          BY <1>3, <1>5, <1>7, <3>1, <3>3 DEF EffectOK
        <4> QED BY <1>5, <3>1, <4>1 DEF EffectOK
      <3> QED BY <3>2, <3>3
    <2> QED BY <1>1, <1>2, <2>1 DEF EffectsInv
  <1>18. ResultsInv'
    <2> SUFFICES ASSUME NEW d \in Calls, NEW i \in 1..Len(calls'[d].results)
                 PROVE  ResultOK(d, i)'
      BY DEF ResultsInv
    <2>1. calls'[d].results = calls[d].results
      BY <1>3, <1>5, <1>7
    <2>2. ResultOK(d, i)
      BY <1>1, <2>1 DEF ResultsInv
    <2>3. ~(d = c /\ i = n)
      BY <1>3, <1>5, <1>7
    <2> QED BY <1>13, <2>1, <2>2, <2>3 DEF ResultOK
  <1> QED BY <1>8, <1>10, <1>11, <1>16, <1>17, <1>18 DEF IInv

(* A call after its next result: "done" only if every document was. *)
LEMMA TookOK ==
    ASSUME NEW y \in CallState, CallOK(y), y.phase = "executing",
           y.sent = Len(y.results) + 1, NEW result \in Replies \union {"lost"}
    PROVE  LET x == Took(y, result)
           IN  /\ x \in CallState /\ CallOK(x)
               /\ x.sent = y.sent /\ x.docs = y.docs /\ x.reviewed = y.reviewed
               /\ x.kind = y.kind
               /\ Len(x.results) = y.sent /\ x.results[y.sent] = result
               /\ \A i \in 1..Len(y.results) : x.results[i] = y.results[i]
  <1> DEFINE results == Append(y.results, result)
             n == Len(y.results)
             good == {"ok"} \union (IF y.kind = "delete" THEN {"missing"} ELSE {})
             over == [y EXCEPT !.results = results]
             outcome == IF ToSet(results) \subseteq good THEN "done" ELSE "failed"
             ended == [over EXCEPT !.phase = "ended", !.outcome = outcome]
  <1>1. /\ y.results \in Seq(Replies \union {"lost"}) /\ n \in Nat
        /\ y.sent = n + 1 /\ y.sent <= Len(y.docs) /\ Len(y.docs) \in Nat
        /\ y.outcome = None /\ Len(y.reviewed) = Len(y.docs)
    BY DEF CallOK, CallState
  <1>2. /\ results \in Seq(Replies \union {"lost"}) /\ Len(results) = n + 1
        /\ results[n + 1] = result /\ DOMAIN results = 1..(n + 1)
        /\ \A i \in 1..n : results[i] = y.results[i]
    BY <1>1
  <1>3. /\ over \in CallState /\ over.results = results /\ over.sent = y.sent
        /\ over.docs = y.docs /\ over.reviewed = y.reviewed /\ over.kind = y.kind
        /\ over.phase = "executing" /\ over.outcome = None
    <2> HIDE DEF results
    <2> QED BY <1>1, <1>2 DEF CallState
  <1>4. outcome \in {"done", "failed"}
    OBVIOUS
  <1>5. outcome = "done" =>
          \A i \in 1..(n + 1) :
             results[i] = "ok" \/ (y.kind = "delete" /\ results[i] = "missing")
    <2> HIDE DEF results
    <2> QED BY <1>2 DEF ToSet
  <1>6. Took(y, result) = IF Len(results) < Len(y.docs) THEN over ELSE ended
    <2>1. Took(y, result) = IF Len(results) < Len(y.docs) THEN over ELSE Ended(over, outcome)
      BY DEF Took
    <2>2. over.sent # 0
      BY <1>1, <1>3
    <2> HIDE DEF over, outcome
    <2>3. Ended(over, outcome) = ended
      BY <2>2 DEF Ended
    <2> QED BY <2>1, <2>3
  <1> HIDE DEF results, over, outcome
  <1>7. /\ ended \in CallState /\ ended.results = results /\ ended.sent = y.sent
        /\ ended.docs = y.docs /\ ended.reviewed = y.reviewed /\ ended.kind = y.kind
        /\ ended.phase = "ended" /\ ended.outcome = outcome
    BY <1>3, <1>4 DEF CallState, Phases, Outcomes
  <1> HIDE DEF ended, n
  <1>8. CallOK(over)
    BY <1>1, <1>2, <1>3 DEF CallOK, Outcomes
  <1>9. CASE ~(Len(results) < Len(y.docs))
    <2>1. CallOK(ended)
      BY <1>1, <1>2, <1>4, <1>5, <1>7, <1>9 DEF CallOK
    <2> QED BY <1>1, <1>2, <1>6, <1>7, <1>9, <2>1 DEF n
  <1>10. CASE Len(results) < Len(y.docs)
    BY <1>1, <1>2, <1>3, <1>6, <1>8, <1>10 DEF n
  <1> QED BY <1>9, <1>10

(* A call takes the result of the request it waits for, whatever it is, as  *)
(* long as the result is so.                                                *)
LEMMA TookInv ==
    ASSUME IInv, NEW c \in Calls, NEW result \in Replies \union {"lost"},
           NEW n, n = calls[c].sent, n = Len(calls[c].results) + 1,
           calls[c].phase = "executing", Becomes(c, Took(calls[c], result)),
           requests' = Unheard(c),
           result = "ok" => Made(c, n),
           result \in {"conflict", "missing"} => ~Made(c, n) /\ ~OnItsWay(c, n)',
           UNCHANGED <<objects, version, effects, channel, pending, said, writes, cluster,
                       toggles>>
    PROVE  IInv'
  <1> DEFINE y == calls[c]
             x == Took(y, result)
  <1>1. /\ TypeOK /\ RequestsInv /\ EffectsInv /\ ResultsInv
        /\ \A d \in Calls : /\ calls[d] \in CallState
                             /\ CallOK(calls[d]) /\ SaidOK(d) /\ SeenOK(calls[d])
        /\ \A o \in Objects : Seen(o, objects[o])
    BY DEF IInv, TypeOK
  <1>2. /\ x \in CallState /\ CallOK(x)
        /\ x.sent = y.sent /\ x.docs = y.docs /\ x.reviewed = y.reviewed /\ x.kind = y.kind
        /\ Len(x.results) = n /\ x.results[n] = result
        /\ \A i \in 1..Len(y.results) : x.results[i] = y.results[i]
    <2>1. /\ y \in CallState /\ CallOK(y) /\ y.phase = "executing"
          /\ y.sent = Len(y.results) + 1 /\ y.sent = n
      BY <1>1
    <2> HIDE DEF y
    <2> QED BY <2>1, TookOK
  <1> HIDE DEF x
  <1>3. /\ calls' \in [Calls -> CallState]
        /\ \A d \in Calls : calls'[d] = IF d = c THEN x ELSE calls[d]
    BY <1>1, <1>2 DEF TypeOK, Becomes, x
  <1>4. requests' \in SUBSET requests /\ \A r \in requests' : r.call = c => r.answer = None
    BY DEF Unheard
  <1>5. TypeOK'
    BY <1>1, <1>3, <1>4 DEF TypeOK
  <1>6. \A d \in Calls : CallOK(calls'[d]) /\ SaidOK(d)' /\ SeenOK(calls[d])'
    <2>1. c \in said
      BY <1>1 DEF SaidOK
    <2>2. \A d \in Calls : SaidOK(d)'
      BY <1>1, <1>3, <2>1 DEF SaidOK
    <2>3. SeenOK(x)
      BY <1>1, <1>2 DEF SeenOK
    <2>4. \A d \in Calls : SeenOK(calls'[d])
      BY <1>1, <1>3, <2>3
    <2>5. \A d \in Calls : SeenOK(calls[d])'
      BY <2>4 DEF SeenOK, Seen
    <2> QED BY <1>1, <1>2, <1>3, <2>2, <2>5
  <1>7. \A o \in Objects : Seen(o, objects[o])'
    BY <1>1 DEF Seen
  <1>8. \A d, i : /\ Made(d, i)' <=> Made(d, i)
                  /\ OnItsWay(d, i)' => OnItsWay(d, i)
    BY <1>4 DEF Made, OnItsWay
  <1>9. ASSUME NEW r \in requests' PROVE RequestOK(r)'
    <2>1. r \in requests /\ r.call \in Calls /\ RequestOK(r)
      BY <1>1, <1>4 DEF TypeOK, Request, RequestsInv
    <2>2. CASE r.call # c
      <3>1. calls'[r.call] = calls[r.call]
        BY <1>3, <2>1, <2>2
      <3> QED BY <2>1, <3>1 DEF RequestOK, Heard
    <2>3. CASE r.call = c
      <3>1. calls'[r.call] = x /\ calls[r.call] = y /\ r.answer = None
        BY <1>3, <1>4, <2>1, <2>3
      <3>2. Precondition(x, r.doc) = Precondition(y, r.doc)
        BY <1>2 DEF Precondition
      <3> QED BY <1>2, <2>1, <3>1, <3>2 DEF RequestOK
    <2> QED BY <2>2, <2>3
  <1>10. RequestsInv'
    BY <1>1, <1>4, <1>8, <1>9 DEF RequestsInv
  <1>11. EffectsInv'
    <2>1. ASSUME NEW e \in effects PROVE EffectOK(e)'
      <3>1. e.call \in Calls /\ EffectOK(e)
        BY <1>1 DEF TypeOK, EffectsInv
      <3> QED BY <1>2, <1>3, <3>1 DEF EffectOK
    <2> QED BY <1>1, <2>1 DEF EffectsInv
  <1>12. ResultsInv'
    <2> SUFFICES ASSUME NEW d \in Calls, NEW i \in 1..Len(calls'[d].results)
                 PROVE  ResultOK(d, i)'
      BY DEF ResultsInv
    <2>1. CASE d # c
      <3>1. calls'[d] = calls[d] /\ ResultOK(d, i)
        BY <1>1, <1>3, <2>1 DEF ResultsInv
      <3> QED BY <1>8, <3>1 DEF ResultOK
    <2>2. CASE d = c /\ i # n
      <3>1. Len(y.results) \in Nat /\ i \in 1..Len(y.results)
        BY <1>1, <1>2, <1>3, <2>2 DEF CallState
      <3>2. calls'[d].results[i] = calls[d].results[i] /\ ResultOK(d, i)
        BY <1>1, <1>2, <1>3, <2>2, <3>1 DEF ResultsInv
      <3> QED BY <1>8, <3>2 DEF ResultOK
    <2>3. CASE d = c /\ i = n
      <3>1. calls'[d].results[i] = result
        BY <1>2, <1>3, <2>3
      <3> QED BY <1>8, <2>3, <3>1 DEF ResultOK
    <2> QED BY <2>1, <2>2, <2>3
  <1> QED BY <1>5, <1>6, <1>7, <1>10, <1>11, <1>12 DEF IInv

(* The call hears the API server, or that it will not. *)
LEMMA HearsInv ==
    ASSUME IInv, (\E r \in requests : Hears(r)) \/ (\E c \in Calls : Lost(c))
    PROVE  IInv'
  <1>1. /\ TypeOK /\ RequestsInv /\ \A c \in Calls : CallOK(calls[c]) /\ calls[c] \in CallState
    BY DEF IInv, TypeOK
  <1>2. ASSUME NEW r \in requests, Hears(r) PROVE IInv'
    <2> DEFINE c == r.call
               n == r.doc
    <2>1. /\ r.answer # None /\ requests' = requests \ {r}
          /\ Becomes(c, Took(calls[c], r.answer))
          /\ UNCHANGED <<objects, version, effects, channel, pending, said, writes, cluster,
                         toggles>>
      BY <1>2 DEF Hears, hubVars, userVars
    <2>2. /\ c \in Calls /\ r.answer \in Replies /\ RequestOK(r) /\ Heard(r)
      BY <1>1, <2>1 DEF TypeOK, Request, RequestsInv, RequestOK
    <2>3. /\ calls[c].phase = "executing" /\ n = Len(calls[c].results) + 1 /\ n = calls[c].sent
      BY <1>1, <2>2 DEF Heard, RequestOK, CallOK, CallState
    <2>4. \A q \in requests : q.call = c /\ q.answer # None => q = r
      BY <1>1, <2>3 DEF RequestsInv, RequestOK, Heard
    <2>5. requests' = Unheard(c)
      BY <2>1, <2>4 DEF Unheard
    <2>6. Made(c, n) <=> r.answer = "ok"
      BY <1>1 DEF RequestsInv
    <2>7. ~OnItsWay(c, n)'
      BY <1>1, <2>1 DEF OnItsWay, RequestsInv
    <2> QED BY <2>1, <2>2, <2>3, <2>5, <2>6, <2>7, TookInv
  <1>3. ASSUME NEW c \in Calls, Lost(c) PROVE IInv'
    <2>1. /\ calls[c].phase = "executing" /\ calls[c].sent = Len(calls[c].results) + 1
          /\ requests' = Unheard(c) /\ Becomes(c, Took(calls[c], "lost"))
          /\ UNCHANGED <<objects, version, effects, channel, pending, said, writes, cluster,
                         toggles>>
      BY <1>3 DEF Lost, hubVars, userVars
    <2> QED BY <2>1, TookInv
  <1> QED BY <1>2, <1>3

(* A call gives up on the API server. *)
LEMMA AbandonsInv ==
    ASSUME IInv, NEW c \in Calls, StepTimeout(c) \/ Abort(c)
    PROVE  IInv'
  <1>1. /\ requests' = Unheard(c)
        /\ Becomes(c, Ended(calls[c], "timeout")) \/ Becomes(c, Ended(calls[c], "aborted"))
        /\ UNCHANGED <<objects, version, effects, channel, pending, said, writes, cluster,
                       toggles>>
    BY DEF StepTimeout, Abort, hubVars, userVars
  <1>2. requests' \in SUBSET requests /\ channel' \in Seq(Calls) /\ pending' \in SUBSET Calls
    BY <1>1 DEF Unheard, IInv, TypeOK
  <1> QED BY <1>1, <1>2, EndInv DEF Outcomes

-----------------------------------------------------------------------------
(* Objects change, under new versions only: whoever saw one is not deceived *)
(* about it.                                                                *)
Written == /\ objects' \in [Objects -> Live \union {None}]
           /\ version' \in Nat /\ version <= version'
           /\ \A o \in Objects :
                \/ objects'[o] = objects[o] \/ objects'[o] = None
                \/ objects'[o].version = version' /\ version < version'

(* What was seen of any object, and of each as it is, stays right. *)
LEMMA SeenInv ==
    ASSUME IInv, Written, calls' = calls
    PROVE  /\ \A c \in Calls : SeenOK(calls[c])'
           /\ \A o \in Objects : Seen(o, objects[o])'
  <1>1. /\ TypeOK /\ version \in Nat
        /\ \A c \in Calls : SeenOK(calls[c]) /\ CallOK(calls[c]) /\ calls[c] \in CallState
        /\ \A o \in Objects : Seen(o, objects[o]) /\ objects[o] \in Live \union {None}
    BY DEF IInv, TypeOK
  <1>2. ASSUME NEW o \in Objects, NEW v \in Live \union {None}, Seen(o, v) PROVE Seen(o, v)'
    <2> SUFFICES ASSUME v # None PROVE Seen(o, v)'
      BY DEF Seen
    <2>1. v.version \in Nat /\ v.version <= version
      BY <1>2 DEF Seen, Live
    <2>2. v.version <= version'
      BY <1>1, <2>1 DEF Written
    <2>3. CASE objects'[o] = objects[o]
      BY <1>2, <2>2, <2>3 DEF Seen
    <2>4. CASE objects'[o] = None
      BY <2>2, <2>4 DEF Seen
    <2>5. CASE objects'[o].version = version' /\ version < version'
      <3>1. v.version # objects'[o].version
        BY <1>1, <2>1, <2>5 DEF Written
      <3> QED BY <2>2, <3>1 DEF Seen
    <2> QED BY <2>3, <2>4, <2>5 DEF Written
  <1>3. ASSUME NEW c \in Calls PROVE SeenOK(calls[c])'
    <2> DEFINE y == calls[c]
    <2>1. /\ y.docs \in Seq(Objects) /\ y.reviewed \in Seq(Live \union {None})
          /\ Len(y.reviewed) <= Len(y.docs) /\ Len(y.reviewed) \in Nat /\ Len(y.docs) \in Nat
      BY <1>1 DEF CallState, CallOK
    <2>2. ASSUME NEW i \in 1..Len(y.reviewed) PROVE Seen(y.docs[i], y.reviewed[i])'
      <3>1. PICK o \in Objects : o = y.docs[i]
        BY <2>1
      <3>2. PICK v \in Live \union {None} : v = y.reviewed[i]
        BY <2>1
      <3>3. Seen(o, v)'
        BY <1>1, <1>2, <3>1, <3>2 DEF SeenOK
      <3> QED BY <3>1, <3>2, <3>3
    <2> QED BY <2>2 DEF SeenOK
  <1>4. ASSUME NEW o \in Objects PROVE Seen(o, objects[o])'
    <2>1. CASE objects'[o] = objects[o]
      BY <1>1, <1>2, <2>1 DEF Seen
    <2>2. CASE objects'[o] = None
      BY <2>2 DEF Seen
    <2>3. CASE objects'[o].version = version'
      BY <2>3 DEF Seen, Written
    <2> QED BY <2>1, <2>2, <2>3 DEF Written
  <1> QED BY <1>3, <1>4

(* Somebody else writes. *)
LEMMA OthersInv ==
    ASSUME IInv, NEW o \in Objects, OthersWrite(o)
    PROVE  IInv'
  <1>1. /\ TypeOK /\ version \in Nat
        /\ UNCHANGED <<requests, effects, calls, channel, pending, said, writes, cluster,
                       toggles>>
    BY DEF IInv, TypeOK, OthersWrite, hubVars, userVars
  <1>2. Written
    <2>1. version' = version + 1
      BY DEF OthersWrite
    <2>2. PICK w \in Live \union {None} :
            /\ objects' = [objects EXCEPT ![o] = w]
            /\ w = None \/ w.version = version'
      <3>1. CASE objects' = [objects EXCEPT ![o] = None]
        BY <3>1
      <3>2. CASE objects' = [objects EXCEPT ![o] = [uid |-> version', version |-> version']]
        <4> DEFINE w == [uid |-> version', version |-> version']
        <4>1. w \in Live /\ w.version = version'
          BY <1>1, <2>1 DEF Live
        <4>2. objects' = [objects EXCEPT ![o] = w]
          BY <3>2
        <4> HIDE DEF w
        <4> QED BY <4>1, <4>2
      <3>3. CASE objects[o] # None /\ objects' = [objects EXCEPT ![o].version = version']
        <4> DEFINE w == [objects[o] EXCEPT !.version = version']
        <4>1. objects[o] \in Live
          BY <1>1, <3>3 DEF TypeOK
        <4>2. w \in Live /\ w.version = version' /\ objects' = [objects EXCEPT ![o] = w]
          BY <1>1, <2>1, <3>3, <4>1 DEF Live
        <4> QED BY <4>2
      <3> QED BY <3>1, <3>2, <3>3 DEF OthersWrite
    <2> QED BY <1>1, <2>1, <2>2 DEF Written, TypeOK
  <1>3. /\ \A c \in Calls : SeenOK(calls[c])'
        /\ \A p \in Objects : Seen(p, objects[p])'
    BY <1>1, <1>2, SeenInv
  <1>4. TypeOK'
    BY <1>1, <1>2 DEF TypeOK, Written
  <1>5. \A c \in Calls : CallOK(calls'[c]) /\ SaidOK(c)'
    BY <1>1 DEF IInv, SaidOK
  <1>6. RequestsInv' /\ EffectsInv' /\ ResultsInv'
    BY <1>1 DEF IInv, RequestsInv, RequestOK, Heard, Made, EffectsInv, EffectOK, ResultsInv,
       ResultOK, OnItsWay
  <1> QED BY <1>3, <1>4, <1>5, <1>6 DEF IInv

(* What the API server finds when it says "ok" is what was reviewed: the    *)
(* precondition names the version, the identity or the absence.             *)
LEMMA FoundAsReviewed ==
    ASSUME IInv, NEW r \in requests,
           "ok" \in Answers(r, objects[r.object])
    PROVE  LET seen == calls[r.call].reviewed[r.doc]
               live == objects[r.object]
           IN  /\ calls[r.call].kind = "patch" => live = seen
               /\ calls[r.call].kind = "delete" => live.uid = seen.uid
               /\ seen = None => live = None
  <1> DEFINE y == calls[r.call]
             seen == y.reviewed[r.doc]
             live == objects[r.object]
  <1>1. /\ TypeOK /\ RequestOK(r) /\ r.call \in Calls
        /\ y \in CallState /\ CallOK(y) /\ SeenOK(y)
    BY DEF IInv, TypeOK, RequestsInv, Request
  <1>2. /\ r.doc \in 1..Len(y.reviewed) /\ y.kind \in Kinds
        /\ r.requires = Precondition(y, r.doc) /\ r.object = y.docs[r.doc] /\ r.kind = y.kind
    BY <1>1 DEF RequestOK, CallOK, CallState
  <1>3. Seen(r.object, seen) /\ (y.kind # "apply" => seen # None)
    BY <1>1, <1>2 DEF SeenOK, CallOK
  <1>4. Fits(r, live) /\ ~(live = None /\ r.kind # "apply")
    BY DEF Answers
  <1> HIDE DEF seen, live, y
  <1>5. r.requires = CASE y.kind = "patch" -> [version |-> seen.version]
                       [] y.kind = "delete" -> [uid |-> seen.uid]
                       [] seen = None -> [absent |-> TRUE]
                       [] OTHER -> [force |-> FALSE]
    BY <1>2 DEF Precondition, seen
  <1>6. CASE y.kind = "patch"
    <2>1. r.requires = [version |-> seen.version]
      BY <1>3, <1>5, <1>6
    <2>2. live # None /\ live.version = seen.version
      BY <1>4, <2>1 DEF Fits
    <2>3. live = seen
      BY <1>3, <1>6, <2>2 DEF Seen, live
    <2> QED BY <1>3, <1>6, <2>3 DEF seen, live, y
  <1>7. CASE y.kind = "delete"
    <2>1. r.requires = [uid |-> seen.uid]
      BY <1>3, <1>5, <1>7
    <2>2. live # None /\ live.uid = seen.uid
      BY <1>4, <2>1 DEF Fits
    <2> QED BY <1>3, <1>7, <2>2 DEF seen, live, y
  <1>8. CASE y.kind = "apply"
    <2>1. ASSUME seen = None PROVE live = None
      <3>1. r.requires = [absent |-> TRUE]
        BY <1>5, <1>8, <2>1
      <3> QED BY <1>4, <3>1 DEF Fits
    <2> QED BY <1>8, <2>1 DEF seen, live, y
  <1> QED BY <1>2, <1>6, <1>7, <1>8 DEF Kinds

(* The API server takes a request, whoever still waits for it. *)
LEMMA ServerInv ==
    ASSUME IInv, NEW r \in requests, NEW answer \in Replies, ServerTakes(r, answer)
    PROVE  IInv'
  <1> DEFINE live == objects[r.object]
             kept == IF Heard(r) THEN {[r EXCEPT !.answer = answer]} ELSE {}
  <1>1. /\ TypeOK /\ RequestsInv /\ EffectsInv /\ ResultsInv /\ version \in Nat
        /\ \A c \in Calls : CallOK(calls[c]) /\ SaidOK(c) /\ calls[c] \in CallState
    BY DEF IInv, TypeOK
  <1>2. /\ r.answer = None /\ answer \in Answers(r, live)
        /\ requests' = (requests \ {r}) \union kept
        /\ UNCHANGED <<calls, channel, pending, said, writes, cluster, toggles>>
    BY DEF ServerTakes, hubVars, userVars
  <1>3. /\ r \in Request /\ r.call \in Calls /\ r.doc \in Nat /\ r.object \in Objects
        /\ RequestOK(r) /\ ~Made(r.call, r.doc) /\ live \in Live \union {None}
    BY <1>1, <1>2 DEF TypeOK, Request, RequestsInv, Replies
  <1>4. ASSUME NEW q \in kept
        PROVE  /\ Heard(r) /\ q \in Request /\ q.answer = answer /\ q.call = r.call /\ q.doc = r.doc
               /\ q.object = r.object /\ q.kind = r.kind /\ q.requires = r.requires
    <2>1. Heard(r) /\ q = [r EXCEPT !.answer = answer]
      BY <1>4
    <2> QED BY <1>3, <2>1 DEF Request
  <1>5. \A p, q \in kept : p = q
    OBVIOUS
  <1> HIDE DEF kept, live
  <1>6. Written /\ effects' \in SUBSET [call : Calls, doc : Nat, onto : Live \union {None}]
    <2>1. CASE answer # "ok"
      <3>1. UNCHANGED <<objects, version, effects>>
        BY <2>1 DEF ServerTakes
      <3> QED BY <1>1, <3>1 DEF Written, TypeOK
    <2>2. CASE answer = "ok"
      <3> DEFINE fresh == [uid |-> IF live = None THEN version + 1 ELSE live.uid,
                           version |-> version + 1]
                 w == IF r.kind = "delete" THEN None ELSE fresh
                 e == [call |-> r.call, doc |-> r.doc, onto |-> live]
      <3>1. /\ objects' = [objects EXCEPT ![r.object] = w]
            /\ version' = IF r.kind = "delete" THEN version ELSE version + 1
            /\ effects' = effects \union {e}
        BY <2>2 DEF ServerTakes, live
      <3>2. fresh \in Live /\ fresh.version = version + 1
        BY <1>1, <1>3 DEF Live
      <3>3. e \in [call : Calls, doc : Nat, onto : Live \union {None}]
        BY <1>3
      <3> HIDE DEF fresh, e
      <3>4. Written
        <4>1. CASE r.kind = "delete"
          BY <1>1, <1>3, <3>1, <4>1 DEF Written, TypeOK
        <4>2. CASE r.kind # "delete"
          <5>1. objects' = [objects EXCEPT ![r.object] = fresh] /\ version' = version + 1
            BY <3>1, <4>2
          <5> QED BY <1>1, <1>3, <3>2, <5>1 DEF Written, TypeOK
        <4> QED BY <4>1, <4>2
      <3> QED BY <1>1, <3>1, <3>3, <3>4 DEF TypeOK
    <2> QED BY <2>1, <2>2
  <1>7. TypeOK'
    <2>1. requests' \in SUBSET Request
      BY <1>1, <1>2, <1>4 DEF TypeOK
    <2> QED BY <1>1, <1>2, <1>6, <2>1 DEF TypeOK, Written
  <1>8. /\ \A c \in Calls : SeenOK(calls[c])'
        /\ \A p \in Objects : Seen(p, objects[p])'
    BY <1>2, <1>6, SeenInv
  <1>9. \A c \in Calls : CallOK(calls'[c]) /\ SaidOK(c)'
    BY <1>1, <1>2 DEF SaidOK
  <1>10. \A c, i : Made(c, i)' <=> Made(c, i) \/ (answer = "ok" /\ c = r.call /\ i = r.doc)
    <2>1. CASE answer # "ok"
      <3>1. effects' = effects
        BY <2>1 DEF ServerTakes
      <3> QED BY <2>1, <3>1 DEF Made
    <2>2. CASE answer = "ok"
      <3> DEFINE e == [call |-> r.call, doc |-> r.doc, onto |-> live]
      <3>1. effects' = effects \union {e}
        BY <2>2 DEF ServerTakes, live
      <3>2. e.call = r.call /\ e.doc = r.doc
        OBVIOUS
      <3> HIDE DEF e
      <3> QED BY <2>2, <3>1, <3>2 DEF Made
    <2> QED BY <2>1, <2>2
  <1>11. \A c, i : OnItsWay(c, i)' => OnItsWay(c, i)
    BY <1>2, <1>4 DEF OnItsWay
  <1>12. RequestsInv'
    <2>1. ASSUME NEW q \in requests \ {r}
          PROVE  /\ RequestOK(q)' /\ (Made(q.call, q.doc)' <=> q.answer = "ok")
                 /\ ~(q.call = r.call /\ q.doc = r.doc)
      <3>1. ~(q.call = r.call /\ q.doc = r.doc) /\ RequestOK(q)
            /\ (Made(q.call, q.doc) <=> q.answer = "ok")
        BY <1>1 DEF RequestsInv
      <3>2. RequestOK(q)'
        BY <1>2, <3>1 DEF RequestOK, Heard
      <3> QED BY <1>10, <3>1, <3>2
    <2>2. ASSUME NEW q \in kept
          PROVE  RequestOK(q)' /\ (Made(q.call, q.doc)' <=> q.answer = "ok")
      <3>1. RequestOK(q)'
        BY <1>2, <1>3, <1>4 DEF RequestOK, Heard
      <3> QED BY <1>3, <1>4, <1>10, <3>1
    <2>3. \A p, q \in requests' : q.call = p.call /\ q.doc = p.doc => q = p
      BY <1>1, <1>2, <1>4, <1>5, <2>1 DEF RequestsInv
    <2> QED BY <1>2, <2>1, <2>2, <2>3 DEF RequestsInv
  <1>13. EffectsInv'
    <2>1. ASSUME NEW e \in effects PROVE EffectOK(e)'
      BY <1>1, <1>2 DEF EffectsInv, EffectOK
    <2>2. CASE answer # "ok"
      <3>1. effects' = effects
        BY <2>2 DEF ServerTakes
      <3> QED BY <1>1, <2>1, <3>1 DEF EffectsInv
    <2>3. CASE answer = "ok"
      <3>1. PICK e : e = [call |-> r.call, doc |-> r.doc, onto |-> live]
        OBVIOUS
      <3>2. effects' = effects \union {e}
        BY <2>3, <3>1 DEF ServerTakes, live
      <3>3. e.call = r.call /\ e.doc = r.doc /\ e.onto = live
        BY <3>1
      <3>4. LET seen == calls[r.call].reviewed[r.doc]
            IN  /\ calls[r.call].kind = "patch" => live = seen
                /\ calls[r.call].kind = "delete" => live.uid = seen.uid
                /\ seen = None => live = None
        BY <1>2, <2>3, FoundAsReviewed DEF live
      <3>5. EffectOK(e)'
        BY <1>2, <1>3, <3>3, <3>4 DEF EffectOK, RequestOK
      <3>6. \A f \in effects : ~(f.call = e.call /\ f.doc = e.doc)
        BY <1>3, <3>3 DEF Made
      <3> QED BY <1>1, <2>1, <3>2, <3>5, <3>6 DEF EffectsInv
    <2> QED BY <2>2, <2>3
  <1>14. ResultsInv'
    <2> SUFFICES ASSUME NEW c \in Calls, NEW i \in 1..Len(calls[c].results)
                 PROVE  ResultOK(c, i)'
      BY <1>2 DEF ResultsInv
    <2>1. ResultOK(c, i)
      BY <1>1 DEF ResultsInv
    <2>2. OnItsWay(r.call, r.doc)
      BY DEF OnItsWay
    <2> QED BY <1>2, <1>10, <1>11, <2>1, <2>2 DEF ResultOK
  <1> QED BY <1>7, <1>8, <1>9, <1>12, <1>13, <1>14 DEF IInv

-----------------------------------------------------------------------------
(* Nothing was asked for. *)
LEMMA InitInv == Init => IInv
  <1> SUFFICES ASSUME Init PROVE IInv
    OBVIOUS
  <1>1. NewCall \in CallState
    BY DEF NewCall, CallState, Phases, Kinds
  <1>2. [uid |-> 1, version |-> 1] \in Live /\ [uid |-> 1, version |-> 1].version = 1
    BY DEF Live
  <1>3. CallOK(NewCall) /\ SeenOK(NewCall) /\ ~NeedsYes(NewCall)
    BY DEF NewCall, CallOK, SeenOK, NeedsYes, Outcomes, Decisions
  <1>4. TypeOK
    BY <1>1, <1>2 DEF Init, TypeOK
  <1>5. \A c \in Calls : calls[c] = NewCall
    BY DEF Init
  <1>6. \A o \in Objects : Seen(o, objects[o])
    BY <1>2 DEF Init, Seen
  <1>7. \A c \in Calls : CallOK(calls[c]) /\ SaidOK(c) /\ SeenOK(calls[c])
    BY <1>3, <1>5 DEF SaidOK, NeedsYes
  <1>8. \A c \in Calls : 1..Len(calls[c].results) = {}
    BY <1>5 DEF NewCall
  <1> QED BY <1>4, <1>6, <1>7, <1>8 DEF Init, IInv, RequestsInv, EffectsInv, ResultsInv

(* Every step keeps the invariant. *)
LEMMA Inductive == IInv /\ [Next]_vars => IInv'
  <1> SUFFICES ASSUME IInv, [Next]_vars PROVE IInv'
    OBVIOUS
  <1>1. CASE UNCHANGED vars
    BY <1>1, StandStillInv DEF vars, serverVars, hubVars, userVars, IInv, TypeOK
  <1>2. ASSUME NEW c \in Calls,
               \/ \E ask \in Asks[c] : Call(c, ask)
               \/ \E decision \in Decisions : Answer(c, decision)
               \/ CallSteps(c) \/ Lost(c) \/ Abort(c)
        PROVE  IInv'
    BY <1>2, ChecksInv, HubInv, ExecuteInv, HearsInv, AbandonsInv DEF CallSteps
  <1>3. ASSUME NEW r \in requests, NEW answer \in Replies, ServerTakes(r, answer) PROVE IInv'
    BY <1>3, ServerInv
  <1>4. ASSUME NEW r \in requests, Hears(r) PROVE IInv'
    BY <1>4, HearsInv
  <1>5. CASE Requested \/ Prune \/ SettingsChanged \/ ClustersChanged
    BY <1>5, HubInv
  <1>6. ASSUME NEW o \in Objects, OthersWrite(o) PROVE IInv'
    BY <1>6, OthersInv
  <1>7. CASE Next
    BY <1>2, <1>3, <1>4, <1>5, <1>6, <1>7 DEF Next
  <1> QED BY <1>1, <1>7

(* The inductive invariant holds in every state of the change tools, the    *)
(* hub and the API server.                                                  *)
THEOREM Invariance == Spec => []IInv
  BY InitInv, Inductive, PTL DEF Spec

(* Every variable keeps to its type. *)
THEOREM TypeCorrect == Spec => []TypeOK
  <1>1. IInv => TypeOK
    BY DEF IInv
  <1> QED BY <1>1, Invariance, PTL

(* Every change the API server makes for a call was said yes to, and is     *)
(* made once.                                                               *)
THEOREM AlwaysApprovedOnce == Spec => []ApprovedOnce
  <1>1. IInv => ApprovedOnce
    <2> SUFFICES ASSUME IInv, NEW e \in effects PROVE e.call \in said
      BY DEF IInv, EffectsInv, ApprovedOnce
    <2>1. e.call \in Calls /\ e.doc \in 1..calls[e.call].sent /\ calls[e.call].sent \in Nat
      BY DEF IInv, TypeOK, EffectsInv, EffectOK, CallState
    <2> QED BY <2>1 DEF IInv, SaidOK
  <1> QED BY <1>1, Invariance, PTL

(* A patch changes the version the user reviewed, a delete removes the      *)
(* object they reviewed, and what is created was not there.                 *)
THEOREM AlwaysReviewedIsChanged == Spec => []ReviewedIsChanged
  <1>1. IInv => ReviewedIsChanged
    BY DEF IInv, EffectsInv, EffectOK, ReviewedIsChanged
  <1> QED BY <1>1, Invariance, PTL

(* What an agent is told of its call is so, and stays so. *)
THEOREM AnswersAlwaysTrue == Spec => []AnswersAreTrue
  <1>1. IInv => AnswersAreTrue
    <2> SUFFICES ASSUME IInv, NEW c \in Calls
                 PROVE  LET call == calls[c]
                            did == {e.doc : e \in {e \in effects : e.call = c}}
                        IN  /\ call.outcome \in {"off", "nothing", "refused", "rejected", "stopped"}
                                 => did = {} /\ \A r \in requests : r.call # c
                            /\ call.outcome = "done"
                                 => \/ did = DOMAIN call.docs
                                    \/ call.kind = "delete" /\ call.results = <<"missing">>
                            /\ \A i \in DOMAIN call.results :
                                 call.results[i] \in {"conflict", "missing"} => i \notin did
      BY DEF AnswersAreTrue
    <2> DEFINE call == calls[c]
               did == {e.doc : e \in {e \in effects : e.call = c}}
    <2>1. /\ call \in CallState /\ CallOK(call)
          /\ \A i \in 1..Len(call.results) : ResultOK(c, i)
      BY DEF IInv, TypeOK, ResultsInv
    <2>2. \A i : i \in did <=> Made(c, i)
      BY DEF Made
    <2>3. /\ \A i : Made(c, i) => i \in 1..call.sent
          /\ \A r \in requests : r.call = c => r.doc \in 1..call.sent
      BY DEF IInv, EffectsInv, EffectOK, RequestsInv, RequestOK, Made
    <2>4. /\ call.sent \in Nat /\ call.docs \in Seq(Objects)
          /\ call.results \in Seq(Replies \union {"lost"})
          /\ DOMAIN call.docs = 1..Len(call.docs) /\ DOMAIN call.results = 1..Len(call.results)
          /\ Len(call.docs) \in Nat /\ Len(call.results) \in Nat
      BY <2>1 DEF CallState
    <2> HIDE DEF did, call
    <2>5. call.outcome \in {"off", "nothing", "refused", "rejected", "stopped"}
            => did = {} /\ \A r \in requests : r.call # c
      BY <2>1, <2>2, <2>3, <2>4 DEF CallOK
    <2>6. call.outcome = "done" => \/ did = DOMAIN call.docs
                                   \/ call.kind = "delete" /\ call.results = <<"missing">>
      <3> SUFFICES ASSUME call.outcome = "done", ~(call.kind = "delete" /\ call.results = <<"missing">>)
                   PROVE  did = 1..Len(call.docs)
        BY <2>4
      <3>1. /\ Len(call.results) = Len(call.docs) /\ call.sent <= Len(call.docs)
            /\ call.kind = "delete" => Len(call.docs) = 1
        BY <2>1 DEF CallOK
      <3>2. \A i \in 1..Len(call.results) : call.results[i] = "ok"
        <4> SUFFICES ASSUME NEW i \in 1..Len(call.results), call.results[i] # "ok" PROVE FALSE
          OBVIOUS
        <4>1. call.kind = "delete" /\ call.results[i] = "missing"
          BY <2>1 DEF CallOK
        <4>2. Len(call.results) = 1 /\ call.results[1] = "missing"
          BY <3>1, <4>1
        <4>3. call.results = <<"missing">>
          BY <2>4, <4>2
        <4> QED BY <4>1, <4>3
      <3>3. \A i \in 1..Len(call.docs) : Made(c, i)
        BY <2>1, <3>1, <3>2 DEF ResultOK, call
      <3>4. \A i \in 1..call.sent : i \in 1..Len(call.docs)
        BY <2>4, <3>1
      <3>5. \A i : i \in did <=> i \in 1..Len(call.docs)
        BY <2>2, <2>3, <3>3, <3>4
      <3> QED BY <3>5
    <2>7. \A i \in DOMAIN call.results :
            call.results[i] \in {"conflict", "missing"} => i \notin did
      BY <2>1, <2>2, <2>4 DEF ResultOK, call
    <2> QED BY <2>5, <2>6, <2>7 DEF did, call
  <1> QED BY <1>1, Invariance, PTL

-----------------------------------------------------------------------------
(* Call c has not acted, nor is it about to. *)
Held(c) == calls[c].sent = 0 /\ calls[c].phase # "executing"

NoEffect(c) == \A e \in effects : e.call # c

(* While changes are not allowed a call that has not acted does not start   *)
(* to: `recheck` stops it whatever the user said.                           *)
LEMMA HeldStaysHeld ==
    ASSUME IInv, NEW c \in Calls, Held(c), ~Allowed, [Next]_vars
    PROVE  Held(c)'
  <1> DEFINE y == calls[c]
  <1>1. /\ TypeOK /\ y \in CallState /\ CallOK(y) /\ RequestsInv
    BY DEF IInv, TypeOK
  <1>2. \A outcome \in Outcomes : Ended(y, outcome).sent = 0 /\ Ended(y, outcome).phase = "ended"
    BY DEF Ended, Held, NewCall
  <1>3. ASSUME NEW d \in Calls, NEW x, Becomes(d, x), d = c => x.sent = 0 /\ x.phase # "executing"
        PROVE  Held(c)'
    BY <1>1, <1>3 DEF TypeOK, Becomes, Held
  <1>4. ASSUME calls' = calls PROVE Held(c)'
    BY <1>4 DEF Held
  <1>5. ASSUME NEW heard, NEW decision, calls' = Replied(heard, decision) PROVE Held(c)'
    BY <1>1, <1>5 DEF Replied, Held, CallState
  <1>6. ASSUME NEW d \in Calls, NEW ask \in Asks[d], Call(d, ask) PROVE Held(c)'
    <2>1. Becomes(d, Ended(NewCall, "off")) /\ Ended(NewCall, "off").sent = 0
          /\ Ended(NewCall, "off").phase = "ended"
      BY <1>6 DEF Call, Ended, NewCall
    <2> QED BY <1>3, <2>1
  <1>7. ASSUME NEW d \in Calls, NEW same \in BOOLEAN, CheckReads(d, same) PROVE Held(c)'
    <2>1. CASE d # c
      BY <1>1, <1>7, <2>1 DEF CheckReads, Becomes, Held, TypeOK
    <2>2. CASE d = c
      <3>1. PICK x : /\ Becomes(c, x)
                     /\ \/ x = Ended(y, "refused") \/ x = Ended(y, "nothing")
                        \/ \E docs : x = [y EXCEPT !.docs = docs]
                        \/ \E reviewed : x = [y EXCEPT !.reviewed = reviewed]
        BY <1>7, <2>2 DEF CheckReads
      <3>2. x.sent = 0 /\ x.phase # "executing"
        BY <1>1, <1>2, <3>1 DEF Held, CallState, Outcomes
      <3> QED BY <1>3, <3>1, <3>2
    <2> QED BY <2>1, <2>2
  <1>8. ASSUME NEW d \in Calls,
               \/ CheckFails(d) \/ AnswerTimeout(d) \/ StepTimeout(d) \/ Abort(d)
        PROVE  Held(c)'
    <2>1. PICK outcome \in Outcomes : Becomes(d, Ended(calls[d], outcome))
      BY <1>8 DEF CheckFails, AnswerTimeout, StepTimeout, Abort, Outcomes
    <2> QED BY <1>2, <1>3, <2>1
  <1>9. ASSUME NEW d \in Calls, Ask(d) PROVE Held(c)'
    <2>1. \/ Becomes(d, Ended(calls[d], "nothing"))
          \/ Becomes(d, [calls[d] EXCEPT !.phase = "asking"])
      BY <1>9 DEF Ask
    <2>2. [y EXCEPT !.phase = "asking"].sent = 0 /\ [y EXCEPT !.phase = "asking"].phase = "asking"
      BY <1>1 DEF Held, CallState
    <2> QED BY <1>2, <1>3, <2>1, <2>2 DEF Outcomes
  <1>10. ASSUME NEW d \in Calls, Decided(d) PROVE Held(c)'
    <2>1. PICK outcome \in Outcomes : Becomes(d, Ended(calls[d], outcome))
      BY <1>10 DEF Decided, Outcomes
    <2> QED BY <1>2, <1>3, <2>1
  <1>11. ASSUME NEW d \in Calls, Execute(d) \/ Lost(d) PROVE Held(c)'
    <2>1. d # c
      BY <1>11 DEF Execute, Lost, Held
    <2>2. PICK x : Becomes(d, x)
      BY <1>11 DEF Execute, Lost
    <2> QED BY <1>3, <2>1, <2>2
  <1>12. ASSUME NEW r \in requests, Hears(r) PROVE Held(c)'
    <2>1. r.call \in Calls /\ calls[r.call].phase = "executing"
      BY <1>1, <1>12 DEF Hears, TypeOK, Request, RequestsInv, RequestOK, Heard
    <2>2. r.call # c
      BY <2>1 DEF Held
    <2> QED BY <1>3, <1>12, <2>1, <2>2 DEF Hears
  <1>13. ASSUME NEW d \in Calls, NEW decision \in Decisions, Answer(d, decision) PROVE Held(c)'
    BY <1>5, <1>13 DEF Answer
  <1>14. CASE Requested \/ Prune \/ SettingsChanged \/ ClustersChanged
    BY <1>4, <1>5, <1>14 DEF Requested, Prune, SettingsChanged, ClustersChanged
  <1>15. ASSUME NEW r \in requests, NEW answer \in Replies, ServerTakes(r, answer) PROVE Held(c)'
    BY <1>4, <1>15 DEF ServerTakes
  <1>16. ASSUME NEW o \in Objects, OthersWrite(o) PROVE Held(c)'
    BY <1>4, <1>16 DEF OthersWrite
  <1>17. CASE Next
    BY <1>6, <1>7, <1>8, <1>9, <1>10, <1>11, <1>12, <1>13, <1>14, <1>15, <1>16, <1>17
       DEF Next, CallSteps
  <1>18. CASE UNCHANGED vars
    BY <1>4, <1>18 DEF vars
  <1> QED BY <1>17, <1>18

(* A change that waits for the user when the permission is withdrawn for    *)
(* good is never made.                                                      *)
THEOREM WithdrawnIsNeverDone == Spec => WithdrawnIsNotDone
  <1> SUFFICES ASSUME NEW c \in Calls
               PROVE  Spec => [](Waits(c) /\ []~Allowed => []NoEffect(c))
    BY DEF WithdrawnIsNotDone, NoEffect
  <1>1. IInv /\ Waits(c) => Held(c)
    BY DEF IInv, CallOK, Waits, Held
  <1>2. IInv /\ Held(c) => NoEffect(c)
    BY DEF IInv, EffectsInv, EffectOK, Held, NoEffect
  <1>3. IInv /\ Held(c) /\ ~Allowed /\ [Next]_vars => Held(c)'
    BY HeldStaysHeld
  <1> QED BY <1>1, <1>2, <1>3, Invariance, PTL DEF Spec
=============================================================================
