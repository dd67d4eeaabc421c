--------------------------- MODULE TakeoverProofs ---------------------------
(***************************************************************************)
(* Proofs about Takeover, for any number of instances of Kubyl.  A server    *)
(* that still answers has one owner at a time: the hub that shows it, the    *)
(* start that ended with it and was not heard of yet, or the start that took *)
(* it along to drop it once it has the lock.  Who owns it is on the port.    *)
(***************************************************************************)
EXTENDS Takeover, TLAPS

USE TakeoverAssumption, ListenerAssumption

(* A start with a server in its hands: the old one, or its own. *)
Owns(s) == s.old \/ s.phase = "Serving"

Answers(i) == port # None /\ port.inst = i /\ port.up

StartOK(s) ==
    /\ s.phase # "blocked" => s.wanted /\ s.latest /\ ~s.old
    /\ s.wanted => hub[s.inst].up /\ ~hub[s.inst].server
    /\ s.phase \in Holding => s.token = stored
    /\ Owns(s) => Answers(s.inst)
    /\ s.phase = "Serving" => port.token = s.token

HubOK(i) ==
    /\ hub[i].server <=> hub[i].state = "Running"
    /\ hub[i].state # "Off" => hub[i].up
    /\ hub[i].server => /\ Answers(i) /\ port.token = hub[i].token
                        /\ \A s \in starts : ~Owns(s)

(* No two starts hold the lock, own a server, or are wanted by one hub. *)
Alone(s, t) ==
    \/ s.phase \in Holding /\ t.phase \in Holding
    \/ Owns(s) /\ Owns(t)
    \/ s.wanted /\ t.wanted /\ s.inst = t.inst
    => s = t

IInv ==
    /\ TypeOK
    /\ \A s \in starts : StartOK(s)
    /\ \A i \in Instances : HubOK(i)
    /\ \A s, t \in starts : Alone(s, t)

-----------------------------------------------------------------------------
(* Stopping takes the answer away from the port and changes nothing else. *)
LEMMA StoppedIsListener ==
    ASSUME TypeOK, NEW i \in Instances
    PROVE  Stopped(i) \in Listener \union {None}
  BY DEF TypeOK, Stopped, Listener

(* What is left of the starts of instance i when their handles are dropped: *)
(* each still waits for the lock, as it did, and is no longer wanted.       *)
LEMMA AbandonedStarts ==
    ASSUME TypeOK, NEW i \in Instances, NEW u \in Abandoned(i)
    PROVE  \E s \in starts : /\ s.inst = i /\ s.phase = "blocked"
                             /\ u \in Start /\ u = [s EXCEPT !.wanted = FALSE]
  <1>1. PICK s \in Mine(i) : s.phase = "blocked" /\ u = [s EXCEPT !.wanted = FALSE]
    BY DEF Abandoned
  <1>2. s \in starts /\ s \in Start /\ s.inst = i
    BY <1>1 DEF Mine, TypeOK
  <1>3. u \in Start
    BY <1>1, <1>2 DEF Start
  <1> QED BY <1>1, <1>2, <1>3

(* `start_server` keeps the invariant whatever its hub was told before. *)
LEMMA StartServerInv ==
    ASSUME IInv, NEW i \in Instances, NEW h \in Hub, NEW takeover \in BOOLEAN,
           h.up, h.server = hub[i].server,
           takeover => h.state = "Standby" /\ ~h.server,
           StartServer(i, h, takeover), UNCHANGED <<stored, made>>,
           changes' \in 0..MaxChanges
    PROVE  IInv'
  <1> DEFINE fresh == [inst |-> i, takeover |-> takeover, replace |-> h.replace,
                       old |-> h.server, latest |-> TRUE, wanted |-> TRUE,
                       phase |-> "blocked", token |-> None]
             Kept(t) == t \in starts /\ t.inst # i
             Image(s) == IF h.enabled
                         THEN [[s EXCEPT !.wanted = FALSE] EXCEPT !.latest = FALSE]
                         ELSE [s EXCEPT !.wanted = FALSE]
             LeftOf(t, s) == /\ s.inst = i /\ s.phase = "blocked" /\ t = Image(s)
                             /\ t \in Start /\ t.inst = i /\ t.phase = "blocked"
                             /\ ~t.wanted /\ t.old = s.old
             Left(t) == \E s \in starts : LeftOf(t, s)
             New(t) == h.enabled /\ t = fresh
  <1>1. TypeOK /\ hub[i] \in Hub
    BY DEF IInv, TypeOK
  <1>2. /\ fresh \in Start /\ fresh.inst = i /\ fresh.old = h.server
        /\ fresh.wanted /\ fresh.latest /\ fresh.phase = "blocked"
    BY DEF Start, Phases, Hub
  <1> HIDE DEF fresh
  <1>3. PICK d \in Hub : /\ hub' = [hub EXCEPT ![i] = d]
                         /\ ~d.server /\ d.up /\ d.state # "Running"
    <2>1. CASE ~h.enabled
      <3> DEFINE d == [h EXCEPT !.state = "Off", !.token = None, !.server = FALSE]
      <3>1. d \in Hub /\ ~d.server /\ d.up /\ d.state # "Running"
        BY DEF Hub, States
      <3> QED BY <2>1, <3>1 DEF StartServer
    <2>2. CASE h.enabled /\ takeover
      <3> DEFINE d == [h EXCEPT !.server = FALSE]
      <3>1. d \in Hub /\ ~d.server /\ d.up /\ d.state # "Running"
        BY <2>2 DEF Hub, States
      <3> QED BY <2>2, <3>1 DEF StartServer
    <2>3. CASE h.enabled /\ ~takeover
      <3> DEFINE d == [h EXCEPT !.state = "Starting", !.token = None, !.server = FALSE]
      <3>1. d \in Hub /\ ~d.server /\ d.up /\ d.state # "Running"
        BY DEF Hub, States
      <3> QED BY <2>3, <3>1 DEF StartServer
    <2> QED BY <2>1, <2>2, <2>3
  <1>4. /\ hub' \in [Instances -> Hub] /\ hub'[i] = d
        /\ \A j \in Instances : j # i => hub'[j] = hub[j]
    BY <1>1, <1>3 DEF TypeOK
  <1>5. \A t \in starts' : Kept(t) \/ Left(t) \/ New(t)
    <2> TAKE t \in starts'
    <2>1. CASE t \in starts \ Mine(i)
      BY <2>1 DEF Mine
    <2>2. ASSUME NEW u \in Abandoned(i),
                 t = IF h.enabled THEN [u EXCEPT !.latest = FALSE] ELSE u
          PROVE  Left(t)
      <3>1. PICK s \in starts : /\ s.inst = i /\ s.phase = "blocked"
                               /\ u \in Start /\ u = [s EXCEPT !.wanted = FALSE]
        BY <1>1, AbandonedStarts
      <3>2. s \in Start
        BY <1>1 DEF TypeOK
      <3>3. u.inst = i /\ u.phase = "blocked" /\ ~u.wanted /\ u.old = s.old
        BY <3>1, <3>2 DEF Start
      <3>4. /\ t \in Start /\ t.inst = u.inst /\ t.phase = u.phase
            /\ t.wanted = u.wanted /\ t.old = u.old
        BY <2>2, <3>1 DEF Start
      <3>5. t = Image(s)
        BY <2>2, <3>1
      <3> QED BY <3>1, <3>3, <3>4, <3>5
    <2>3. CASE h.enabled /\ t = fresh
      BY <2>3
    <2> QED BY <2>1, <2>2, <2>3 DEF StartServer, fresh
  <1>6. \A t \in starts' : t \in Start
    BY <1>1, <1>2, <1>5 DEF TypeOK
  <1>7. port' \in Listener \union {None}
    BY <1>1, StoppedIsListener DEF StartServer, TypeOK
  <1>8. TypeOK'
    BY <1>1, <1>4, <1>6, <1>7 DEF TypeOK
  <1>9. (\A s, t \in starts : Alone(s, t)) /\ (\A s \in starts : StartOK(s))
        /\ \A j \in Instances : HubOK(j)
    BY DEF IInv
  <1>10. \A t \in starts' : Owns(t) =>
            \/ Kept(t)
            \/ \E s \in starts : LeftOf(t, s) /\ Owns(s)
            \/ New(t) /\ hub[i].server
    BY <1>2, <1>5 DEF Owns
  <1>11. port' # port => /\ port' = Stopped(i) /\ port # None /\ port.inst = i
                         /\ \/ ~h.enabled /\ hub[i].server
                            \/ \E s \in starts : s.inst = i /\ s.phase = "Serving"
    BY DEF StartServer, Stopped, DropsServer, Mine
  <1>12. \A s, t \in starts' : Alone(s, t)
    <2> SUFFICES ASSUME NEW s \in starts', NEW t \in starts' PROVE Alone(s, t)
      OBVIOUS
    <2>1. s.phase \in Holding /\ t.phase \in Holding => s = t
      <3>1. \A u \in starts' : u.phase \in Holding => Kept(u)
        BY <1>2, <1>5 DEF Holding
      <3> QED BY <1>9, <3>1 DEF Alone
    <2>2. s.wanted /\ t.wanted /\ s.inst = t.inst => s = t
      BY <1>2, <1>5, <1>9 DEF Alone
    <2>3. Owns(s) /\ Owns(t) => s = t
      <3> SUFFICES ASSUME Owns(s), Owns(t) PROVE s = t
        OBVIOUS
      <3>1. CASE New(s) \/ New(t)
        <4>1. hub[i].server
          BY <1>2, <1>10, <3>1
        <4>2. \A u \in starts : ~Owns(u)
          BY <1>9, <4>1 DEF HubOK
        <4> QED BY <1>10, <4>2
      <3>2. CASE ~New(s) /\ ~New(t)
        <4> HIDE DEF Image
        <4> QED BY <1>9, <1>10, <3>2 DEF Alone
      <3> QED BY <3>1, <3>2
    <2> QED BY <2>1, <2>2, <2>3 DEF Alone
  <1>13. ASSUME NEW t \in starts' PROVE StartOK(t)'
    <2>1. CASE Kept(t)
      <3>1. hub'[t.inst] = hub[t.inst] /\ StartOK(t)
        BY <1>1, <1>4, <1>9, <2>1 DEF TypeOK, Start
      <3>2. Owns(t) => port' = port
        BY <1>11, <2>1, <3>1 DEF StartOK, Answers
      <3> QED BY <3>1, <3>2 DEF StartOK, Answers, Owns
    <2>2. CASE Left(t)
      <3>1. PICK s \in starts : LeftOf(t, s)
        BY <2>2
      <3>2. StartOK(s) /\ (\A u \in starts : Owns(s) /\ Owns(u) => s = u)
        BY <1>9 DEF Alone
      <3>3. Owns(s) => port' = port /\ Answers(i)
        BY <1>9, <1>11, <3>1, <3>2 DEF StartOK, HubOK, Owns
      <3> QED BY <3>1, <3>3 DEF StartOK, Answers, Owns, Holding
    <2>3. CASE New(t)
      <3>1. h.server => port' = port /\ Answers(i)
        BY <1>9, <1>11, <2>3 DEF HubOK, Owns
      <3> QED BY <1>2, <1>3, <1>4, <2>3, <3>1 DEF StartOK, Answers, Owns, Holding
    <2> QED BY <1>5, <2>1, <2>2, <2>3
  <1>14. ASSUME NEW j \in Instances PROVE HubOK(j)'
    <2>1. CASE j = i
      BY <1>3, <1>4, <2>1 DEF HubOK
    <2>2. CASE j # i
      <3>1. hub'[j] = hub[j] /\ HubOK(j) /\ HubOK(i)
        BY <1>4, <1>9, <2>2
      <3>2. hub[j].server => port' = port /\ ~hub[i].server
        BY <1>11, <2>2, <3>1 DEF HubOK, Answers
      <3>3. hub[j].server => \A t \in starts' : ~Owns(t)
        BY <1>10, <3>1, <3>2 DEF HubOK
      <3> QED BY <3>1, <3>2, <3>3 DEF HubOK, Answers, Owns
    <2> QED BY <2>1, <2>2
  <1> QED BY <1>8, <1>12, <1>13, <1>14 DEF IInv, Alone, Owns

(* A step of one start: s makes way for nobody, or for the one start t. *)
LEMMA AloneStep ==
    ASSUME IInv, NEW s \in starts, NEW t,
           t.inst = s.inst, t.wanted => s.wanted,
           Owns(t) => Owns(s) \/ \A u \in starts : ~Owns(u),
           t.phase \in Holding => s.phase \in Holding \/ LockFree,
           starts' \subseteq (starts \ {s}) \union {t}
    PROVE  \A u, v \in starts' : Alone(u, v)
  <1> TAKE u, v \in starts'
  <1>1. \A x, y \in starts : Alone(x, y)
    BY DEF IInv
  <1>2. CASE u = t \/ v = t
    BY <1>1, <1>2 DEF Alone, LockFree
  <1>3. CASE u # t /\ v # t
    BY <1>1, <1>3
  <1> QED BY <1>2, <1>3

(* The blocking step: the old server is the start's own to drop. *)
LEMMA BlockedStep ==
    ASSUME IInv, NEW s \in starts, s.phase = "blocked", LockFree,
           port' = IF s.old THEN Stopped(s.inst) ELSE port,
           NEW t \in Start, t.inst = s.inst, t.wanted = s.wanted,
           t.latest = s.latest, ~t.old, t.phase \in {"binding", "Failed"},
           t.phase = "binding" => t.token = stored',
           \/ starts' = starts \ {s}
           \/ starts' = (starts \ {s}) \union {t} /\ s.wanted /\ s.latest,
           stored' \in Token \union {None}, made' \in Nat,
           UNCHANGED <<hub, changes>>
    PROVE  IInv'
  <1>1. TypeOK /\ s \in Start
    BY DEF IInv, TypeOK
  <1>2. port' \in Listener \union {None}
    BY <1>1, StoppedIsListener DEF TypeOK, Start
  <1>3. TypeOK'
    BY <1>1, <1>2 DEF TypeOK
  <1>4. ~Owns(t)
    BY DEF Owns
  <1>5. \A u, v \in starts' : Alone(u, v)
    BY <1>4, AloneStep
  <1>6. \A u \in starts : StartOK(u) /\ Alone(u, s) /\ u.phase \notin Holding
    BY DEF IInv, LockFree
  <1>7. \A i \in Instances : HubOK(i)
    BY DEF IInv
  <1>8. (\E u \in starts' : Owns(u)) \/ (\E i \in Instances : hub[i].server)
           => port' = port
    BY <1>4, <1>6, <1>7 DEF Owns, Alone, HubOK
  <1>9. ASSUME NEW u \in starts' PROVE StartOK(u)'
    <2>1. CASE u = t /\ s.wanted /\ s.latest
      BY <1>4, <1>6, <2>1 DEF StartOK, Owns, Holding
    <2>2. CASE u \in starts
      BY <1>6, <1>8, <2>2 DEF StartOK, Owns, Answers
    <2> QED BY <2>1, <2>2
  <1>10. ASSUME NEW i \in Instances PROVE HubOK(i)'
    BY <1>4, <1>7, <1>8 DEF HubOK, Answers, Owns
  <1> QED BY <1>3, <1>5, <1>9, <1>10 DEF IInv, Alone, Owns

(* The blocking step, with the keychain or without it. *)
LEMMA AcquireInv ==
    ASSUME IInv, NEW s \in starts, Acquire(s) \/ AcquireFails(s)
    PROVE  IInv'
  <1>1. TypeOK /\ s \in Start
    BY DEF IInv, TypeOK
  <1>2. CASE Acquire(s)
    <2> DEFINE fresh == s.replace \/ stored = None
               token == IF fresh THEN made + 1 ELSE stored
               t == [s EXCEPT !.phase = "binding", !.token = token, !.old = FALSE]
    <2>1. token \in Token
      BY <1>1 DEF TypeOK, Token
    <2>2. /\ t \in Start /\ t.inst = s.inst /\ t.wanted = s.wanted
          /\ t.latest = s.latest /\ ~t.old /\ t.phase = "binding" /\ t.token = token
      BY <1>1, <2>1 DEF Start, Phases, Holding
    <2>3. CASE s.latest
      <3>1. /\ stored' = token /\ made' = IF fresh THEN made + 1 ELSE made
            /\ starts' = (starts \ {s}) \union (IF s.wanted THEN {t} ELSE {})
        BY <1>2, <2>3 DEF Acquire
      <3>2. stored' \in Token \union {None} /\ made' \in Nat
        BY <1>1, <2>1, <3>1 DEF TypeOK
      <3> HIDE DEF t, token
      <3> QED BY <1>2, <2>2, <2>3, <3>1, <3>2, BlockedStep DEF Acquire
    <2>4. CASE ~s.latest
      <3> DEFINE u == [s EXCEPT !.phase = "Failed", !.old = FALSE]
      <3>1. /\ u \in Start /\ u.inst = s.inst /\ u.wanted = s.wanted
            /\ u.latest = s.latest /\ ~u.old /\ u.phase = "Failed"
        BY <1>1 DEF Start, Phases, Results
      <3>2. /\ starts' = starts \ {s} /\ stored' \in Token \union {None}
            /\ made' \in Nat
        BY <1>1, <1>2, <2>4 DEF Acquire, TypeOK
      <3> HIDE DEF u
      <3> QED BY <1>2, <3>1, <3>2, BlockedStep DEF Acquire
    <2> QED BY <2>3, <2>4
  <1>3. CASE AcquireFails(s)
    <2> DEFINE t == [s EXCEPT !.phase = "Failed", !.old = FALSE]
    <2>1. /\ t \in Start /\ t.inst = s.inst /\ t.wanted = s.wanted
          /\ t.latest = s.latest /\ ~t.old /\ t.phase = "Failed"
      BY <1>1 DEF Start, Phases, Results
    <2>2. /\ starts' = (starts \ {s}) \union (IF s.wanted THEN {t} ELSE {})
          /\ stored' \in Token \union {None} /\ made' \in Nat
      BY <1>1, <1>3 DEF AcquireFails, TypeOK
    <2> HIDE DEF t
    <2> QED BY <1>3, <2>1, <2>2, BlockedStep DEF AcquireFails
  <1> QED BY <1>2, <1>3

(* The asynchronous part: only a start that holds the lock gets here, with  *)
(* the token that is stored, and only a free port makes it an owner.        *)
LEMMA WorkInv ==
    ASSUME IInv, NEW s \in starts,
           Bind(s) \/ BindFails(s) \/ GiveUp(s) \/ \E a \in BOOLEAN : Probe(s, a)
    PROVE  IInv'
  <1>1. TypeOK /\ s \in Start
    BY DEF IInv, TypeOK
  <1>2. PICK phase \in Phases :
           /\ Goes(s, phase) /\ phase # "blocked"
           /\ phase = "Serving" => /\ port = None /\ port' # port
                                  /\ port' = [inst |-> s.inst, token |-> s.token,
                                              up |-> TRUE]
           /\ phase # "Serving" => port' = port
    <2>1. CASE Bind(s)
      <3>1. [inst |-> s.inst, token |-> s.token, up |-> TRUE] \in Listener
        BY <1>1 DEF Listener, Start
      <3> QED BY <2>1, <3>1 DEF Bind, Phases, Results
    <2>2. CASE GiveUp(s)
      BY <2>2 DEF GiveUp, sharedVars, Phases, Holding
    <2>3. CASE BindFails(s)
      BY <2>3 DEF BindFails, sharedVars, Phases, Results
    <2>4. ASSUME NEW a \in BOOLEAN, Probe(s, a)
          PROVE  /\ Goes(s, IF a THEN "Standby" ELSE "Failed") /\ port' = port
      BY <2>4 DEF Probe, sharedVars
    <2> QED BY <2>1, <2>2, <2>3, <2>4 DEF Phases, Results
  <1>3. /\ s.phase \in Holding /\ s.phase # "blocked" /\ s.phase # "Serving"
        /\ UNCHANGED <<hub, stored, made, changes>>
    BY DEF Bind, BindFails, GiveUp, Probe, sharedVars, Holding
  <1> DEFINE t == [s EXCEPT !.phase = phase]
  <1>4. /\ t \in Start /\ t.inst = s.inst /\ t.wanted = s.wanted
        /\ t.latest = s.latest /\ t.old = s.old /\ t.phase = phase /\ t.token = s.token
    BY <1>1, <1>2 DEF Start
  <1>5. starts' = (starts \ {s}) \union {t}
    BY <1>2 DEF Goes
  <1> HIDE DEF t
  <1>6. /\ \A u \in starts : StartOK(u)
        /\ \A i \in Instances : HubOK(i)
    BY DEF IInv
  <1>7. port = None => /\ \A u \in starts : ~Owns(u)
                       /\ \A i \in Instances : ~hub[i].server
    BY <1>6 DEF StartOK, HubOK, Answers
  <1>8. /\ ~s.old /\ s.wanted /\ s.latest /\ s.token = stored
        /\ hub[s.inst].up /\ ~hub[s.inst].server
    BY <1>3, <1>6 DEF StartOK
  <1>9. Owns(t) => phase = "Serving"
    BY <1>4, <1>8 DEF Owns
  <1>10. \A u, v \in starts' : Alone(u, v)
    BY <1>2, <1>3, <1>4, <1>5, <1>7, <1>9, AloneStep
  <1>11. TypeOK'
    <2>1. [inst |-> s.inst, token |-> s.token, up |-> TRUE] \in Listener
      BY <1>1 DEF Listener, Start
    <2>2. port' \in Listener \union {None}
      BY <1>1, <1>2, <2>1 DEF TypeOK
    <2> QED BY <1>1, <1>3, <1>4, <1>5, <2>2 DEF TypeOK
  <1>12. ASSUME NEW u \in starts' PROVE StartOK(u)'
    <2>1. CASE u = t
      <3>1. phase = "Serving" => Answers(s.inst)' /\ port'.token = s.token
        BY <1>2 DEF Answers
      <3> QED BY <1>2, <1>3, <1>4, <1>8, <1>9, <2>1, <3>1 DEF StartOK, Owns
    <2>2. CASE u \in starts
      BY <1>2, <1>3, <1>6, <1>7, <2>2 DEF StartOK, Owns, Answers
    <2> QED BY <1>5, <2>1, <2>2
  <1>13. ASSUME NEW i \in Instances PROVE HubOK(i)'
    <2>1. hub[i].server => port' = port /\ phase # "Serving"
      BY <1>2, <1>7
    <2> QED BY <1>3, <1>5, <1>6, <1>9, <2>1 DEF HubOK, Answers, Owns
  <1> QED BY <1>10, <1>11, <1>12, <1>13 DEF IInv, Alone, Owns

(* What the host hears of a start: it was wanted, so its hub has no server  *)
(* yet, and no other start of that hub is wanted.                           *)
LEMMA HeardInv ==
    ASSUME IInv, NEW s \in starts, Heard(s)
    PROVE  IInv'
  <1> DEFINE h == hub[s.inst]
             d == CASE s.phase = "Serving" ->
                         [h EXCEPT !.state = "Running", !.server = TRUE,
                                   !.token = s.token, !.replace = FALSE]
                    [] s.phase = "Standby" ->
                         [h EXCEPT !.state = "Standby", !.token = s.token]
                    [] s.phase = "Failed" ->
                         [h EXCEPT !.state = "Failed", !.token = None]
  <1>1. TypeOK /\ s \in Start /\ h \in Hub /\ s.inst \in Instances
    BY DEF IInv, TypeOK, Start
  <1>2. s.phase \in Results /\ s.phase # "blocked"
    BY DEF Heard, Results
  <1>3. /\ \A u \in starts : StartOK(u) /\ Alone(s, u)
        /\ \A i \in Instances : HubOK(i)
    BY DEF IInv
  <1>4. s.wanted /\ h.up /\ ~h.server
    BY <1>2, <1>3 DEF StartOK
  <1>5. /\ d \in Hub /\ d.up
        /\ d.server <=> d.state = "Running"
        /\ d.server <=> s.phase = "Serving"
        /\ d.server => d.token = s.token
    <2>1. CASE s.phase = "Serving"
      BY <1>1, <1>4, <2>1 DEF Hub, Start, States
    <2>2. CASE s.phase = "Standby"
      BY <1>1, <1>3, <1>4, <2>2 DEF Hub, Start, States, HubOK
    <2>3. CASE s.phase = "Failed"
      BY <1>1, <1>3, <1>4, <2>3 DEF Hub, States, HubOK
    <2> QED BY <1>2, <2>1, <2>2, <2>3 DEF Results
  <1>6. /\ hub' = [hub EXCEPT ![s.inst] = d] /\ starts' = starts \ {s}
        /\ UNCHANGED <<port, stored, made, changes>>
    BY DEF Heard, sharedVars
  <1> HIDE DEF d
  <1>7. /\ hub' \in [Instances -> Hub] /\ hub'[s.inst] = d
        /\ \A i \in Instances : i # s.inst => hub'[i] = hub[i]
    BY <1>1, <1>5, <1>6 DEF TypeOK
  <1>8. TypeOK'
    BY <1>1, <1>6, <1>7 DEF TypeOK
  <1>9. \A u, v \in starts' : Alone(u, v)
    BY <1>6 DEF IInv
  <1>10. ASSUME NEW u \in starts' PROVE StartOK(u)'
    <2>1. u \in starts /\ u # s /\ u.inst \in Instances /\ StartOK(u)
      BY <1>1, <1>3, <1>6 DEF TypeOK, Start
    <2>2. u.inst = s.inst => ~u.wanted
      BY <1>3, <1>4, <2>1 DEF Alone
    <2> QED BY <1>6, <1>7, <2>1, <2>2 DEF StartOK, Owns, Answers
  <1>11. ASSUME NEW i \in Instances PROVE HubOK(i)'
    <2>1. CASE i # s.inst
      <3>1. hub'[i] = hub[i] /\ HubOK(i)
        BY <1>3, <1>7, <2>1
      <3> QED BY <1>6, <3>1 DEF HubOK, Answers, Owns
    <2>2. CASE i = s.inst
      <3>1. s.phase = "Serving" => /\ Answers(i) /\ port.token = s.token
                                  /\ \A u \in starts' : ~Owns(u)
        BY <1>3, <1>6, <2>2 DEF StartOK, Alone, Owns
      <3> QED BY <1>5, <1>6, <1>7, <2>2, <3>1 DEF HubOK, Answers, Owns
    <2> QED BY <2>1, <2>2
  <1> QED BY <1>8, <1>9, <1>10, <1>11 DEF IInv, Alone, Owns

(* An instance quits: what it owned and started goes with it. *)
LEMMA QuitInv ==
    ASSUME IInv, NEW i \in Instances, Quit(i)
    PROVE  IInv'
  <1>1. TypeOK /\ NotRunning \in Hub
    BY DEF IInv, NotRunning, Hub, States
  <1>2. /\ hub' \in [Instances -> Hub] /\ hub'[i] = NotRunning
        /\ \A j \in Instances : j # i => hub'[j] = hub[j]
    BY <1>1 DEF Quit, TypeOK
  <1>3. \A u \in starts' : u \in starts /\ u.inst # i /\ u.inst \in Instances
    BY <1>1 DEF Quit, Mine, TypeOK, Start
  <1>4. port # None /\ port.inst # i => port' = port
    BY DEF Quit
  <1>5. TypeOK'
    BY <1>1, <1>2, <1>3 DEF Quit, Counted, TypeOK
  <1>6. ASSUME NEW u \in starts' PROVE StartOK(u)'
    <2>1. StartOK(u) /\ hub'[u.inst] = hub[u.inst]
      BY <1>2, <1>3 DEF IInv
    <2>2. Owns(u) => port' = port
      BY <1>3, <1>4, <2>1 DEF StartOK, Answers
    <2> QED BY <2>1, <2>2 DEF StartOK, Owns, Answers, Quit
  <1>7. ASSUME NEW j \in Instances PROVE HubOK(j)'
    <2>1. CASE j = i
      BY <1>2, <2>1 DEF HubOK, NotRunning
    <2>2. CASE j # i
      <3>1. HubOK(j) /\ hub'[j] = hub[j]
        BY <1>2, <2>2 DEF IInv
      <3>2. hub[j].server => port' = port
        BY <1>4, <2>2, <3>1 DEF HubOK, Answers
      <3> QED BY <1>3, <3>1, <3>2 DEF HubOK, Owns, Answers
    <2> QED BY <2>1, <2>2
  <1>8. \A u, v \in starts' : Alone(u, v)
    BY <1>3 DEF IInv
  <1> QED BY <1>5, <1>6, <1>7, <1>8 DEF IInv, Alone, Owns

(* The port changes hands between strangers: nobody of ours was on it. *)
LEMMA PortInv ==
    ASSUME IInv, OtherProgram \/ Closes
    PROVE  IInv'
  <1>1. /\ UNCHANGED <<hub, starts, stored, made>>
        /\ port = None \/ port.inst = Other \/ ~port.up
    BY DEF OtherProgram, Closes
  <1>2. TypeOK'
    <2>1. [inst |-> Other, token |-> None, up |-> TRUE] \in Listener
      BY DEF Listener
    <2>2. port' \in Listener \union {None}
      BY <2>1 DEF OtherProgram, Closes
    <2>3. changes' \in 0..MaxChanges
      BY DEF OtherProgram, Closes, Counted, IInv, TypeOK
    <2> QED BY <1>1, <2>2, <2>3 DEF IInv, TypeOK
  <1>3. \A s \in starts : StartOK(s) /\ ~Owns(s)
    BY <1>1 DEF IInv, StartOK, Answers, TypeOK, Start
  <1>4. \A i \in Instances : HubOK(i) /\ ~hub[i].server
    BY <1>1 DEF IInv, HubOK, Answers
  <1>5. \A s \in starts' : StartOK(s)'
    BY <1>1, <1>3 DEF StartOK, Owns
  <1>6. \A i \in Instances : HubOK(i)'
    BY <1>1, <1>4 DEF HubOK
  <1>7. \A s, t \in starts' : Alone(s, t)
    BY <1>1 DEF IInv
  <1> QED BY <1>2, <1>5, <1>6, <1>7 DEF IInv, Alone, Owns

(* IInv is inductive. *)
LEMMA Inductive ==
    /\ Init => IInv
    /\ IInv /\ [Next]_vars => IInv'
  <1>1. Init => IInv
    BY DEF Init, IInv, TypeOK, HubOK, NotRunning, Hub, States
  <1>2. ASSUME IInv, UNCHANGED vars PROVE IInv'
    BY <1>2 DEF IInv, TypeOK, StartOK, HubOK, Alone, Owns, Answers, vars, sharedVars
  <1>3. ASSUME IInv, NEW i \in Instances,
               \/ Launch(i) \/ RegenerateToken(i) \/ StandbyRetry(i)
               \/ \E enabled \in BOOLEAN : SettingsChanged(i, enabled)
        PROVE  IInv'
    <2>1. TypeOK /\ hub[i] \in Hub /\ HubOK(i)
      BY <1>3 DEF IInv, TypeOK
    <2>2. Counted => changes' \in 0..MaxChanges
      BY <2>1 DEF Counted, TypeOK
    <2>3. CASE Launch(i)
      <3> DEFINE h == [NotRunning EXCEPT !.up = TRUE]
      <3>1. h \in Hub /\ h.up /\ ~h.server
        BY DEF NotRunning, Hub, States
      <3>2. h.server = hub[i].server
        BY <2>1, <2>3, <3>1 DEF Launch, HubOK, Hub
      <3> HIDE DEF h
      <3> QED BY <1>3, <2>2, <2>3, <3>1, <3>2, StartServerInv DEF Launch, h
    <2>4. CASE RegenerateToken(i)
      <3> DEFINE h == [hub[i] EXCEPT !.replace = TRUE]
      <3>1. h \in Hub /\ h.up /\ h.server = hub[i].server
        BY <2>1, <2>4 DEF Hub, RegenerateToken
      <3> HIDE DEF h
      <3> QED BY <1>3, <2>2, <2>4, <3>1, StartServerInv DEF RegenerateToken, h
    <2>5. ASSUME NEW enabled \in BOOLEAN, SettingsChanged(i, enabled)
          PROVE  IInv'
      <3> DEFINE h == [hub[i] EXCEPT !.enabled = enabled]
      <3>1. h \in Hub /\ h.up /\ h.server = hub[i].server
        BY <2>1, <2>5 DEF Hub, SettingsChanged
      <3> HIDE DEF h
      <3> QED BY <1>3, <2>2, <2>5, <3>1, StartServerInv DEF SettingsChanged, h
    <2>6. CASE StandbyRetry(i)
      <3>1. hub[i].state = "Standby" /\ ~hub[i].server /\ hub[i].up
        BY <2>1, <2>6 DEF StandbyRetry, HubOK
      <3> QED BY <1>3, <2>1, <2>6, <3>1, StartServerInv DEF StandbyRetry, TypeOK
    <2> QED BY <1>3, <2>3, <2>4, <2>5, <2>6
  <1>4. ASSUME IInv, NEW i \in Instances, NEW s \in Mine(i),
               \/ Acquire(s) \/ AcquireFails(s) \/ Bind(s) \/ GiveUp(s) \/ Heard(s)
               \/ BindFails(s) \/ \E a \in BOOLEAN : Probe(s, a)
        PROVE  IInv'
    <2>1. s \in starts
      BY DEF Mine
    <2> QED BY <1>4, <2>1, AcquireInv, WorkInv, HeardInv
  <1> QED BY <1>1, <1>2, <1>3, <1>4, QuitInv, PortInv DEF Next, Starts, Works

(* The inductive invariant holds in every reachable state. *)
THEOREM Invariance == Spec => []IInv
  BY Inductive, PTL DEF Spec

(* Hubs, starts and the listener are always of their types. *)
THEOREM TypeCorrect == Spec => []TypeOK
  <1>1. IInv => TypeOK
    BY DEF IInv
  <1> QED BY <1>1, Invariance, PTL

(* What an instance shows as running answers with the token it shows,       *)
(* however many instances start, quit and regenerate.                       *)
THEOREM RunningAlwaysServes == Spec => []RunningServes
  <1>1. IInv => RunningServes
    <2> SUFFICES ASSUME IInv, NEW i \in Instances, hub[i].state = "Running"
                 PROVE  Serves /\ port.inst = i /\ port.token = hub[i].token
      BY DEF RunningServes
    <2>1. HubOK(i)
      BY DEF IInv
    <2> QED BY <2>1 DEF HubOK, Answers, Serves
  <1> QED BY <1>1, Invariance, PTL

(* An instance begins to serve with the token that is stored at that        *)
(* moment: the lock is held from reading the token to binding the port.     *)
THEOREM AlwaysServesTheStored == Spec => ServesTheStored
  <1> DEFINE A == Serves' /\ port' # port => port'.token = stored
  <1>1. IInv /\ [Next]_vars => [A]_vars
    <2> SUFFICES ASSUME IInv, Next, Serves', port' # port
                 PROVE  port'.token = stored
      BY DEF vars
    <2>1. \A i : port' # Stopped(i)
      BY DEF Stopped, Serves, IInv, TypeOK, Listener
    <2>2. PICK s \in starts : Bind(s)
      <3>1. \A i, h, takeover : ~StartServer(i, h, takeover)
        BY <2>1 DEF StartServer
      <3>2. \A i : /\ ~Launch(i) /\ ~RegenerateToken(i) /\ ~StandbyRetry(i)
                   /\ \A enabled : ~SettingsChanged(i, enabled)
        BY <3>1 DEF Launch, RegenerateToken, StandbyRetry, SettingsChanged
      <3>3. \A i : ~Quit(i)
        BY DEF Quit, Serves
      <3>4. ~OtherProgram /\ ~Closes
        BY DEF OtherProgram, Closes, Serves
      <3>5. \A s : /\ ~Acquire(s) /\ ~AcquireFails(s) /\ ~GiveUp(s) /\ ~Heard(s)
                   /\ ~BindFails(s) /\ \A a : ~Probe(s, a)
        BY <2>1 DEF Acquire, AcquireFails, BindFails, GiveUp, Heard, Probe, sharedVars
      <3> QED BY <3>2, <3>3, <3>4, <3>5 DEF Next, Starts, Works, Mine
    <2>3. s.token = stored
      BY <2>2 DEF Bind, Holding, IInv, StartOK
    <2> QED BY <2>2, <2>3 DEF Bind
  <1> QED BY <1>1, Invariance, PTL DEF Spec, ServesTheStored
=============================================================================
