-------------------------- MODULE TokenSlotProofs ---------------------------
(***************************************************************************)
(* Proofs about TokenSlot, for any number of connections and every bound.   *)
(* Base says who may do what at any time, also after calls were dropped in  *)
(* the middle.  On it rest three invariants, one for each property: every   *)
(* refresh token that can still be used is fresh or excepted (FreshInv),    *)
(* whoever is entitled to it finds the newest one (AskInv), and nothing is  *)
(* left after a sign-out (OutInv).                                          *)
(***************************************************************************)
EXTENDS TokenSlot, TLAPS, FiniteSetTheorems

USE TokensAssumption, NoneAssumption

(* The mutex is held exactly on the way from taking it to giving it back. *)
LockInv == \A o \in Ops : lock = o <=> ops[o].phase \notin {"idle", "locking"}

(* What the calls have with them: who goes to the provider has the refresh  *)
(* token of memory, who signs in an ID token; a new refresh token in an     *)
(* answer without an ID token is as good as lost.                           *)
Shape ==
    /\ \A o \in Ops :
          /\ ops[o].phase \in {"loading", "refreshing", "answered"} => o \in Callers
          /\ ops[o].phase = "writing" => o # Out
          /\ ops[o].phase = "deleting" => o = Out
          /\ ops[o].phase = "refreshing" =>
                slot.refresh # None /\ ops[o].refresh = slot.refresh
          /\ ops[o].phase = "answered" /\ ops[o].id = None /\ ops[o].refresh # None =>
                ops[o].refresh.session \in lost
    /\ ops[In].phase = "locking" => ops[In].id # None

(* The session of a sign-in that waits for the mutex is nobody's yet. *)
Older(s) ==
    s \in DOMAIN idp /\ (ops[In].phase = "locking" => s # ops[In].id.session)
Known(r) == r # None => Older(r.session)

Sessions ==
    /\ Older(1) /\ (active # None => Older(active))
    /\ Known(slot.refresh) /\ Known(keychain.refresh)
    /\ \A o \in Callers : Known(ops[o].refresh)
    /\ \A job \in jobs : Known(job.refresh)
    /\ ops[In].phase = "locking" =>
          LET s == ops[In].id.session
              r == ops[In].refresh
          IN  /\ s \in DOMAIN idp
              /\ r = None => idp[s] = None
              /\ r # None => r.session = s /\ r.nr = 0 /\ idp[s] \in {None, 0}

(* A keychain step is of the call that holds the mutex, or is the delete or  *)
(* the write of a call that was dropped: the session of a write is lost.    *)
Steps ==
    \A job \in jobs :
       /\ job.kind = "read" => lock = job.op /\ ops[job.op].phase = "loading"
       /\ job.kind = "write" /\ job.refresh # None =>
             \/ lock = job.op /\ ops[job.op].phase = "writing" /\ job.refresh = slot.refresh
             \/ job.refresh.session \in lost
       /\ job.kind = "delete" => job.id = None /\ job.refresh = None

(* Before the keychain has been read nothing has happened. *)
Loads ==
    /\ ~slot.loaded => lock = None /\ jobs = {}
    /\ ~slot.loaded \/ (\E o \in Ops : ops[o].phase = "loading") =>
          slot.id = None /\ slot.refresh = None
    /\ \A o \in Ops : ops[o].phase = "loading" => jobs = {Job(o, "read", None, None)}

Base == TypeOK /\ LockInv /\ Shape /\ Sessions /\ Steps /\ Loads

-----------------------------------------------------------------------------
(* A new refresh token of the session is on its way to memory, or to the    *)
(* keychain.                                                                *)
Answering(s) == \E o \in Ops : ops[o].phase = "answered" /\ Of(ops[o].refresh, s)
Storing(s) ==
    \E job \in jobs : /\ job.kind = "write" /\ Of(job.refresh, s)
                      /\ lock = job.op /\ ops[job.op].phase = "writing"

(* Not replaced, or excepted. *)
Fresh(r) ==
    r # None => \/ idp[r.session] \in {None, r.nr}
                \/ \E p \in Callers : r = Secrets[p].refresh
                \/ r.session \in lost

FreshInv ==
    /\ Fresh(slot.refresh) \/ Answering(slot.refresh.session)
    /\ \A o \in Ops : ops[o].phase = "answered" => Fresh(ops[o].refresh)
    /\ \/ Fresh(keychain.refresh)
       \/ Answering(keychain.refresh.session) \/ Storing(keychain.refresh.session)

(* The user has signed in and nothing has come in between. *)
Entitled == Honoured /\ active \notin lost /\ "unread" \notin since

Newest(r) == r # None /\ r.session = active /\ r.nr = idp[active]

AskInv ==
    Entitled =>
       /\ slot.loaded /\ (\A o \in Ops : ops[o].phase # "loading") =>
             Of(slot.refresh, active) /\ (Newest(slot.refresh) \/ Answering(active))
       /\ \A o \in Ops : ops[o].phase = "answered" =>
             \/ Newest(ops[o].refresh)
             \/ ops[o].refresh = None /\ Newest(slot.refresh)
       /\ Newest(keychain.refresh) \/ Answering(active) \/ Storing(active)
       /\ \A job \in jobs : /\ job.kind # "delete" /\ lock = job.op
                            /\ job.kind = "write" => job.refresh = slot.refresh

OutInv ==
    active = None =>
       /\ "restart" \notin since => slot = Empty /\ lock \in {None, Out}
       /\ since \intersect {"fallback", "undeleted"} = {} =>
             /\ slot.id = None /\ slot.refresh = None
             /\ \A o \in Ops : ops[o].phase \notin {"refreshing", "answered", "writing"}
             /\ \A job \in jobs : job.kind # "write"
             /\ keychain = Nothing \/ \E job \in jobs : job.kind = "delete"

-----------------------------------------------------------------------------
(* The states of a call that operations set are states of a call. *)
LEMMA Calls ==
    /\ Idle \in Call /\ Idle.phase = "idle" /\ Idle.ended = None
    /\ Idle.id = None /\ Idle.refresh = None
    /\ \A p \in Phases : /\ [Idle EXCEPT !.phase = p] \in Call
                         /\ [Idle EXCEPT !.phase = p].phase = p
                         /\ [Idle EXCEPT !.phase = p].ended = None
                         /\ [Idle EXCEPT !.phase = p].id = None
                         /\ [Idle EXCEPT !.phase = p].refresh = None
  BY DEF Idle, Call, Phases, Endings

(* A call that ended is idle. *)
LEMMA Endeds ==
    ASSUME NEW how \in {"token", "signIn", "error"}
    PROVE  /\ Ended(how) \in Call /\ Ended(how).phase = "idle"
           /\ Ended(how).ended = how /\ Ended(how).refresh = None
  BY DEF Ended, Idle, Call, Phases, Endings

(* A keychain step, and what it is made of. *)
LEMMA Jobs ==
    ASSUME NEW o \in Ops, NEW kind \in {"read", "write", "delete"},
           NEW id \in Id \union {None}, NEW r \in Refresh \union {None}
    PROVE  /\ Job(o, kind, id, r) \in KeychainStep /\ Job(o, kind, id, r).op = o
           /\ Job(o, kind, id, r).kind = kind
           /\ Job(o, kind, id, r).id = id /\ Job(o, kind, id, r).refresh = r
  BY DEF Job, KeychainStep

(* The sessions known stay known while nobody signs in. *)
LEMMA OlderKept ==
    ASSUME DOMAIN idp' = DOMAIN idp,
           ops'[In].phase # "locking" \/ ops'[In] = ops[In],
           NEW s, Older(s)
    PROVE  Older(s)'
  BY DEF Older

(* A step of one call that takes the mutex, keeps it or gives it back. *)
LEMMA Turn ==
    ASSUME Base, NEW o \in Ops, NEW v \in Call, lock \in {o, None},
           ops' = [ops EXCEPT ![o] = v], TypeOK', UNCHANGED keychain,
           \/ lock' = o /\ v.phase \notin {"idle", "locking"}
           \/ lock' = None /\ v.phase = "idle",
           v.phase \in {"loading", "refreshing", "answered"} => o \in Callers,
           v.phase = "writing" => o # Out, v.phase = "deleting" => o = Out,
           v.phase = "refreshing" => slot'.refresh # None /\ v.refresh = slot'.refresh,
           v.phase = "answered" /\ v.id = None /\ v.refresh # None =>
              v.refresh.session \in lost',
           lost \subseteq lost', slot'.loaded,
           active' \in {active, None} \/ (o = In /\ Older(active)'),
           DOMAIN idp' = DOMAIN idp,
           \A s \in DOMAIN idp : idp'[s] = idp[s] \/ Older(s),
           Known(slot.refresh)', o \in Callers => Known(v.refresh)',
           v.phase = "loading" => /\ jobs' = {Job(o, "read", None, None)}
                                  /\ slot'.id = None /\ slot'.refresh = None,
           \A job \in jobs' :
              \/ /\ job \in jobs
                 /\ ~(job.op = o /\ ops[o].phase = "loading")
                 /\ job.op = o /\ ops[o].phase = "writing" /\ job.kind = "write"
                      /\ job.refresh # None => job.refresh.session \in lost'
              \/ job = Job(o, "read", None, None) /\ v.phase = "loading"
              \/ job = Job(Out, "delete", None, None)
              \/ /\ job.kind = "write" /\ job.op = o /\ v.phase = "writing"
                 /\ job.refresh = slot'.refresh
    PROVE  Base'
  <1>1. /\ ops'[o] = v /\ In \in Ops /\ Callers \subseteq Ops /\ Out \in Ops
        /\ \A p \in Ops : p # o => ops'[p] = ops[p]
    BY DEF Base, TypeOK, Ops
  <1>2. LockInv'
    BY <1>1 DEF Base, LockInv
  <1>3. \A p \in Ops : p # o => ops[p].phase \in {"idle", "locking"}
    BY DEF Base, LockInv
  <1>4. Shape'
    BY <1>1, <1>3 DEF Base, Shape
  <1>5. \A s : Older(s) => Older(s)'
    BY <1>1, OlderKept
  <1>6. Sessions'
    <2>1. Older(1)' /\ (active' # None => Older(active)')
      BY <1>5 DEF Base, Sessions
    <2>2. Known(keychain.refresh)' /\ \A p \in Callers : Known(ops[p].refresh)'
      BY <1>1, <1>5 DEF Base, Sessions, Known
    <2>3. ASSUME NEW job \in jobs' PROVE Known(job.refresh)'
      <3>1. \/ job \in jobs \/ job.refresh = slot'.refresh \/ job.refresh = None
        <4>1. /\ Job(o, "read", None, None).refresh = None
              /\ Job(Out, "delete", None, None).refresh = None
          BY <1>1, Jobs
        <4> QED BY <2>3, <4>1
      <3> QED BY <1>5, <2>3, <3>1 DEF Base, Sessions, Known
    <2>4. ASSUME ops'[In].phase = "locking"
          PROVE  LET s == ops'[In].id.session
                     r == ops'[In].refresh
                 IN  /\ s \in DOMAIN idp'
                     /\ r = None => idp'[s] = None
                     /\ r # None => r.session = s /\ r.nr = 0 /\ idp'[s] \in {None, 0}
      <3>1. ops'[In] = ops[In]
        BY <1>1, <2>4
      <3>2. ~Older(ops[In].id.session)
        BY <2>4, <3>1 DEF Older
      <3> QED BY <2>4, <3>1, <3>2 DEF Base, Sessions
    <2> QED BY <2>1, <2>2, <2>3, <2>4 DEF Sessions
  <1>7. Steps'
    <2> SUFFICES ASSUME NEW job \in jobs'
                 PROVE  /\ job.kind = "read" =>
                              lock' = job.op /\ ops'[job.op].phase = "loading"
                        /\ job.kind = "write" /\ job.refresh # None =>
                              \/ /\ lock' = job.op /\ ops'[job.op].phase = "writing"
                                 /\ job.refresh = slot'.refresh
                              \/ job.refresh.session \in lost'
                        /\ job.kind = "delete" => job.id = None /\ job.refresh = None
      BY DEF Steps
    <2>1. /\ Job(o, "read", None, None).kind = "read"
          /\ Job(o, "read", None, None).op = o
          /\ Job(Out, "delete", None, None).kind = "delete"
          /\ Job(Out, "delete", None, None).id = None
          /\ Job(Out, "delete", None, None).refresh = None
      BY <1>1, Jobs
    <2>2. CASE job \in jobs /\ ~(job.op = o /\ ops[o].phase = "loading")
               /\ (job.op = o /\ ops[o].phase = "writing" /\ job.kind = "write"
                      /\ job.refresh # None => job.refresh.session \in lost')
      <3>1. job.op \in Ops
        BY <2>2 DEF Base, TypeOK, KeychainStep
      <3> QED BY <1>3, <2>2, <3>1 DEF Base, Steps
    <2> QED BY <1>1, <2>1, <2>2
  <1>8. Loads'
    <2>1. lock' # None \/ \A p \in Ops : ops'[p].phase # "loading"
      BY <1>1, <1>3
    <2> QED BY <1>1, <1>3 DEF Loads
  <1> QED BY <1>2, <1>4, <1>6, <1>7, <1>8 DEF Base

(* A step of a call that does not hold the mutex and does not take it. *)
LEMMA Bystander ==
    ASSUME Base, NEW o \in Ops, NEW v \in Call, lock # o,
           ops' = [ops EXCEPT ![o] = v], v.phase \in {"idle", "locking"},
           o = In => v.phase = "idle", v.refresh = None, TypeOK',
           UNCHANGED <<slot, keychain, lock, idp, active, jobs>>,
           lost \subseteq lost'
    PROVE  Base'
  <1>1. /\ ops'[o] = v /\ In \in Ops /\ Callers \subseteq Ops
        /\ \A p \in Ops : p # o => ops'[p] = ops[p]
    BY DEF Base, TypeOK, Ops
  <1>2. LockInv'
    BY <1>1 DEF Base, LockInv
  <1>3. ops[o].phase \in {"idle", "locking"}
    BY DEF Base, LockInv
  <1>4. Shape'
    BY <1>1, <1>3 DEF Base, Shape
  <1>5. \A s : Older(s) => Older(s)'
    BY <1>1, OlderKept
  <1>6. Sessions'
    BY <1>1, <1>5 DEF Base, Sessions, Known
  <1>7. \A job \in jobs : job.op \in Ops
    BY DEF Base, TypeOK, KeychainStep
  <1>8. Steps'
    BY <1>1, <1>3, <1>7 DEF Base, Steps
  <1>9. Loads'
    BY <1>1, <1>3 DEF Base, Loads
  <1> QED BY <1>2, <1>4, <1>6, <1>8, <1>9 DEF Base

(* A connection asks for a token, or the user for a sign-out. *)
LEMMA BeginBase ==
    ASSUME Base, NEW o \in Ops, Begin(o)
    PROVE  Base'
  <1> DEFINE v == [Idle EXCEPT !.phase = "locking"]
  <1>1. v \in Call /\ v.phase = "locking" /\ v.refresh = None
    BY Calls DEF Phases
  <1>2. /\ o # In /\ ops' = [ops EXCEPT ![o] = v] /\ lock # o
        /\ UNCHANGED <<slot, keychain, lock, idp, now, active, jobs, faults, lost, since>>
    BY DEF Begin, Op, outside, history, Base, LockInv
  <1> HIDE DEF v
  <1>3. TypeOK'
    BY <1>1, <1>2 DEF Base, TypeOK
  <1> QED BY <1>1, <1>2, <1>3, Bystander

(* A fault is counted within its bound. *)
LEMMA Faults ==
    ASSUME TypeOK, NEW fails \in BOOLEAN, FaultIf(fails) \/ Fault
    PROVE  faults' \in 0..MaxFaults
  BY DEF TypeOK, FaultIf, Fault

(* Sessions of tokens are sessions. *)
LEMMA UnstoredType ==
    ASSUME TypeOK, NEW calls
    PROVE  Unstored(calls) \subseteq 1..MaxSessions
  BY DEF Unstored

(* A future is dropped: what it had with it counts as lost. *)
LEMMA DroppedBase ==
    ASSUME Base, NEW o \in Ops, Dropped(o)
    PROVE  Base'
  <1>1. /\ ops' = [ops EXCEPT ![o] = Idle] /\ jobs' \subseteq jobs
        /\ \A job \in jobs' : job.op # o \/ job.kind # "read"
        /\ UNCHANGED <<slot, keychain, idp, now, active>>
        /\ lost' = lost \union Unstored({o})
    BY DEF Dropped, Op, outside
  <1>2. faults' \in 0..MaxFaults
    BY Faults DEF Dropped, Base
  <1>3. since' \subseteq Events
    BY DEF Dropped, Base, TypeOK, Events
  <1>4. ops' \in [Ops -> Call] /\ lock' \in Ops \union {None}
    BY <1>1, Calls DEF Base, TypeOK, Dropped
  <1>5. lost' \subseteq 1..MaxSessions
    BY <1>1, UnstoredType DEF Base, TypeOK
  <1>6. TypeOK'
    BY <1>1, <1>2, <1>3, <1>4, <1>5 DEF Base, TypeOK
  <1>7. CASE lock = o
    <2>1. lock' = None /\ slot.loaded
      BY <1>7 DEF Dropped, Base, Loads
    <2>2. ASSUME NEW job \in jobs'
          PROVE  /\ job \in jobs /\ ~(job.op = o /\ ops[o].phase = "loading")
                 /\ job.op = o /\ ops[o].phase = "writing" /\ job.kind = "write"
                      /\ job.refresh # None => job.refresh.session \in lost'
      <3>1. job \in jobs /\ job \in KeychainStep
        BY <1>1 DEF Base, TypeOK
      <3>2. ~(job.op = o /\ ops[o].phase = "loading")
        <4>1. Job(o, "read", None, None).op = o /\ Job(o, "read", None, None).kind = "read"
          BY Jobs
        <4> QED BY <1>1, <3>1, <4>1 DEF Base, Loads
      <3>3. job.op = o /\ job.kind = "write" /\ job.refresh # None
               => job.refresh.session \in Unstored({o})
        BY <3>1 DEF Unstored, Of, KeychainStep, Refresh
      <3> QED BY <1>1, <3>1, <3>2, <3>3
    <2>3. Known(slot.refresh)'
      <3>1. ops'[In].phase # "locking" \/ ops'[In] = ops[In]
        BY <1>1, Calls DEF Base, TypeOK, Ops
      <3> QED BY <1>1, <3>1, OlderKept DEF Base, Sessions, Known
    <2>4. o \in Callers => Known(Idle.refresh)'
      BY Calls DEF Known
    <2> QED BY <1>1, <1>6, <1>7, <2>1, <2>2, <2>3, <2>4, Calls, Turn
  <1>8. CASE lock # o
    <2>1. jobs' = jobs
      <3>1. \A job \in jobs : job.op # o \/ job.kind # "read"
        BY <1>8 DEF Base, Steps
      <3> QED BY <3>1 DEF Dropped
    <2>2. lock' = lock
      BY <1>8 DEF Dropped
    <2> QED BY <1>1, <1>6, <1>8, <2>1, <2>2, Calls, Bystander
  <1> QED BY <1>7, <1>8

(* The user signs in: the provider's session is a new one. *)
LEMMA SignInBase ==
    ASSUME Base, NEW withRefresh \in BOOLEAN, SignIn(withRefresh)
    PROVE  /\ Base'
           /\ \A s : Older(s) => s \in DOMAIN idp' /\ idp'[s] = idp[s]
  <1>1. PICK n \in 1..MaxSessions :
           idp \in [1..n -> (0..MaxRefreshes) \union {None}]
    BY DEF Base, TypeOK
  <1>2. Cardinality(DOMAIN idp) = n /\ DOMAIN idp = 1..n
    BY <1>1, FS_Interval
  <1> DEFINE m == n + 1
             new == IF withRefresh THEN [session |-> m, nr |-> 0] ELSE None
             v == [phase |-> "locking", ended |-> None,
                   id |-> [session |-> m, until |-> now], refresh |-> new]
  <1>3. /\ m \in 1..MaxSessions /\ m \notin DOMAIN idp
        /\ (1..n) \union {m} = 1..m
    BY <1>1, <1>2 DEF SignIn
  <1>4. /\ idp' \in [1..m -> (0..MaxRefreshes) \union {None}]
        /\ \A s \in 1..n : idp'[s] = idp[s]
        /\ idp'[m] = (IF withRefresh THEN 0 ELSE None) /\ DOMAIN idp' = 1..m
    BY <1>1, <1>2, <1>3 DEF SignIn
  <1>5. /\ ops' = [ops EXCEPT ![In] = v] /\ ops[In].phase = "idle" /\ In \in Ops
        /\ Callers \subseteq Ops
        /\ UNCHANGED <<slot, keychain, lock, jobs, now, active, faults, lost, since>>
    BY <1>2 DEF SignIn, Op, history, Ops
  <1>6. /\ v \in Call /\ v.phase = "locking" /\ v.id # None
        /\ v.id.session = m /\ v.refresh = new
        /\ new = None => idp'[m] = None
        /\ new # None => new.session = m /\ new.nr = 0 /\ idp'[m] = 0
    <2>1. [session |-> m, until |-> now] \in Id
      BY <1>3 DEF Base, TypeOK, Id
    <2>2. [session |-> m, nr |-> 0] \in Refresh
      BY <1>3 DEF Refresh
    <2>3. new \in Refresh \union {None}
      BY <2>2
    <2>4. v \in Call
      BY <2>1, <2>3 DEF Call, Phases, Endings
    <2> QED BY <1>4, <2>1, <2>2, <2>4
  <1> HIDE DEF v, new, m
  <1>7. /\ ops' \in [Ops -> Call] /\ ops'[In] = v
        /\ \A p \in Ops : p # In => ops'[p] = ops[p]
    BY <1>5, <1>6 DEF Base, TypeOK
  <1>8. TypeOK'
    BY <1>3, <1>4, <1>5, <1>7 DEF Base, TypeOK
  <1>9. LockInv' /\ Shape' /\ Loads'
    BY <1>5, <1>6, <1>7 DEF Base, LockInv, Shape, Loads
  <1>10. \A s : Older(s) => Older(s)' /\ s \in DOMAIN idp' /\ idp'[s] = idp[s]
    <2>1. 1..n \subseteq 1..m
      BY <1>3
    <2> QED BY <1>2, <1>3, <1>4, <1>6, <1>7, <2>1 DEF Older
  <1>11. Sessions'
    <2>1. In \notin Callers /\ m \in DOMAIN idp'
      BY <1>3, <1>4
    <2> QED BY <1>5, <1>6, <1>7, <1>10, <2>1 DEF Base, Sessions, Known
  <1>12. \A job \in jobs : job.op \in Ops
    BY DEF Base, TypeOK, KeychainStep
  <1>13. Steps'
    BY <1>5, <1>6, <1>7, <1>12 DEF Base, Steps
  <1> QED BY <1>8, <1>9, <1>10, <1>11, <1>13 DEF Base

(* What `token` does next with the tokens of memory. *)
LEMMA Continued ==
    ASSUME NEW c \in Callers, NEW t, Continue(c, t), t.refresh \in Refresh \union {None}
    PROVE  \E v \in Call :
              /\ ops' = [ops EXCEPT ![c] = v]
              /\ \/ /\ lock' = c /\ v.phase = "refreshing" /\ v.refresh = t.refresh
                    /\ t.refresh # None /\ v.ended # "signIn"
                 \/ /\ lock' = None /\ v.phase = "idle" /\ v.refresh = None
                    /\ v.ended = "signIn" => t.refresh = None
  <1> DEFINE w == [Idle EXCEPT !.phase = "refreshing", !.refresh = t.refresh]
  <1>1. t.refresh # None =>
           w \in Call /\ w.phase = "refreshing" /\ w.refresh = t.refresh /\ w.ended = None
    BY DEF Idle, Call, Phases, Endings
  <1>2. \A how \in {"token", "signIn"} :
           /\ Ended(how) \in Call /\ Ended(how).phase = "idle"
           /\ Ended(how).refresh = None /\ Ended(how).ended = how
    BY Endeds
  <1>3. CASE Valid(t)
    BY <1>2, <1>3 DEF Continue, Op
  <1>4. CASE ~Valid(t) /\ t.refresh = None
    BY <1>2, <1>4 DEF Continue, Op
  <1>5. CASE ~Valid(t) /\ t.refresh # None
    <2>1. ops' = [ops EXCEPT ![c] = w] /\ lock' = c
      BY <1>5 DEF Continue, Op
    <2> QED BY <1>1, <1>5, <2>1
  <1> QED BY <1>3, <1>4, <1>5

(* `token` goes on with the tokens of memory. *)
LEMMA ContinueBase ==
    ASSUME Base, NEW c \in Callers, lock \in {c, None}, Continue(c, slot'),
           slot' \in [loaded : BOOLEAN, id : Id \union {None},
                      refresh : Refresh \union {None}],
           slot'.loaded, Known(slot'.refresh),
           ops[c].phase # "writing",
           jobs' \subseteq jobs, ops[c].phase = "loading" => jobs' = {},
           faults' \in 0..MaxFaults, since' \subseteq Events,
           UNCHANGED <<keychain, idp, now, active, lost>>
    PROVE  Base'
  <1>1. c \in Ops /\ In \in Ops /\ c # In /\ slot'.refresh \in Refresh \union {None}
    BY DEF Ops
  <1>2. PICK v \in Call :
              /\ ops' = [ops EXCEPT ![c] = v]
              /\ \/ /\ lock' = c /\ v.phase = "refreshing" /\ v.refresh = slot'.refresh
                    /\ slot'.refresh # None
                 \/ lock' = None /\ v.phase = "idle" /\ v.refresh = None
    BY <1>1, Continued
  <1>3. TypeOK'
    <2>1. ops' \in [Ops -> Call]
      BY <1>1, <1>2 DEF Base, TypeOK
    <2> QED BY <1>1, <1>2, <2>1 DEF Base, TypeOK
  <1>4. Known(slot.refresh)' /\ Known(v.refresh)'
    <2>1. ops'[In] = ops[In]
      BY <1>1, <1>2 DEF Base, TypeOK
    <2> QED BY <1>2, <2>1, OlderKept DEF Known
  <1>5. \A job \in jobs' : /\ job \in jobs /\ ~(job.op = c /\ ops[c].phase = "loading")
                           /\ job.op = c /\ ops[c].phase = "writing" /\ job.kind = "write"
                                /\ job.refresh # None => job.refresh.session \in lost'
    OBVIOUS
  <1> QED BY <1>1, <1>2, <1>3, <1>4, <1>5, Turn

(* `token` with the mutex: the keychain is read once, then memory is used. *)
LEMMA LockTokenBase ==
    ASSUME Base, NEW c \in Callers, LockToken(c)
    PROVE  Base'
  <1>1. /\ c \in Ops /\ lock = None /\ ops[c].phase = "locking"
        /\ UNCHANGED <<keychain, idp, now, active, faults, lost, since>>
    BY DEF Ops, LockToken, outside, history
  <1>2. CASE slot.loaded
    <2>1. Continue(c, slot') /\ UNCHANGED <<slot, jobs>>
      BY <1>2 DEF LockToken
    <2>2. Known(slot'.refresh)
      BY <2>1 DEF Base, Sessions
    <2> QED BY <1>1, <1>2, <2>1, <2>2, ContinueBase DEF Base, TypeOK
  <1>3. CASE ~slot.loaded
    <2> DEFINE v == [Idle EXCEPT !.phase = "loading"]
               job == Job(c, "read", None, None)
    <2>1. v \in Call /\ v.phase = "loading" /\ v.refresh = None
      BY Calls DEF Phases
    <2>2. /\ slot' = [slot EXCEPT !.loaded = TRUE] /\ lock' = c
          /\ ops' = [ops EXCEPT ![c] = v] /\ jobs' = {job}
      BY <1>3 DEF LockToken, Op, Base, Loads
    <2>3. job \in KeychainStep
      BY <1>1, Jobs
    <2> HIDE DEF v
    <2>4. /\ slot' \in [loaded : BOOLEAN, id : Id \union {None},
                        refresh : Refresh \union {None}]
          /\ slot'.loaded /\ slot'.id = None /\ slot'.refresh = None
      BY <1>3, <2>2 DEF Base, TypeOK, Loads
    <2>5. ops' \in [Ops -> Call]
      BY <1>1, <2>1, <2>2 DEF Base, TypeOK
    <2>6. TypeOK'
      BY <1>1, <2>2, <2>3, <2>4, <2>5 DEF Base, TypeOK
    <2>7. Known(slot.refresh)' /\ Known(v.refresh)'
      BY <2>1, <2>4 DEF Known
    <2> QED BY <1>1, <2>1, <2>2, <2>4, <2>6, <2>7, Turn
  <1> QED BY <1>2, <1>3

(* What was loaded: from the keychain, or from the kubeconfig. *)
LEMMA LoadedTokens ==
    ASSUME Base, NEW c \in Callers, NEW fails \in BOOLEAN, Loaded(c, fails)
    PROVE  /\ slot' \in [loaded : BOOLEAN, id : Id \union {None},
                         refresh : Refresh \union {None}]
           /\ slot'.loaded /\ Continue(c, slot')
           /\ jobs = {Job(c, "read", None, None)} /\ jobs' = {}
           /\ \/ slot'.refresh = keychain.refresh /\ ~fails
              \/ slot'.refresh = Secrets[c].refresh /\ (fails \/ keychain.refresh = None)
           /\ \/ slot'.id = keychain.id /\ ~fails
              \/ slot'.id = Secrets[c].id /\ (fails \/ keychain.id = None)
           /\ slot'.refresh \in {None, First.refresh, keychain.refresh}
           /\ lock = c /\ ops[c].phase = "loading"
           /\ UNCHANGED <<keychain, idp, now, active, lost>>
  <1> DEFINE stored == IF fails THEN Nothing ELSE keychain
             t == [loaded |-> TRUE, id |-> OrElse(stored.id, Secrets[c].id),
                   refresh |-> OrElse(stored.refresh, Secrets[c].refresh)]
  <1>1. /\ c \in Ops /\ ops[c].phase = "loading" /\ slot' = t /\ Continue(c, slot')
        /\ jobs' = jobs \ {Job(c, "read", None, None)}
        /\ UNCHANGED <<keychain, idp, now, active, lost>>
    BY DEF Ops, Loaded, outside
  <1>2. lock = c /\ jobs = {Job(c, "read", None, None)} /\ jobs' = {}
    BY <1>1 DEF Base, LockInv, Loads
  <1>3. /\ stored.id \in Id \union {None} /\ stored.refresh \in Refresh \union {None}
        /\ fails => stored.id = None /\ stored.refresh = None
        /\ ~fails => stored = keychain
    BY DEF Base, TypeOK, Nothing
  <1>4. /\ Secrets[c].id \in {First.id, None}
        /\ Secrets[c].refresh \in {First.refresh, None}
    BY SecretsAssumption
  <1>5. First.id \in Id /\ First.refresh \in Refresh
    BY DEF First, Id, Refresh
  <1> HIDE DEF stored
  <1>6. /\ t.id \in Id \union {None} /\ t.refresh \in Refresh \union {None}
        /\ t.loaded = TRUE
        /\ t.refresh = OrElse(stored.refresh, Secrets[c].refresh)
        /\ t.id = OrElse(stored.id, Secrets[c].id)
    BY <1>3, <1>4, <1>5 DEF OrElse
  <1>7. t \in [loaded : BOOLEAN, id : Id \union {None}, refresh : Refresh \union {None}]
    BY <1>6
  <1> HIDE DEF t
  <1> QED BY <1>1, <1>2, <1>3, <1>4, <1>6, <1>7 DEF OrElse

(* The keychain was read while the mutex kept everybody off it. *)
LEMMA LoadedBase ==
    ASSUME Base, NEW c \in Callers, NEW fails \in BOOLEAN, Loaded(c, fails)
    PROVE  Base'
  <1>1. since' \subseteq Events
    BY DEF Loaded, Base, TypeOK, Events
  <1>2. faults' \in 0..MaxFaults
    BY Faults DEF Loaded, Base
  <1>3. Known(slot'.refresh)
    <2>1. Known(First.refresh) /\ Known(None) /\ Known(keychain.refresh)
      BY DEF Base, Sessions, Known, First
    <2> QED BY <2>1, LoadedTokens
  <1> QED BY <1>1, <1>2, <1>3, LoadedTokens, ContinueBase

(* The provider moves the session of the refresh token it is shown on. *)
LEMMA Moves ==
    ASSUME Base, NEW c \in Callers, ops[c].phase = "refreshing", NEW nr \in 0..MaxRefreshes,
           idp' = [idp EXCEPT ![ops[c].refresh.session] = nr]
    PROVE  /\ \E n \in 1..MaxSessions : idp' \in [1..n -> (0..MaxRefreshes) \union {None}]
           /\ DOMAIN idp' = DOMAIN idp
           /\ idp'[ops[c].refresh.session] = nr
           /\ \A s \in DOMAIN idp : idp'[s] = idp[s] \/ s = ops[c].refresh.session
           /\ \A s \in DOMAIN idp : idp'[s] = idp[s] \/ Older(s)
  <1>1. c \in Ops /\ ops[c].refresh # None
    BY DEF Base, Shape, Ops
  <1>2. Older(ops[c].refresh.session)
    BY <1>1 DEF Base, Sessions, Known
  <1> QED BY <1>2 DEF Older, Base, TypeOK

(* Who goes to the provider holds the mutex, with the token of memory. *)
LEMMA AtProvider ==
    ASSUME Base, NEW c \in Callers, ops[c].phase = "refreshing"
    PROVE  /\ c \in Ops /\ c # In /\ In \in Ops /\ lock = c /\ slot.loaded
           /\ ops[c].refresh = slot.refresh /\ slot.refresh \in Refresh
           /\ Older(slot.refresh.session)
  <1>1. c \in Ops /\ In \in Ops
    BY DEF Ops
  <1>2. lock = c /\ ops[c].refresh = slot.refresh /\ slot.refresh # None
    BY <1>1 DEF Base, LockInv, Shape
  <1> QED BY <1>1, <1>2 DEF Base, Loads, TypeOK, Sessions, Known

(* A call ends with the mutex given back and no keychain step left that      *)
(* could be of it and matter.                                               *)
LEMMA GivesBack ==
    ASSUME Base, NEW o \in Ops, lock = o, NEW v \in Call, v.phase = "idle",
           v.refresh = None, ops' = [ops EXCEPT ![o] = v], lock' = None,
           slot' \in {slot, [slot EXCEPT !.refresh = None]},
           \E n \in 1..MaxSessions : idp' \in [1..n -> (0..MaxRefreshes) \union {None}],
           DOMAIN idp' = DOMAIN idp,
           \A s \in DOMAIN idp : idp'[s] = idp[s] \/ Older(s),
           UNCHANGED <<keychain, jobs, now, active, since>>,
           faults' \in 0..MaxFaults, lost \subseteq lost', lost' \subseteq 1..MaxSessions,
           ops[o].phase # "loading", ops[o].phase = "writing" => \A job \in jobs : job.op # o
    PROVE  Base'
  <1>1. ops' \in [Ops -> Call]
    BY DEF Base, TypeOK
  <1>2. /\ slot' \in [loaded : BOOLEAN, id : Id \union {None},
                      refresh : Refresh \union {None}]
        /\ slot'.loaded /\ slot'.refresh \in {slot.refresh, None}
    BY DEF Base, TypeOK, Loads
  <1>3. TypeOK'
    BY <1>1, <1>2 DEF Base, TypeOK
  <1>4. Known(slot.refresh)' /\ Known(v.refresh)'
    <2>1. ops'[In].phase # "locking" \/ ops'[In] = ops[In]
      BY DEF Base, TypeOK, Ops
    <2> QED BY <1>2, <2>1, OlderKept DEF Base, Sessions, Known
  <1>5. \A job \in jobs' : /\ job \in jobs /\ ~(job.op = o /\ ops[o].phase = "loading")
                           /\ job.op = o /\ ops[o].phase = "writing" /\ job.kind = "write"
                                /\ job.refresh # None => job.refresh.session \in lost'
    OBVIOUS
  <1>6. active' \in {active, None} /\ v.phase \notin {"loading", "refreshing", "answered", "writing"}
    OBVIOUS
  <1> QED BY <1>2, <1>3, <1>4, <1>5, <1>6, Turn

(* A refresh that fails, or that the provider refuses, is over. *)
LEMMA RefreshEndsBase ==
    ASSUME Base, NEW c \in Callers, NEW rotates \in BOOLEAN,
           RefreshFails(c, rotates) \/ Rejected(c)
    PROVE  Base'
  <1>1. ops[c].phase = "refreshing"
    BY DEF RefreshFails, Rejected
  <1>2. \A how \in {"error", "signIn"} :
           Ended(how) \in Call /\ Ended(how).phase = "idle" /\ Ended(how).refresh = None
    BY Endeds
  <1>3. \E n \in 1..MaxSessions : idp \in [1..n -> (0..MaxRefreshes) \union {None}]
    BY DEF Base, TypeOK
  <1>4. CASE Rejected(c)
    <2>1. /\ slot' = [slot EXCEPT !.refresh = None] /\ lock' = None
          /\ ops' = [ops EXCEPT ![c] = Ended("signIn")]
          /\ UNCHANGED <<keychain, jobs, idp, now, active, faults, lost, since>>
      BY <1>4 DEF Rejected, Op, outside, history
    <2> QED BY <1>1, <1>2, <1>3, <2>1, AtProvider, GivesBack DEF Base, TypeOK
  <1>5. CASE RefreshFails(c, rotates)
    <2>1. /\ ops' = [ops EXCEPT ![c] = Ended("error")] /\ lock' = None
          /\ UNCHANGED <<slot, keychain, jobs, now, active, since>>
          /\ lost' = lost \union (IF rotates THEN {ops[c].refresh.session} ELSE {})
      BY <1>5 DEF RefreshFails, Op
    <2>2. faults' \in 0..MaxFaults
      BY <1>5, Faults DEF RefreshFails, Base
    <2>3. lost \subseteq lost' /\ lost' \subseteq 1..MaxSessions
      <3>1. ops[c].refresh.session \in 1..MaxSessions
        BY <1>1, AtProvider DEF Refresh
      <3> QED BY <2>1, <3>1 DEF Base, TypeOK
    <2>4. CASE rotates
      <3>1. /\ ops[c].refresh.nr + 1 \in 0..MaxRefreshes
            /\ idp' = [idp EXCEPT ![ops[c].refresh.session] = ops[c].refresh.nr + 1]
        BY <1>1, <1>5, <2>4, AtProvider DEF RefreshFails, Refresh
      <3> QED BY <1>1, <1>2, <2>1, <2>2, <2>3, <3>1, AtProvider, Moves, GivesBack
    <2>5. CASE ~rotates
      <3>1. idp' = idp
        BY <1>5, <2>5 DEF RefreshFails
      <3> QED BY <1>1, <1>2, <1>3, <2>1, <2>2, <2>3, <3>1, AtProvider, GivesBack
    <2> QED BY <2>4, <2>5
  <1> QED BY <1>4, <1>5

(* The mutex is given back only when the keychain step is over. *)
LEMMA FinishedBase ==
    ASSUME Base, NEW o \in Ops, Finished(o)
    PROVE  Base'
  <1>1. /\ lock = o /\ ops[o].phase \in {"writing", "deleting"} /\ lock' = None
        /\ \A job \in jobs : job.op # o
        /\ UNCHANGED <<slot, keychain, jobs, idp, now, active, faults, lost, since>>
    BY DEF Finished, outside, history
  <1>2. PICK v \in Call : /\ v.phase = "idle" /\ v.refresh = None
                          /\ ops' = [ops EXCEPT ![o] = v]
    <2>1. \A how \in {"token", "signIn"} :
             Ended(how) \in Call /\ Ended(how).phase = "idle" /\ Ended(how).refresh = None
      BY Endeds
    <2> QED BY <2>1, Calls DEF Finished, Op
  <1> QED BY <1>1, <1>2, GivesBack DEF Base, TypeOK

(* What the provider answers. *)
LEMMA Answers ==
    ASSUME Base, NEW c \in Callers, NEW rotates \in BOOLEAN,
           NEW withId \in BOOLEAN, Refreshed(c, rotates, withId)
    PROVE  /\ ops[c].phase = "refreshing" /\ Good(slot.refresh)
           /\ \E v \in Call : \E nr \in 0..MaxRefreshes :
                 /\ ops' = [ops EXCEPT ![c] = v] /\ v.phase = "answered"
                 /\ v.ended = None
                 /\ idp' = [idp EXCEPT ![slot.refresh.session] = nr]
                 /\ rotates => /\ v.refresh # None /\ v.refresh.nr = nr
                               /\ v.refresh.session = slot.refresh.session
                 /\ ~rotates => v.refresh = None /\ nr = slot.refresh.nr
                 /\ v.id = None <=> ~withId
           /\ lost' = lost \union (IF rotates /\ ~withId THEN {slot.refresh.session} ELSE {})
           /\ UNCHANGED <<slot, keychain, lock, jobs, now, active, since>>
  <1> DEFINE old == ops[c].refresh
             nr == IF rotates THEN old.nr + 1 ELSE old.nr
             id == IF withId THEN [session |-> old.session, until |-> now] ELSE None
             new == IF rotates THEN [old EXCEPT !.nr = nr] ELSE None
             v == [phase |-> "answered", ended |-> None, id |-> id, refresh |-> new]
  <1>1. ops[c].phase = "refreshing"
    BY DEF Refreshed
  <1>2. old = slot.refresh /\ old \in Refresh
    BY <1>1, AtProvider
  <1>3. nr \in 0..MaxRefreshes /\ now \in 0..MaxTime
    BY <1>2 DEF Base, TypeOK, Refreshed, Refresh
  <1>4. /\ [session |-> old.session, until |-> now] \in Id
        /\ [old EXCEPT !.nr = nr] \in Refresh
        /\ [old EXCEPT !.nr = nr].nr = nr /\ [old EXCEPT !.nr = nr].session = old.session
    BY <1>2, <1>3 DEF Id, Refresh
  <1>5. /\ idp' = [idp EXCEPT ![old.session] = nr] /\ Good(old)
        /\ ops' = [ops EXCEPT ![c] = v]
        /\ lost' = lost \union (IF rotates /\ ~withId THEN {old.session} ELSE {})
        /\ UNCHANGED <<slot, keychain, lock, jobs, now, active, since>>
    BY DEF Refreshed, Op
  <1>6. ~rotates => nr = old.nr
    OBVIOUS
  <1> HIDE DEF nr, old
  <1>7. /\ id \in Id \union {None} /\ (id = None <=> ~withId)
        /\ new \in Refresh \union {None}
        /\ rotates => new # None /\ new.nr = nr /\ new.session = old.session
        /\ ~rotates => new = None
    BY <1>4
  <1>8. /\ v \in Call /\ v.phase = "answered" /\ v.id = id /\ v.refresh = new
        /\ v.ended = None
    BY <1>7 DEF Call, Phases, Endings
  <1> HIDE DEF v, id, new
  <1> QED BY <1>1, <1>2, <1>3, <1>5, <1>6, <1>7, <1>8

(* The provider refreshes: it and the call know, memory and keychain do not. *)
LEMMA RefreshedBase ==
    ASSUME Base, NEW c \in Callers, NEW rotates \in BOOLEAN,
           NEW withId \in BOOLEAN, Refreshed(c, rotates, withId)
    PROVE  Base'
  <1>1. /\ ops[c].phase = "refreshing"
        /\ lost' = lost \union (IF rotates /\ ~withId THEN {slot.refresh.session} ELSE {})
        /\ UNCHANGED <<slot, keychain, lock, jobs, now, active, since>>
    BY Answers
  <1>2. PICK v \in Call, nr \in 0..MaxRefreshes :
                 /\ ops' = [ops EXCEPT ![c] = v] /\ v.phase = "answered"
                 /\ idp' = [idp EXCEPT ![slot.refresh.session] = nr]
                 /\ rotates => /\ v.refresh # None /\ v.refresh.nr = nr
                               /\ v.refresh.session = slot.refresh.session
                 /\ ~rotates => v.refresh = None /\ nr = slot.refresh.nr
                 /\ v.id = None <=> ~withId
    BY Answers
  <1>3. /\ c \in Ops /\ In \in Ops /\ c # In /\ lock = c /\ slot.loaded
        /\ ops[c].refresh = slot.refresh /\ slot.refresh \in Refresh
        /\ Older(slot.refresh.session)
    BY <1>1, AtProvider
  <1>4. /\ \E n \in 1..MaxSessions : idp' \in [1..n -> (0..MaxRefreshes) \union {None}]
        /\ DOMAIN idp' = DOMAIN idp
        /\ \A s \in DOMAIN idp : idp'[s] = idp[s] \/ Older(s)
    BY <1>1, <1>2, <1>3, Moves
  <1>5. faults' \in 0..MaxFaults
    BY Faults DEF Refreshed, Base
  <1>6. lost \subseteq lost' /\ lost' \subseteq 1..MaxSessions
    BY <1>1, <1>3 DEF Base, TypeOK, Refresh
  <1>7. TypeOK'
    <2>1. ops' \in [Ops -> Call]
      BY <1>2, <1>3 DEF Base, TypeOK
    <2> QED BY <1>1, <1>4, <1>5, <1>6, <2>1 DEF Base, TypeOK
  <1>8. Known(slot.refresh)' /\ Known(v.refresh)'
    <2>1. ops'[In] = ops[In]
      BY <1>2, <1>3 DEF Base, TypeOK
    <2>2. Older(slot.refresh.session)'
      BY <1>1, <1>3, <1>4, <2>1, OlderKept DEF Older
    <2>3. v.refresh = None \/ v.refresh.session = slot.refresh.session
      BY <1>2
    <2>4. Known(slot.refresh)'
      BY <2>2 DEF Known
    <2>5. v.refresh # None => Older(v.refresh.session)'
      BY <1>1, <2>2, <2>3 DEF Older
    <2> QED BY <2>4, <2>5 DEF Known
  <1>9. v.id = None /\ v.refresh # None => v.refresh.session \in lost'
    BY <1>1, <1>2
  <1> QED BY <1>1, <1>2, <1>3, <1>4, <1>6, <1>7, <1>8, <1>9, Turn

(* `accept`: memory has the new tokens and the keychain is about to, or, if  *)
(* there is no ID token, nothing is kept.                                   *)
LEMMA Accepted ==
    ASSUME Base, NEW o \in Ops, Accept(o)
    PROVE  \/ /\ ops[o].id = None /\ ops' = [ops EXCEPT ![o] = Ended("error")]
              /\ lock' = None /\ UNCHANGED <<slot, jobs>>
           \/ \E v \in Call : \E job \in KeychainStep :
                 /\ ops[o].id # None
                 /\ ops' = [ops EXCEPT ![o] = v] /\ v.phase = "writing"
                 /\ v.refresh = None /\ v.ended = None
                 /\ lock' = o /\ jobs' = jobs \union {job}
                 /\ job.kind = "write" /\ job.op = o /\ job.refresh = slot'.refresh
                 /\ slot' \in [loaded : BOOLEAN, id : Id \union {None},
                               refresh : Refresh \union {None}]
                 /\ slot'.loaded
                 /\ slot'.refresh = IF ops[o].refresh = None THEN slot.refresh
                                    ELSE ops[o].refresh
  <1> DEFINE r == IF ops[o].refresh = None THEN slot.refresh ELSE ops[o].refresh
             t == [loaded |-> TRUE, id |-> ops[o].id, refresh |-> r]
             v == [Idle EXCEPT !.phase = "writing"]
             job == Job(o, "write", t.id, t.refresh)
  <1>1. ops[o].id \in Id \union {None} /\ r \in Refresh \union {None}
    BY DEF Base, TypeOK, Call
  <1>2. CASE ops[o].id = None
    BY <1>2 DEF Accept, Op
  <1>3. CASE ops[o].id # None
    <2>1. /\ v \in Call /\ v.phase = "writing" /\ v.refresh = None /\ v.ended = None
      BY Calls DEF Phases
    <2> HIDE DEF r
    <2>2. /\ t \in [loaded : BOOLEAN, id : Id \union {None}, refresh : Refresh \union {None}]
          /\ t.loaded /\ t.refresh = r /\ t.id = ops[o].id
      BY <1>1
    <2>3. /\ job \in KeychainStep /\ job.kind = "write" /\ job.op = o /\ job.refresh = r
      BY <1>1, <2>2, Jobs
    <2>4. /\ slot' = t /\ lock' = o /\ ops' = [ops EXCEPT ![o] = v]
          /\ jobs' = jobs \union {job}
      BY <1>3 DEF Accept, Op, r
    <2> HIDE DEF v, t, job
    <2>5. slot'.refresh = IF ops[o].refresh = None THEN slot.refresh ELSE ops[o].refresh
      BY <2>2, <2>4 DEF r
    <2> QED BY <1>3, <2>1, <2>2, <2>3, <2>4, <2>5
  <1> QED BY <1>2, <1>3

(* `accept` for the call that has the answer, or for the sign-in. *)
LEMMA AcceptBase ==
    ASSUME Base, NEW o \in Ops, Accept(o),
           \/ o \in Callers /\ ops[o].phase = "answered" /\ UNCHANGED active
           \/ o = In /\ lock = None /\ ops[o].phase = "locking"
                     /\ active' = ops[In].id.session,
           lost \subseteq lost', lost' \subseteq 1..MaxSessions, since' \subseteq Events,
           o \in Callers => UNCHANGED since,
           UNCHANGED <<keychain, idp, now, faults>>
    PROVE  Base'
  <1>1. lock \in {o, None} /\ (o \in Callers => lock = o) /\ In \notin Callers /\ In \in Ops
    BY DEF Base, LockInv, Ops
  <1>2. \E n \in 1..MaxSessions : idp' \in [1..n -> (0..MaxRefreshes) \union {None}]
    BY DEF Base, TypeOK
  <1>3. CASE /\ ops[o].id = None /\ ops' = [ops EXCEPT ![o] = Ended("error")]
             /\ lock' = None /\ UNCHANGED <<slot, jobs>>
    <2>1. o \in Callers
      BY <1>3 DEF Base, Shape
    <2>2. Ended("error") \in Call /\ Ended("error").phase = "idle"
          /\ Ended("error").refresh = None
      BY Endeds
    <2>3. faults' \in 0..MaxFaults
      BY DEF Base, TypeOK
    <2>4. UNCHANGED <<keychain, jobs, now, active, since>> /\ DOMAIN idp' = DOMAIN idp
      BY <1>1, <1>3, <2>1
    <2>5. ops[o].phase \notin {"loading", "writing"}
      BY <1>1
    <2>6. \A s \in DOMAIN idp : idp'[s] = idp[s] \/ Older(s)
      OBVIOUS
    <2> QED BY <1>1, <1>2, <1>3, <2>1, <2>2, <2>3, <2>4, <2>5, <2>6, GivesBack
  <1>4. ASSUME NEW v \in Call, NEW job \in KeychainStep,
               /\ ops[o].id # None
               /\ ops' = [ops EXCEPT ![o] = v] /\ v.phase = "writing"
               /\ v.refresh = None
               /\ lock' = o /\ jobs' = jobs \union {job}
               /\ job.kind = "write" /\ job.op = o /\ job.refresh = slot'.refresh
               /\ slot' \in [loaded : BOOLEAN, id : Id \union {None},
                             refresh : Refresh \union {None}]
               /\ slot'.loaded
               /\ slot'.refresh = IF ops[o].refresh = None THEN slot.refresh
                                  ELSE ops[o].refresh
        PROVE  Base'
    <2>1. active' \in (1..MaxSessions) \union {None}
      BY <1>1, <1>4 DEF Base, TypeOK, Call, Id
    <2>2. TypeOK'
      <3>1. ops' \in [Ops -> Call] /\ jobs' \subseteq KeychainStep
        BY <1>4 DEF Base, TypeOK
      <3> QED BY <1>2, <1>4, <2>1, <3>1 DEF Base, TypeOK
    <2>3. \A s : Older(s) => Older(s)'
      <3>1. ops'[In].phase # "locking" \/ ops'[In] = ops[In]
        BY <1>1, <1>4 DEF Base, TypeOK
      <3> QED BY <3>1, OlderKept
    <2>4. Known(slot.refresh)'
      <3>1. CASE o \in Callers
        BY <1>4, <2>3, <3>1 DEF Base, Sessions, Known
      <3>2. CASE o = In
        <4>1. ops'[In].phase # "locking"
          BY <1>1, <1>4, <3>2 DEF Base, TypeOK
        <4>2. ops[In].refresh # None => ops[In].refresh.session \in DOMAIN idp
          BY <1>1, <3>2 DEF Base, Sessions
        <4> QED BY <1>1, <1>4, <2>3, <3>2, <4>1, <4>2 DEF Base, Sessions, Known, Older
      <3> QED BY <3>1, <3>2
    <2>5. active' \in {active, None} \/ (o = In /\ Older(active)')
      <3>1. CASE o = In
        <4>1. ops'[In].phase # "locking" /\ active' \in DOMAIN idp
          BY <1>1, <1>4, <3>1 DEF Base, TypeOK, Sessions
        <4> QED BY <3>1, <4>1 DEF Older
      <3> QED BY <3>1
    <2>6. o # Out /\ ops[o].phase \notin {"loading", "writing"} /\ Known(v.refresh)'
      BY <1>4 DEF Known
    <2>7. \A j \in jobs' :
             \/ /\ j \in jobs /\ ~(j.op = o /\ ops[o].phase = "loading")
                /\ j.op = o /\ ops[o].phase = "writing" /\ j.kind = "write"
                      /\ j.refresh # None => j.refresh.session \in lost'
             \/ j = Job(o, "read", None, None) /\ v.phase = "loading"
             \/ j = Job(Out, "delete", None, None)
             \/ /\ j.kind = "write" /\ j.op = o /\ v.phase = "writing"
                /\ j.refresh = slot'.refresh
      BY <1>4, <2>6
    <2>8. /\ UNCHANGED keychain /\ DOMAIN idp' = DOMAIN idp
          /\ \A s \in DOMAIN idp : idp'[s] = idp[s] \/ Older(s)
          /\ v.phase = "writing" /\ lost \subseteq lost'
      BY <1>4
    <2>9. /\ ops' = [ops EXCEPT ![o] = v] /\ lock' = o /\ slot'.loaded
          /\ lock \in {o, None}
      BY <1>1, <1>4
    <2>10. v.phase # "loading" /\ v.phase # "refreshing" /\ v.phase # "answered"
      BY <2>8
    <2>11. v.phase = "answered" /\ v.id = None /\ v.refresh # None =>
              v.refresh.session \in lost'
      BY <2>10
    <2>12. v.phase = "refreshing" => slot'.refresh # None /\ v.refresh = slot'.refresh
      BY <2>10
    <2>13. /\ v.phase = "loading" => /\ jobs' = {Job(o, "read", None, None)}
                                     /\ slot'.id = None /\ slot'.refresh = None
           /\ v.phase \in {"loading", "refreshing", "answered"} => o \in Callers
           /\ v.phase = "writing" => o # Out
           /\ lock' = o /\ v.phase \notin {"idle", "locking"}
      BY <2>6, <2>8, <2>9, <2>10
    <2> QED BY <2>2, <2>4, <2>5, <2>6, <2>7, <2>8, <2>9, <2>11, <2>12, <2>13, Turn, ZenonT(100)
  <1> QED BY <1>3, <1>4, Accepted

(* `sign_out` empties memory and has the keychain emptied. *)
LEMMA LockSignOutBase ==
    ASSUME Base, LockSignOut
    PROVE  Base'
  <1> DEFINE v == [Idle EXCEPT !.phase = "deleting"]
             job == Job(Out, "delete", None, None)
  <1>1. v \in Call /\ v.phase = "deleting" /\ v.refresh = None /\ Out \in Ops /\ Out # In
    BY Calls DEF Phases, Ops
  <1>2. /\ slot' = Empty /\ active' = None /\ lock = None /\ lock' = Out
        /\ ops' = [ops EXCEPT ![Out] = v] /\ jobs' = jobs \union {job}
        /\ ops[Out].phase = "locking"
        /\ UNCHANGED <<keychain, idp, now, faults, lost>>
    BY DEF LockSignOut, Op, outside
  <1>3. since' \subseteq Events
    BY DEF LockSignOut, Events
  <1>4. job \in KeychainStep
    BY <1>1, Jobs
  <1> HIDE DEF v
  <1>5. /\ slot' \in [loaded : BOOLEAN, id : Id \union {None},
                      refresh : Refresh \union {None}]
        /\ slot'.loaded /\ slot'.id = None /\ slot'.refresh = None
    BY <1>2 DEF Empty
  <1>6. TypeOK'
    <2>1. ops' \in [Ops -> Call] /\ jobs' \subseteq KeychainStep
      BY <1>1, <1>2, <1>4 DEF Base, TypeOK
    <2> QED BY <1>1, <1>2, <1>3, <1>5, <2>1 DEF Base, TypeOK
  <1>7. Known(slot.refresh)' /\ Known(v.refresh)'
    BY <1>1, <1>5 DEF Known
  <1> QED BY <1>1, <1>2, <1>5, <1>6, <1>7, Turn

(* What a keychain step leaves in the keychain. *)
LEMMA Worked ==
    ASSUME Base, NEW job \in jobs, NEW done \in SUBSET {"refresh", "id"},
           Works(job, done)
    PROVE  /\ job \in KeychainStep /\ job.kind \in {"write", "delete"}
           /\ jobs' = jobs \ {job}
           /\ UNCHANGED <<slot, lock, ops, idp, now, active>>
           /\ lost \subseteq lost' /\ lost' \subseteq 1..MaxSessions
           /\ since \subseteq since' /\ since' \subseteq since \union {"undeleted"}
           /\ keychain' \in [id : Id \union {None}, refresh : Refresh \union {None}]
           /\ job.kind = "write" =>
                 \/ keychain'.refresh = OrElse(job.refresh, keychain.refresh)
                 \/ /\ keychain'.refresh = keychain.refresh
                    /\ job.refresh # None => job.refresh.session \in lost'
           /\ job.kind = "delete" => /\ keychain'.refresh \in {None, keychain.refresh}
                                     /\ keychain' = Nothing \/ "undeleted" \in since'
           /\ keychain'.refresh \in {keychain.refresh, None, job.refresh}
  <1> DEFINE fails == IF job.kind = "write" THEN "refresh" \notin done
                      ELSE done # {"refresh", "id"}
             refresh == IF job.kind = "write" THEN OrElse(job.refresh, keychain.refresh)
                        ELSE None
             id == IF "id" \in done THEN job.id ELSE keychain.id
             r == IF "refresh" \in done THEN refresh ELSE keychain.refresh
  <1>1. /\ job \in KeychainStep /\ job.kind # "read" /\ jobs' = jobs \ {job}
        /\ keychain \in [id : Id \union {None}, refresh : Refresh \union {None}]
        /\ UNCHANGED <<slot, lock, ops, idp, now, active>>
        /\ keychain' = [id |-> id, refresh |-> r]
        /\ lost' = lost \union (IF fails /\ job.refresh # None
                                THEN {job.refresh.session} ELSE {})
        /\ since' = since \union (IF fails /\ job.kind = "delete"
                                  THEN {"undeleted"} ELSE {})
    BY DEF Base, TypeOK, Works, outside
  <1>2. /\ job.kind \in {"write", "delete"} /\ job.id \in Id \union {None}
        /\ job.refresh \in Refresh \union {None}
    BY <1>1 DEF KeychainStep
  <1>3. job.kind = "delete" => job.id = None /\ job.refresh = None
    BY DEF Base, Steps
  <1>4. job.refresh # None => job.refresh.session \in 1..MaxSessions
    BY <1>2 DEF Refresh
  <1>5. id \in Id \union {None} /\ r \in Refresh \union {None}
    BY <1>1, <1>2 DEF OrElse
  <1>6. r \in {keychain.refresh, None, job.refresh}
    BY DEF OrElse
  <1>7. job.kind = "delete" /\ ~fails => id = None /\ r = None
    BY <1>2, <1>3
  <1>8. job.kind = "write" =>
           \/ r = OrElse(job.refresh, keychain.refresh)
           \/ r = keychain.refresh /\ fails
    OBVIOUS
  <1>9. job.kind = "delete" => r \in {None, keychain.refresh}
    OBVIOUS
  <1>10. lost' \subseteq 1..MaxSessions
    BY <1>1, <1>4 DEF Base, TypeOK
  <1> HIDE DEF id, r, fails
  <1>11. keychain'.refresh = r /\ keychain'.id = id
    BY <1>1
  <1> QED BY <1>1, <1>2, <1>5, <1>6, <1>7, <1>8, <1>9, <1>10, <1>11 DEF Nothing

(* A keychain step runs. *)
LEMMA WorksBase ==
    ASSUME Base, NEW job \in jobs, NEW done \in SUBSET {"refresh", "id"},
           Works(job, done)
    PROVE  Base'
  <1>1. /\ job.kind # "read" /\ jobs' \subseteq jobs
        /\ UNCHANGED <<slot, lock, ops, idp, now, active>>
        /\ lost \subseteq lost' /\ lost' \subseteq 1..MaxSessions
        /\ since' \subseteq since \union {"undeleted"}
        /\ keychain' \in [id : Id \union {None}, refresh : Refresh \union {None}]
        /\ keychain'.refresh \in {keychain.refresh, None, job.refresh}
    BY Worked
  <1>2. faults' \in 0..MaxFaults
    BY Faults DEF Works, Base
  <1>3. since' \subseteq Events
    BY <1>1 DEF Base, TypeOK, Events
  <1>4. TypeOK'
    BY <1>1, <1>2, <1>3 DEF Base, TypeOK
  <1>5. LockInv' /\ Shape' /\ Steps'
    BY <1>1 DEF Base, LockInv, Shape, Steps
  <1>6. Sessions'
    <2>1. \A s : Older(s)' <=> Older(s)
      BY <1>1 DEF Older
    <2>2. \A r : Known(r)' <=> Known(r)
      BY <2>1 DEF Known
    <2>3. Known(keychain'.refresh)
      BY <1>1 DEF Base, Sessions, Known
    <2> QED BY <1>1, <2>1, <2>2, <2>3 DEF Base, Sessions
  <1>7. Loads'
    <2>1. \A o \in Ops : ops[o].phase # "loading"
      <3> SUFFICES ASSUME NEW o \in Ops, ops[o].phase = "loading" PROVE FALSE
        OBVIOUS
      <3>1. Job(o, "read", None, None).kind = "read"
        BY Jobs
      <3> QED BY <1>1, <3>1 DEF Base, Loads
    <2> QED BY <1>1, <2>1 DEF Base, Loads
  <1> QED BY <1>4, <1>5, <1>6, <1>7 DEF Base

(* The process restarts. *)
LEMMA RestartBase ==
    ASSUME Base, Restart
    PROVE  Base'
  <1>1. /\ slot' \in [loaded : BOOLEAN, id : Id \union {None},
                      refresh : Refresh \union {None}]
        /\ ~slot'.loaded /\ slot'.id = None /\ slot'.refresh = None
    BY DEF Restart, Empty
  <1>2. /\ jobs' = {} /\ lock' = None /\ ops' = [o \in Ops |-> Idle]
        /\ UNCHANGED <<keychain, idp, now, active>>
        /\ lost' = lost \union Unstored(Ops)
    BY DEF Restart, outside
  <1>3. ops' \in [Ops -> Call] /\ \A o \in Ops : ops'[o].phase = "idle" /\ ops'[o].refresh = None
    BY <1>2, Calls
  <1>4. faults' \in 0..MaxFaults
    BY Faults DEF Restart, Base
  <1>5. since' \subseteq Events
    BY DEF Restart, Base, TypeOK, Events
  <1>6. lost' \subseteq 1..MaxSessions
    BY <1>2, UnstoredType DEF Base, TypeOK
  <1>7. TypeOK'
    BY <1>1, <1>2, <1>3, <1>4, <1>5, <1>6 DEF Base, TypeOK
  <1>8. In \in Ops /\ None \notin Ops /\ Callers \subseteq Ops
    BY DEF Ops
  <1>9. LockInv' /\ Shape' /\ Steps' /\ Loads'
    BY <1>1, <1>2, <1>3, <1>8 DEF LockInv, Shape, Steps, Loads
  <1>10. \A s : Older(s) => Older(s)'
    BY <1>2, <1>3, <1>8, OlderKept
  <1>11. Sessions'
    BY <1>1, <1>2, <1>3, <1>8, <1>10 DEF Base, Sessions, Known
  <1> QED BY <1>7, <1>9, <1>11 DEF Base

(* Time passes, or the provider ends a session. *)
LEMMA OutsideBase ==
    ASSUME Base, Expires \/ \E s \in DOMAIN idp : Revokes(s)
    PROVE  /\ Base'
           /\ UNCHANGED <<slot, keychain, lock, ops, jobs, active, lost, since>>
           /\ \A s \in DOMAIN idp : idp'[s] \in {None, idp[s]}
           /\ DOMAIN idp' = DOMAIN idp
  <1>1. UNCHANGED <<slot, keychain, lock, ops, jobs, active, lost, since>>
    BY DEF Expires, Revokes, history
  <1>2. now' \in 0..MaxTime
    BY DEF Expires, Revokes, Base, TypeOK
  <1>3. faults' \in 0..MaxFaults
    BY DEF Expires, Revokes, Fault, history, Base, TypeOK
  <1>4. PICK n \in 1..MaxSessions :
           /\ idp \in [1..n -> (0..MaxRefreshes) \union {None}]
           /\ idp' \in [1..n -> (0..MaxRefreshes) \union {None}]
           /\ \A s \in 1..n : idp'[s] \in {None, idp[s]}
    BY DEF Expires, Revokes, Base, TypeOK
  <1>5. DOMAIN idp = 1..n /\ DOMAIN idp' = 1..n
    BY <1>4
  <1>6. TypeOK'
    BY <1>1, <1>2, <1>3, <1>4 DEF Base, TypeOK
  <1>7. LockInv' /\ Shape' /\ Steps' /\ Loads'
    BY <1>1 DEF Base, LockInv, Shape, Steps, Loads
  <1>8. Sessions'
    BY <1>1, <1>4, <1>5 DEF Base, Sessions, Known, Older
  <1> QED BY <1>1, <1>4, <1>5, <1>6, <1>7, <1>8 DEF Base

-----------------------------------------------------------------------------
(* What was fresh stays so if the provider ended its session, or if what it *)
(* did instead was lost.                                                    *)
LEMMA StillFresh ==
    ASSUME lost \subseteq lost', NEW r, Known(r), Fresh(r),
           \A s : Older(s) => idp'[s] \in {idp[s], None} \/ s \in lost'
    PROVE  Fresh(r)'
  BY DEF Fresh, Known

(* Who holds the mutex, or that nobody does, tells what is on its way. *)
LEMMA OnTheWay ==
    ASSUME Base, NEW o \in Ops, lock \in {o, None}
    PROVE  /\ \A p \in Ops : p # o => ops[p].phase \in {"idle", "locking"}
           /\ \A s : Answering(s) => lock = o /\ ops[o].phase = "answered"
                                     /\ Of(ops[o].refresh, s)
           /\ \A s : Storing(s) => lock = o /\ ops[o].phase = "writing"
                                   /\ \E job \in jobs : /\ job.op = o /\ job.kind = "write"
                                                        /\ Of(job.refresh, s)
  <1>1. \A p \in Ops : p # o => ops[p].phase \in {"idle", "locking"}
    BY DEF Base, LockInv
  <1>2. ASSUME NEW s, Answering(s)
        PROVE  lock = o /\ ops[o].phase = "answered" /\ Of(ops[o].refresh, s)
    BY <1>1, <1>2 DEF Answering, Base, LockInv
  <1>3. ASSUME NEW s, Storing(s)
        PROVE  lock = o /\ ops[o].phase = "writing"
               /\ \E job \in jobs : job.op = o /\ job.kind = "write" /\ Of(job.refresh, s)
    <2>1. None \notin Ops /\ \A job \in jobs : job.op \in Ops
      BY DEF Base, TypeOK, KeychainStep
    <2> QED BY <1>3, <2>1 DEF Storing
  <1> QED BY <1>1, <1>2, <1>3

(* With nothing on its way memory and keychain are fresh. *)
LEMMA FreshNow ==
    ASSUME Base, FreshInv, NEW o \in Ops, lock \in {o, None}
    PROVE  /\ lock = None \/ ops[o].phase # "answered" => Fresh(slot.refresh)
           /\ lock = None \/ ops[o].phase \notin {"answered", "writing"}
                 => Fresh(keychain.refresh)
  BY OnTheWay DEF FreshInv

(* Steps that leave memory, keychain and what is on its way alone. *)
LEMMA FreshQuiet ==
    ASSUME Base, FreshInv, UNCHANGED <<slot, keychain, lock, jobs>>, lost \subseteq lost',
           \A s : Older(s) => idp'[s] \in {idp[s], None} \/ s \in lost',
           \A p \in Ops : \/ ops'[p] = ops[p]
                          \/ /\ ops[p].phase \in {"idle", "locking"}
                             /\ ops'[p].phase \in {"idle", "locking"}
    PROVE  FreshInv'
  <1>1. \A s : (Answering(s) => Answering(s)') /\ (Storing(s) => Storing(s)')
    <2>1. \A job \in jobs : job.op \in Ops
      BY DEF Base, TypeOK, KeychainStep
    <2> QED BY <2>1 DEF Answering, Storing
  <1>2. Fresh(slot.refresh) => Fresh(slot.refresh)'
    BY StillFresh DEF Base, Sessions
  <1>3. Fresh(keychain.refresh) => Fresh(keychain.refresh)'
    BY StillFresh DEF Base, Sessions
  <1>4. \A p \in Ops : ops'[p].phase = "answered" => Fresh(ops[p].refresh)'
    <2> SUFFICES ASSUME NEW p \in Ops, ops'[p].phase = "answered"
                 PROVE  Fresh(ops[p].refresh)'
      OBVIOUS
    <2>1. ops'[p] = ops[p] /\ ops[p].phase = "answered" /\ p \in Callers
      BY DEF Base, Shape
    <2>2. Known(ops[p].refresh) /\ Fresh(ops[p].refresh)
      BY <2>1 DEF Base, Sessions, FreshInv
    <2> QED BY <2>1, <2>2, StillFresh
  <1> QED BY <1>1, <1>2, <1>3, <1>4 DEF FreshInv

(* Steps of the holder of the mutex after which nothing new is on its way to *)
(* memory.                                                                  *)
LEMMA FreshTurn ==
    ASSUME Base, NEW o \in Ops, NEW v \in Call, lock \in {o, None},
           ops' = [ops EXCEPT ![o] = v], v.phase # "answered",
           Fresh(slot.refresh)',
           Fresh(keychain.refresh)' \/ Storing(keychain.refresh.session)'
    PROVE  FreshInv'
  <1>1. \A p \in Ops : ops'[p].phase # "answered"
    BY OnTheWay DEF Base, TypeOK
  <1> QED BY <1>1 DEF FreshInv

(* `token` takes the mutex, and reads the keychain. *)
LEMMA FreshToken ==
    ASSUME Base, FreshInv, NEW c \in Callers,
           LockToken(c) \/ \E fails \in BOOLEAN : Loaded(c, fails)
    PROVE  FreshInv'
  <1>1. c \in Ops
    BY DEF Ops
  <1>2. CASE LockToken(c)
    <2>1. lock = None /\ UNCHANGED <<keychain, idp, lost>>
      BY <1>2 DEF LockToken, outside, history
    <2>2. Fresh(slot.refresh) /\ Fresh(keychain.refresh)
      BY <1>1, <2>1, FreshNow
    <2>3. slot'.refresh = slot.refresh
      BY <1>2 DEF LockToken, Base, TypeOK
    <2>4. Fresh(slot.refresh)' /\ Fresh(keychain.refresh)'
      BY <2>1, <2>2, <2>3 DEF Fresh
    <2>5. PICK v \in Call : ops' = [ops EXCEPT ![c] = v] /\ v.phase # "answered"
      <3>1. CASE slot.loaded
        <4>1. Continue(c, slot) /\ slot.refresh \in Refresh \union {None}
          BY <1>2, <3>1 DEF LockToken, Base, TypeOK
        <4> QED BY <4>1, Continued
      <3>2. CASE ~slot.loaded
        BY <1>2, <3>2, Calls DEF LockToken, Op, Phases
      <3> QED BY <3>1, <3>2
    <2> QED BY <1>1, <2>1, <2>4, <2>5, FreshTurn
  <1>3. ASSUME NEW fails \in BOOLEAN, Loaded(c, fails) PROVE FreshInv'
    <2>1. /\ lock = c /\ ops[c].phase = "loading"
          /\ Continue(c, slot') /\ slot'.refresh \in Refresh \union {None}
          /\ slot'.refresh \in {keychain.refresh, Secrets[c].refresh}
          /\ UNCHANGED <<keychain, idp, lost>>
      BY <1>3, LoadedTokens
    <2>2. Fresh(keychain.refresh)
      BY <1>1, <2>1, FreshNow
    <2>3. Fresh(slot.refresh)' /\ Fresh(keychain.refresh)'
      BY <2>1, <2>2 DEF Fresh
    <2>4. PICK v \in Call : ops' = [ops EXCEPT ![c] = v] /\ v.phase # "answered"
      BY <2>1, Continued
    <2> QED BY <1>1, <2>1, <2>3, <2>4, FreshTurn
  <1> QED BY <1>2, <1>3

(* The provider is asked: a refresh token it replaces is lost with the       *)
(* answer, or on its way.                                                   *)
LEMMA FreshProvider ==
    ASSUME Base, FreshInv, NEW c \in Callers, NEW rotates \in BOOLEAN,
           \/ RefreshFails(c, rotates) \/ Rejected(c)
           \/ \E withId \in BOOLEAN : Refreshed(c, rotates, withId)
    PROVE  FreshInv'
  <1> DEFINE s0 == slot.refresh.session
  <1>1. ops[c].phase = "refreshing"
    BY DEF RefreshFails, Rejected, Refreshed
  <1>2. /\ c \in Ops /\ lock = c /\ ops[c].refresh = slot.refresh
        /\ slot.refresh \in Refresh /\ Older(s0)
    BY <1>1, AtProvider
  <1>3. Fresh(slot.refresh) /\ Fresh(keychain.refresh)
    BY <1>1, <1>2, FreshNow
  <1>4. Known(slot.refresh) /\ Known(keychain.refresh)
    BY DEF Base, Sessions
  <1>5. CASE Rejected(c)
    <2>1. /\ ops' = [ops EXCEPT ![c] = Ended("signIn")]
          /\ UNCHANGED <<keychain, idp, lost>> /\ slot'.refresh = None
      BY <1>5 DEF Rejected, Op, outside, history, Base, TypeOK
    <2>2. Fresh(slot.refresh)' /\ Fresh(keychain.refresh)'
      BY <1>3, <2>1 DEF Fresh
    <2> QED BY <1>2, <2>1, <2>2, Endeds, FreshTurn
  <1>6. CASE RefreshFails(c, rotates)
    <2>1. /\ ops' = [ops EXCEPT ![c] = Ended("error")] /\ UNCHANGED <<slot, keychain>>
          /\ idp' = IF rotates THEN [idp EXCEPT ![s0] = ops[c].refresh.nr + 1] ELSE idp
          /\ lost' = lost \union (IF rotates THEN {s0} ELSE {})
      BY <1>2, <1>6 DEF RefreshFails, Op
    <2>2. \A s : Older(s) => idp'[s] \in {idp[s], None} \/ s \in lost'
      BY <2>1 DEF Older, Base, TypeOK
    <2>3. lost \subseteq lost'
      BY <2>1
    <2>4. Fresh(slot.refresh)' /\ Fresh(keychain.refresh)'
      BY <1>3, <1>4, <2>1, <2>2, <2>3, StillFresh
    <2> QED BY <1>2, <2>1, <2>4, Endeds, FreshTurn
  <1>7. ASSUME NEW withId \in BOOLEAN, Refreshed(c, rotates, withId) PROVE FreshInv'
    <2>1. /\ Good(slot.refresh)
          /\ lost' = lost \union (IF rotates /\ ~withId THEN {s0} ELSE {})
          /\ UNCHANGED <<slot, keychain, lock, jobs>>
      BY <1>7, Answers
    <2>2. PICK v \in Call, nr \in 0..MaxRefreshes :
                 /\ ops' = [ops EXCEPT ![c] = v] /\ v.phase = "answered"
                 /\ idp' = [idp EXCEPT ![s0] = nr]
                 /\ rotates => v.refresh # None /\ v.refresh.nr = nr /\ v.refresh.session = s0
                 /\ ~rotates => v.refresh = None /\ nr = slot.refresh.nr
      BY <1>7, Answers
    <2>3. /\ idp'[s0] = nr
          /\ \A s : Older(s) => idp'[s] = idp[s] \/ (s = s0 /\ rotates)
      BY <1>2, <2>1, <2>2 DEF Older, Good, Base, TypeOK
    <2>4. ops'[c] = v /\ \A p \in Ops : p # c => ops'[p].phase # "answered"
      BY <1>2, <2>2, OnTheWay DEF Base, TypeOK
    <2>5. Fresh(v.refresh)'
      BY <2>2, <2>3 DEF Fresh
    <2>6. rotates => Answering(s0)'
      BY <1>2, <2>1, <2>2, <2>4 DEF Answering, Of
    <2>7. ASSUME NEW r, Fresh(r), Known(r), r # None
          PROVE  Fresh(r)' \/ (r.session = s0 /\ rotates)
      BY <2>1, <2>3, <2>7 DEF Fresh, Known
    <2>8. /\ Fresh(slot.refresh)' \/ Answering(slot.refresh.session)'
          /\ Fresh(keychain.refresh)' \/ Answering(keychain.refresh.session)'
      <3>1. Fresh(slot.refresh)' \/ Answering(slot.refresh.session)'
        BY <1>2, <1>3, <1>4, <2>1, <2>6, <2>7
      <3>2. CASE keychain.refresh = None
        BY <2>1, <3>1, <3>2 DEF Fresh
      <3>3. CASE keychain.refresh # None
        BY <1>3, <1>4, <2>1, <2>6, <2>7, <3>1, <3>3
      <3> QED BY <3>2, <3>3
    <2> QED BY <2>4, <2>5, <2>8 DEF FreshInv
  <1> QED BY <1>5, <1>6, <1>7

(* `accept`, for the answer of a refresh or of a sign-in. *)
LEMMA FreshAccept ==
    ASSUME Base, FreshInv, NEW o \in Ops, Accept(o),
           \/ o \in Callers /\ ops[o].phase = "answered"
           \/ o = In /\ lock = None /\ ops[o].phase = "locking",
           UNCHANGED <<keychain, idp>>, lost \subseteq lost'
    PROVE  FreshInv'
  <1>1. lock \in {o, None} /\ (ops[o].phase = "answered" => lock = o)
    BY DEF Base, LockInv
  <1>2. \A s : Older(s) => idp'[s] \in {idp[s], None} \/ s \in lost'
    OBVIOUS
  <1>3. \A r : Known(r) /\ Fresh(r) => Fresh(r)'
    BY <1>2, StillFresh
  <1>4. Known(slot.refresh) /\ Known(keychain.refresh)
    BY DEF Base, Sessions
  <1>5. \A s : Answering(s) => ops[o].phase = "answered" /\ Of(ops[o].refresh, s)
    BY <1>1, OnTheWay
  <1>6. Fresh(keychain.refresh) \/ Answering(keychain.refresh.session)
    BY <1>1, OnTheWay DEF FreshInv
  <1>7. CASE /\ ops[o].id = None /\ ops' = [ops EXCEPT ![o] = Ended("error")]
             /\ lock' = None /\ UNCHANGED <<slot, jobs>>
    <2>1. \A s : Answering(s) => s \in lost
      BY <1>5, <1>7 DEF Base, Shape, Of
    <2>2. Fresh(slot.refresh) /\ Fresh(keychain.refresh)
      BY <1>6, <2>1 DEF FreshInv, Fresh
    <2>3. Fresh(slot.refresh)' /\ Fresh(keychain.refresh)'
      BY <1>3, <1>4, <1>7, <2>2
    <2> QED BY <1>1, <1>7, <2>3, Endeds, FreshTurn
  <1>8. ASSUME NEW v \in Call, NEW job \in KeychainStep,
               /\ ops' = [ops EXCEPT ![o] = v] /\ v.phase = "writing"
               /\ lock' = o /\ jobs' = jobs \union {job}
               /\ job.kind = "write" /\ job.op = o /\ job.refresh = slot'.refresh
               /\ slot'.refresh = IF ops[o].refresh = None THEN slot.refresh
                                  ELSE ops[o].refresh
        PROVE  FreshInv'
    <2>1. Fresh(slot.refresh)'
      <3>1. CASE ops[o].refresh = None
        <4>1. Fresh(slot.refresh)
          BY <1>5, <3>1 DEF FreshInv, Of
        <4> QED BY <1>3, <1>4, <1>8, <3>1, <4>1
      <3>2. CASE ops[o].refresh # None /\ o \in Callers
        <4>1. Fresh(ops[o].refresh) /\ Known(ops[o].refresh)
          BY <3>2 DEF FreshInv, Base, Sessions
        <4> QED BY <1>3, <1>8, <3>2, <4>1
      <3>3. CASE ops[o].refresh # None /\ o = In
        <4>1. /\ ops[In].refresh.nr = 0
              /\ idp[ops[In].refresh.session] \in {None, 0}
          BY <3>3 DEF Base, Sessions
        <4> QED BY <1>8, <3>3, <4>1 DEF Fresh
      <3> QED BY <3>1, <3>2, <3>3
    <2>2. Fresh(keychain.refresh)' \/ Storing(keychain.refresh.session)'
      <3>1. CASE Fresh(keychain.refresh)
        BY <1>3, <1>4, <3>1
      <3>2. CASE Answering(keychain.refresh.session)
        <4>1. Of(ops[o].refresh, keychain.refresh.session)
          BY <1>5, <3>2
        <4>2. Of(job.refresh, keychain'.refresh.session)
          BY <1>8, <4>1 DEF Of
        <4>3. ops'[o].phase = "writing"
          BY <1>8 DEF Base, TypeOK
        <4> QED BY <1>8, <4>2, <4>3 DEF Storing
      <3> QED BY <1>6, <3>1, <3>2
    <2> QED BY <1>1, <1>8, <2>1, <2>2, FreshTurn
  <1>9. \/ /\ ops[o].id = None /\ ops' = [ops EXCEPT ![o] = Ended("error")]
           /\ lock' = None /\ UNCHANGED <<slot, jobs>>
        \/ \E v \in Call : \E job \in KeychainStep :
               /\ ops' = [ops EXCEPT ![o] = v] /\ v.phase = "writing"
               /\ lock' = o /\ jobs' = jobs \union {job}
               /\ job.kind = "write" /\ job.op = o /\ job.refresh = slot'.refresh
               /\ slot'.refresh = IF ops[o].refresh = None THEN slot.refresh
                                  ELSE ops[o].refresh
    BY Accepted
  <1> QED BY <1>7, <1>8, <1>9

(* What a call has with it when it is dropped counts as lost. *)
LEMMA UnstoredHas ==
    ASSUME Base, NEW calls, NEW o \in Ops, o \in calls
    PROVE  /\ ops[o].phase = "answered" /\ ops[o].refresh # None =>
                 ops[o].refresh.session \in Unstored(calls)
           /\ \A job \in jobs :
                 job.op = o /\ job.kind = "write" /\ job.refresh # None =>
                    job.refresh.session \in Unstored(calls)
  BY DEF Base, TypeOK, Call, KeychainStep, Refresh, Unstored, Of

(* Calls that end, are dropped, or begin to sign out. *)
LEMMA FreshEnds ==
    ASSUME Base, FreshInv, NEW o \in Ops,
           Finished(o) \/ Dropped(o) \/ (o = Out /\ LockSignOut)
    PROVE  FreshInv'
  <1>1. Known(slot.refresh) /\ Known(keychain.refresh)
    BY DEF Base, Sessions
  <1>2. CASE Finished(o)
    <2>1. /\ lock = o /\ ops[o].phase \in {"writing", "deleting"}
          /\ \A job \in jobs : job.op # o
          /\ UNCHANGED <<slot, keychain, idp, lost>>
      BY <1>2 DEF Finished, outside, history
    <2>2. Fresh(slot.refresh) /\ Fresh(keychain.refresh)
      BY <2>1, FreshNow, OnTheWay DEF FreshInv
    <2>3. Fresh(slot.refresh)' /\ Fresh(keychain.refresh)'
      BY <2>1, <2>2 DEF Fresh
    <2>4. PICK v \in Call : ops' = [ops EXCEPT ![o] = v] /\ v.phase = "idle"
      BY <1>2, Calls, Endeds DEF Finished, Op
    <2> QED BY <2>1, <2>3, <2>4, FreshTurn
  <1>3. CASE o = Out /\ LockSignOut
    <2>1. /\ lock = None /\ slot'.refresh = None /\ UNCHANGED <<keychain, idp, lost>>
          /\ ops' = [ops EXCEPT ![o] = [Idle EXCEPT !.phase = "deleting"]]
      BY <1>3 DEF LockSignOut, Empty, outside, Op
    <2>2. Fresh(slot.refresh)' /\ Fresh(keychain.refresh)'
      BY <2>1, FreshNow DEF Fresh
    <2> QED BY <2>1, <2>2, Calls, FreshTurn DEF Phases
  <1>4. CASE Dropped(o)
    <2>1. /\ ops' = [ops EXCEPT ![o] = Idle] /\ UNCHANGED <<slot, keychain, idp>>
          /\ lost' = lost \union Unstored({o})
          /\ jobs' = {job \in jobs : job.op # o \/ job.kind # "read"}
          /\ lock' = IF lock = o THEN None ELSE lock
      BY <1>4 DEF Dropped, Op, outside
    <2>2. \A s : Older(s) => idp'[s] \in {idp[s], None} \/ s \in lost'
      BY <2>1
    <2>3. \A r : Known(r) /\ Fresh(r) => Fresh(r)'
      BY <2>1, <2>2, StillFresh
    <2>4. CASE lock = o
      <3>1. \A s : Answering(s) \/ Storing(s) => s \in lost'
        BY <2>1, <2>4, OnTheWay, UnstoredHas DEF Of
      <3>2. Fresh(slot.refresh)' /\ Fresh(keychain.refresh)'
        <4>1. CASE Fresh(slot.refresh) /\ Fresh(keychain.refresh)
          BY <1>1, <2>1, <2>3, <4>1
        <4>2. Fresh(slot.refresh)'
          <5>1. Answering(slot.refresh.session) => slot'.refresh.session \in lost'
            BY <2>1, <3>1
          <5> QED BY <1>1, <2>1, <2>3, <5>1 DEF FreshInv, Fresh
        <4>3. Fresh(keychain.refresh)'
          <5>1. Answering(keychain.refresh.session) \/ Storing(keychain.refresh.session)
                   => keychain'.refresh.session \in lost'
            BY <2>1, <3>1
          <5> QED BY <1>1, <2>1, <2>3, <5>1 DEF FreshInv, Fresh
        <4> QED BY <4>2, <4>3
      <3> QED BY <2>1, <2>4, <3>2, Calls, FreshTurn
    <2>5. CASE lock # o
      <3>1. jobs' = jobs
        <4>1. \A job \in jobs : job.op # o \/ job.kind # "read"
          BY <2>5 DEF Base, Steps
        <4> QED BY <2>1, <4>1
      <3>2. ops[o].phase \in {"idle", "locking"}
        BY <2>5 DEF Base, LockInv
      <3>3. \A p \in Ops : \/ ops'[p] = ops[p]
                           \/ /\ ops[p].phase \in {"idle", "locking"}
                              /\ ops'[p].phase \in {"idle", "locking"}
        BY <2>1, <3>2, Calls DEF Base, TypeOK
      <3> QED BY <2>1, <2>2, <2>5, <3>1, <3>3, FreshQuiet
    <2> QED BY <2>4, <2>5
  <1> QED BY <1>2, <1>3, <1>4

(* A keychain step: what is written is fresh. *)
LEMMA FreshWorks ==
    ASSUME Base, FreshInv, NEW job \in jobs, NEW done \in SUBSET {"refresh", "id"},
           Works(job, done)
    PROVE  FreshInv'
  <1>1. /\ job \in KeychainStep /\ job.kind \in {"write", "delete"}
        /\ jobs' = jobs \ {job}
        /\ UNCHANGED <<slot, lock, ops, idp>> /\ lost \subseteq lost'
        /\ job.kind = "write" =>
              \/ keychain'.refresh = OrElse(job.refresh, keychain.refresh)
              \/ /\ keychain'.refresh = keychain.refresh
                 /\ job.refresh # None => job.refresh.session \in lost'
        /\ job.kind = "delete" => keychain'.refresh \in {None, keychain.refresh}
    BY Worked
  <1>2. \A s : Older(s) => idp'[s] \in {idp[s], None} \/ s \in lost'
    BY <1>1
  <1>3. \A r : Known(r) /\ Fresh(r) => Fresh(r)'
    BY <1>1, <1>2, StillFresh
  <1>4. \A s : Answering(s) => Answering(s)'
    BY <1>1 DEF Answering
  <1>5. Fresh(slot.refresh)' \/ Answering(slot.refresh.session)'
    BY <1>1, <1>3, <1>4 DEF FreshInv, Base, Sessions
  <1>6. \A o \in Ops : ops'[o].phase = "answered" => Fresh(ops[o].refresh)'
    BY <1>1, <1>3 DEF FreshInv, Base, Sessions, Shape
  <1>7. \/ Fresh(keychain.refresh)'
        \/ Answering(keychain.refresh.session)' \/ Storing(keychain.refresh.session)'
    <2>1. CASE keychain'.refresh = None
      BY <2>1 DEF Fresh
    <2>2. CASE job.kind = "write" /\ job.refresh # None /\ keychain'.refresh = job.refresh
      <3>1. CASE job.refresh.session \in lost
        BY <1>1, <2>2, <3>1 DEF Fresh
      <3>2. CASE lock = job.op /\ ops[job.op].phase = "writing" /\ job.refresh = slot.refresh
        <4>1. job.op \in Ops
          BY <1>1 DEF KeychainStep
        <4>2. Fresh(slot.refresh) /\ Known(slot.refresh)
          BY <3>2, <4>1, FreshNow DEF Base, Sessions
        <4> QED BY <1>3, <2>2, <3>2, <4>2
      <3> QED BY <2>2, <3>1, <3>2 DEF Base, Steps
    <2>3. CASE /\ keychain'.refresh = keychain.refresh /\ keychain.refresh # None
               /\ job.kind = "write" /\ job.refresh # None => job.refresh.session \in lost'
      <3>1. Fresh(keychain.refresh) => Fresh(keychain.refresh)'
        BY <1>3, <2>3 DEF Base, Sessions
      <3>2. Answering(keychain.refresh.session) => Answering(keychain.refresh.session)'
        BY <1>4, <2>3
      <3>3. ASSUME Storing(keychain.refresh.session)
            PROVE  Fresh(keychain.refresh)' \/ Storing(keychain.refresh.session)'
        <4>1. PICK j \in jobs : /\ j.kind = "write" /\ Of(j.refresh, keychain.refresh.session)
                                /\ lock = j.op /\ ops[j.op].phase = "writing"
          BY <3>3 DEF Storing
        <4>2. CASE j = job
          <5>1. keychain'.refresh.session \in lost'
            BY <2>3, <4>1, <4>2 DEF Of
          <5> QED BY <5>1 DEF Fresh
        <4>3. CASE j # job
          <5>1. j \in jobs'
            BY <1>1, <4>3
          <5> QED BY <1>1, <2>3, <4>1, <5>1 DEF Storing
        <4> QED BY <4>2, <4>3
      <3> QED BY <3>1, <3>2, <3>3 DEF FreshInv
    <2> QED BY <1>1, <2>1, <2>2, <2>3 DEF OrElse
  <1> QED BY <1>5, <1>6, <1>7 DEF FreshInv

(* A restart: what had not been stored is lost. *)
LEMMA FreshRestart ==
    ASSUME Base, FreshInv, Restart
    PROVE  FreshInv'
  <1>1. /\ slot'.refresh = None /\ UNCHANGED <<keychain, idp>>
        /\ lost' = lost \union Unstored(Ops) /\ ops' = [o \in Ops |-> Idle]
    BY DEF Restart, Empty, outside
  <1>2. \A o \in Ops : ops'[o].phase = "idle"
    BY <1>1, Calls
  <1>3. \A s : Answering(s) \/ Storing(s) => s \in Unstored(Ops)
    <2>1. \A job \in jobs : job.op \in Ops
      BY DEF Base, TypeOK, KeychainStep
    <2> QED BY <2>1, UnstoredHas DEF Answering, Storing, Of
  <1>4. Fresh(keychain.refresh)'
    BY <1>1, <1>3 DEF FreshInv, Fresh
  <1> QED BY <1>1, <1>2, <1>4 DEF FreshInv, Fresh

-----------------------------------------------------------------------------
(* Who is entitled was so before, unless they have just signed in. *)
LEMMA WasEntitled ==
    ASSUME Entitled', UNCHANGED active, lost \subseteq lost', since \subseteq since',
           idp'[active] \in {idp[active], None}
    PROVE  /\ Entitled /\ idp'[active] = idp[active]
           /\ \A r : Newest(r) <=> r # None /\ r.session = active' /\ r.nr = idp'[active']
  BY DEF Entitled, Honoured, Newest

(* Whoever has the mutex, or nobody: memory and keychain have the newest     *)
(* refresh token if nothing is on its way, and there is no keychain step if *)
(* none is waited for.                                                      *)
LEMMA Has ==
    ASSUME Base, AskInv, Entitled, NEW o \in Ops, lock \in {o, None}
    PROVE  /\ \/ lock = o /\ ops[o].phase \in {"answered", "loading"}
              \/ ~slot.loaded
              \/ Newest(slot.refresh)
           /\ \/ lock = o /\ ops[o].phase \in {"answered", "writing"}
              \/ Newest(keychain.refresh)
           /\ (lock = o => ops[o].phase \notin {"loading", "writing"}) => jobs = {}
  <1>1. ASSUME lock # o \/ ops[o].phase # "answered" PROVE ~Answering(active)
    BY <1>1, OnTheWay
  <1>2. ASSUME lock # o \/ ops[o].phase # "writing" PROVE ~Storing(active)
    BY <1>2, OnTheWay
  <1>3. lock # o \/ ops[o].phase # "loading" =>
           \A p \in Ops : ops[p].phase # "loading"
    BY OnTheWay DEF Base, LockInv
  <1>4. ASSUME lock = o => ops[o].phase \notin {"loading", "writing"},
               NEW job \in jobs
        PROVE  FALSE
    <2>1. /\ job.kind # "delete" /\ lock = job.op
          /\ job.kind = "write" => job.refresh = slot.refresh
      BY DEF AskInv
    <2>2. job \in KeychainStep /\ job.op = o /\ lock = o
      BY <2>1 DEF Base, TypeOK, KeychainStep
    <2>3. job.kind = "write" /\ job.refresh = slot.refresh
      BY <1>4, <2>1, <2>2 DEF Base, Steps, KeychainStep
    <2>4. Of(slot.refresh, active)
      BY <1>3, <1>4, <2>2 DEF AskInv, Base, Loads
    <2>5. job.refresh.session \in lost
      BY <1>4, <2>2, <2>3, <2>4 DEF Base, Steps, Of
    <2> QED BY <2>3, <2>4, <2>5 DEF Of, Entitled
  <1> QED BY <1>1, <1>2, <1>3, <1>4 DEF AskInv

(* A step of the call that has the mutex, to memory and keychain with the   *)
(* newest refresh token.                                                    *)
LEMMA AskTurn ==
    ASSUME Base, NEW o \in Ops, NEW v \in Call, lock \in {o, None},
           ops' = [ops EXCEPT ![o] = v], v.phase # "answered",
           Entitled' =>
              /\ slot'.loaded /\ v.phase # "loading" => Newest(slot.refresh)'
              /\ Newest(keychain.refresh)' \/ Storing(active)'
              /\ \A job \in jobs' : /\ job.kind # "delete" /\ lock' = job.op
                                    /\ job.kind = "write" => job.refresh = slot'.refresh
    PROVE  AskInv'
  <1>1. \A p \in Ops : ops'[p].phase # "answered"
    BY OnTheWay DEF Base, TypeOK
  <1>2. (\A p \in Ops : ops'[p].phase # "loading") => v.phase # "loading"
    BY DEF Base, TypeOK
  <1>3. Newest(slot.refresh)' => Of(slot.refresh, active)'
    BY DEF Newest, Of
  <1> QED BY <1>1, <1>2, <1>3 DEF AskInv

(* Steps that leave memory, keychain and what is on its way alone. *)
LEMMA AskQuiet ==
    ASSUME Base, AskInv, UNCHANGED <<slot, keychain, lock, jobs, active>>,
           lost \subseteq lost', since \subseteq since',
           \A s : Older(s) => idp'[s] \in {idp[s], None},
           \A p \in Ops : \/ ops'[p] = ops[p]
                          \/ /\ ops[p].phase \in {"idle", "locking"}
                             /\ ops'[p].phase \in {"idle", "locking"}
    PROVE  AskInv'
  <1> SUFFICES ASSUME Entitled' PROVE AskInv'
    BY DEF AskInv
  <1>1. idp'[active] \in {idp[active], None}
    <2>1. active # None
      BY DEF Entitled, Honoured
    <2> QED BY <2>1 DEF Base, Sessions
  <1>2. /\ Entitled
        /\ \A r : Newest(r) <=> r # None /\ r.session = active' /\ r.nr = idp'[active']
    BY <1>1, WasEntitled
  <1>3. (Answering(active) => Answering(active)') /\ (Storing(active) => Storing(active)')
    <2>1. \A job \in jobs : job.op \in Ops
      BY DEF Base, TypeOK, KeychainStep
    <2> QED BY <2>1 DEF Answering, Storing
  <1>4. \A p \in Ops : ops'[p].phase = "answered" => ops'[p] = ops[p]
    OBVIOUS
  <1>5. (\A p \in Ops : ops'[p].phase # "loading") => \A p \in Ops : ops[p].phase # "loading"
    OBVIOUS
  <1>6. Of(slot.refresh, active) => Of(slot.refresh, active)'
    BY DEF Of
  <1>7. (slot.loaded /\ \A p \in Ops : ops[p].phase # "loading")' =>
             Of(slot.refresh, active)' /\ (Newest(slot.refresh)' \/ Answering(active)')
    BY <1>2, <1>3, <1>5, <1>6 DEF AskInv, Newest
  <1>8. \A p \in Ops : ops'[p].phase = "answered" =>
             \/ Newest(ops[p].refresh)'
             \/ ops'[p].refresh = None /\ Newest(slot.refresh)'
    BY <1>2, <1>4 DEF AskInv, Newest
  <1>9. Newest(keychain.refresh)' \/ Answering(active)' \/ Storing(active)'
    BY <1>2, <1>3 DEF AskInv, Newest
  <1> QED BY <1>2, <1>7, <1>8, <1>9 DEF AskInv

(* `token` takes the mutex, and reads the keychain. *)
LEMMA AskToken ==
    ASSUME Base, AskInv, NEW c \in Callers,
           LockToken(c) \/ \E fails \in BOOLEAN : Loaded(c, fails)
    PROVE  AskInv'
  <1>1. c \in Ops
    BY DEF Ops
  <1>2. CASE LockToken(c)
    <2>1. lock = None /\ UNCHANGED <<keychain, idp, active, lost, since>>
      BY <1>2 DEF LockToken, outside, history
    <2>2. Entitled' => Entitled
      BY <2>1 DEF Entitled, Honoured
    <2>3. Entitled => jobs = {} /\ Newest(keychain.refresh)
                      /\ (slot.loaded => Newest(slot.refresh))
      BY <1>1, <2>1, Has
    <2>4. CASE slot.loaded
      <3>1. Continue(c, slot) /\ UNCHANGED <<slot, jobs>>
            /\ slot.refresh \in Refresh \union {None}
        BY <1>2, <2>4 DEF LockToken, Base, TypeOK
      <3>2. PICK v \in Call : ops' = [ops EXCEPT ![c] = v] /\ v.phase # "answered"
        BY <3>1, Continued
      <3>3. Entitled' => jobs' = {} /\ Newest(keychain.refresh)' /\ Newest(slot.refresh)'
        BY <2>1, <2>2, <2>3, <2>4, <3>1 DEF Newest
      <3> QED BY <1>1, <2>1, <3>2, <3>3, AskTurn
    <2>5. CASE ~slot.loaded
      <3> DEFINE v == [Idle EXCEPT !.phase = "loading"]
                 job == Job(c, "read", None, None)
      <3>1. /\ ops' = [ops EXCEPT ![c] = v] /\ jobs' = jobs \union {job} /\ lock' = c
        BY <1>2, <2>5 DEF LockToken, Op
      <3>2. v \in Call /\ v.phase = "loading" /\ job.kind = "read" /\ job.op = c
        BY <1>1, Calls, Jobs DEF Phases
      <3> HIDE DEF v, job
      <3>3. Entitled' => jobs' = {job} /\ Newest(keychain.refresh)'
        BY <2>1, <2>2, <2>3, <3>1 DEF Newest
      <3> QED BY <1>1, <2>1, <3>1, <3>2, <3>3, AskTurn
    <2> QED BY <2>4, <2>5
  <1>3. ASSUME NEW fails \in BOOLEAN, Loaded(c, fails) PROVE AskInv'
    <2>1. /\ lock = c /\ ops[c].phase = "loading"
          /\ jobs' = {} /\ UNCHANGED <<keychain, idp, active, lost>>
          /\ \/ slot'.refresh = keychain.refresh /\ ~fails
             \/ slot'.refresh = Secrets[c].refresh /\ (fails \/ keychain.refresh = None)
          /\ Continue(c, slot') /\ slot'.refresh \in Refresh \union {None}
      BY <1>3, LoadedTokens
    <2>2. since \subseteq since' /\ (fails => "unread" \in since')
      BY <1>3 DEF Loaded
    <2>3. Entitled' => Entitled /\ ~fails
      BY <2>1, <2>2 DEF Entitled, Honoured
    <2>4. Entitled' => Newest(keychain.refresh)
      BY <1>1, <2>1, <2>3, Has
    <2>5. Entitled' => slot'.refresh = keychain.refresh
      BY <2>1, <2>3, <2>4 DEF Newest
    <2>6. Entitled' => Newest(keychain.refresh)' /\ Newest(slot.refresh)'
      BY <2>1, <2>4, <2>5 DEF Newest
    <2>7. PICK v \in Call : ops' = [ops EXCEPT ![c] = v] /\ v.phase # "answered"
      BY <2>1, Continued
    <2> QED BY <1>1, <2>1, <2>6, <2>7, AskTurn
  <1> QED BY <1>2, <1>3

(* The provider is asked with the newest refresh token and so takes it. *)
LEMMA AskProvider ==
    ASSUME Base, AskInv, NEW c \in Callers, NEW rotates \in BOOLEAN,
           \/ RefreshFails(c, rotates) \/ Rejected(c)
           \/ \E withId \in BOOLEAN : Refreshed(c, rotates, withId)
    PROVE  AskInv' /\ (Rejected(c) => ~Entitled)
  <1> DEFINE s0 == slot.refresh.session
  <1>1. ops[c].phase = "refreshing"
    BY DEF RefreshFails, Rejected, Refreshed
  <1>2. /\ c \in Ops /\ lock = c /\ ops[c].refresh = slot.refresh /\ slot.loaded
        /\ slot.refresh \in Refresh /\ Older(s0)
    BY <1>1, AtProvider
  <1>3. Entitled => jobs = {} /\ Newest(slot.refresh) /\ Newest(keychain.refresh)
    BY <1>1, <1>2, Has
  <1>4. ASSUME Rejected(c) PROVE ~Entitled
    <2>1. Newest(slot.refresh) => Good(ops[c].refresh)
      BY <1>2 DEF Newest, Good
    <2> QED BY <1>3, <1>4, <2>1 DEF Rejected
  <1>5. CASE Rejected(c)
    <2>1. UNCHANGED <<idp, active, lost, since>>
      BY <1>5 DEF Rejected, outside, history
    <2>2. ~Entitled'
      BY <1>4, <1>5, <2>1 DEF Entitled, Honoured
    <2> QED BY <1>4, <2>2 DEF AskInv
  <1>6. CASE RefreshFails(c, rotates)
    <2>1. /\ ops' = [ops EXCEPT ![c] = Ended("error")] /\ UNCHANGED <<slot, keychain, jobs>>
          /\ UNCHANGED <<active, since>>
          /\ rotates => Good(slot.refresh) /\ lost' = lost \union {s0}
                        /\ idp' = [idp EXCEPT ![s0] = slot.refresh.nr + 1]
          /\ ~rotates => idp' = idp /\ lost' = lost
      BY <1>2, <1>6 DEF RefreshFails, Op
    <2>2. Entitled' => ~rotates /\ Entitled
      <3>1. CASE rotates
        <4>1. Entitled' => Entitled
          <5>1. active = s0 => Entitled' = FALSE
            BY <2>1, <3>1 DEF Entitled
          <5>2. active # None /\ active # s0 => idp'[active] = idp[active]
            BY <2>1, <3>1 DEF Base, Sessions, Older
          <5> QED BY <2>1, <3>1, <5>1, <5>2 DEF Entitled, Honoured
        <4>2. Entitled => s0 = active
          BY <1>3 DEF Newest
        <4> QED BY <2>1, <3>1, <4>1, <4>2 DEF Entitled
      <3>2. CASE ~rotates
        BY <2>1, <3>2 DEF Entitled, Honoured
      <3> QED BY <3>1, <3>2
    <2>3. Entitled' => jobs' = {} /\ Newest(slot.refresh)' /\ Newest(keychain.refresh)'
      BY <1>3, <2>1, <2>2 DEF Newest
    <2>4. Ended("error") \in Call /\ Ended("error").phase = "idle"
      BY Endeds
    <2>5. AskInv'
      BY <1>2, <2>1, <2>3, <2>4, AskTurn
    <2>6. ~Rejected(c) \/ ~Entitled
      BY <1>4
    <2> QED BY <2>5, <2>6
  <1>7. ASSUME NEW withId \in BOOLEAN, Refreshed(c, rotates, withId)
        PROVE  AskInv' /\ (Rejected(c) => ~Entitled)
    <2>1. /\ Good(slot.refresh) /\ lost \subseteq lost'
          /\ UNCHANGED <<slot, keychain, lock, jobs, now, active, since>>
      BY <1>7, Answers
    <2>2. PICK v \in Call, nr \in 0..MaxRefreshes :
             /\ ops' = [ops EXCEPT ![c] = v] /\ v.phase = "answered"
             /\ idp' = [idp EXCEPT ![s0] = nr]
             /\ rotates => v.refresh # None /\ v.refresh.nr = nr /\ v.refresh.session = s0
             /\ ~rotates => v.refresh = None /\ nr = slot.refresh.nr
      BY <1>7, Answers
    <2>3. idp[s0] # None /\ s0 \in DOMAIN idp
      BY <1>2, <2>1 DEF Good, Refresh, Older
    <2>4. ASSUME Entitled' PROVE Entitled
      <3>1. CASE active = s0
        BY <2>1, <2>3, <2>4, <3>1 DEF Entitled, Honoured
      <3>2. CASE active # s0
        <4>1. active # None /\ active \in DOMAIN idp
          BY <2>1, <2>4 DEF Entitled, Honoured, Base, Sessions, Older
        <4>2. idp'[active] = idp[active]
          BY <2>2, <3>2, <4>1
        <4> QED BY <2>1, <2>4, <4>2 DEF Entitled, Honoured
      <3> QED BY <3>1, <3>2
    <2>5. ASSUME Entitled' PROVE AskInv'
      <3>1. /\ jobs' = {} /\ Newest(slot.refresh) /\ Newest(keychain.refresh)
            /\ s0 = active /\ idp'[active'] = nr
        BY <1>3, <2>1, <2>2, <2>3, <2>4, <2>5 DEF Newest
      <3>2. /\ ops'[c] = v /\ \A p \in Ops : p # c => ops'[p].phase # "answered"
        BY <1>2, <2>2, OnTheWay DEF Base, TypeOK
      <3>3. CASE rotates
        <4>1. Newest(v.refresh)'
          BY <2>1, <2>2, <3>1, <3>3 DEF Newest
        <4>2. v.refresh # None /\ v.refresh.session = active'
          BY <2>1, <2>2, <3>1, <3>3
        <4>3. Answering(active)'
          BY <1>2, <2>2, <3>2, <4>2 DEF Answering, Of
        <4>4. Of(slot.refresh, active)'
          BY <2>1, <3>1 DEF Newest, Of
        <4>5. \A p \in Ops : ops'[p].phase = "answered" => Newest(ops[p].refresh)'
          BY <2>1, <2>2, <3>1, <3>2, <4>2, <3>3 DEF Newest
        <4> QED BY <3>1, <4>3, <4>4, <4>5 DEF AskInv
      <3>4. CASE ~rotates
        <4>1. Newest(slot.refresh)' /\ Newest(keychain.refresh)' /\ Of(slot.refresh, active)'
          BY <2>1, <2>2, <3>1, <3>4 DEF Newest, Of
        <4>2. \A p \in Ops : ops'[p].phase = "answered" => ops'[p].refresh = None
          BY <2>2, <3>2, <3>4
        <4> QED BY <3>1, <4>1, <4>2 DEF AskInv
      <3> QED BY <3>3, <3>4
    <2>6. AskInv'
      BY <2>5 DEF AskInv
    <2>7. ~Rejected(c) \/ ~Entitled
      BY <1>4
    <2> QED BY <2>6, <2>7
  <1> QED BY <1>5, <1>6, <1>7

(* `accept` of a refresh: the newest refresh token is in memory and on its  *)
(* way to the keychain.                                                     *)
LEMMA AskAccept ==
    ASSUME Base, AskInv, NEW c \in Callers, AcceptRefreshed(c)
    PROVE  AskInv'
  <1>1. /\ c \in Ops /\ ops[c].phase = "answered" /\ lock = c
        /\ Accept(c) /\ UNCHANGED <<keychain, idp, active, lost, since>>
    BY DEF AcceptRefreshed, outside, history, Ops, Base, LockInv
  <1>2. Entitled' => Entitled
    BY <1>1 DEF Entitled, Honoured
  <1>3. Entitled => /\ jobs = {}
                    /\ \/ Newest(ops[c].refresh)
                       \/ ops[c].refresh = None /\ Newest(slot.refresh)
    BY <1>1, Has DEF AskInv
  <1>4. CASE /\ ops[c].id = None /\ ops' = [ops EXCEPT ![c] = Ended("error")]
             /\ lock' = None /\ UNCHANGED <<slot, jobs>>
    <2>1. Entitled => ops[c].refresh = None /\ Newest(slot.refresh)
      BY <1>1, <1>3, <1>4 DEF Base, Shape, Newest, Entitled
    <2>2. ops[c].refresh = None => ~Answering(active) /\ ~Storing(active)
      BY <1>1, OnTheWay DEF Of
    <2>3. Entitled => Newest(keychain.refresh)
      BY <2>1, <2>2 DEF AskInv
    <2>4. Entitled' => jobs' = {} /\ Newest(slot.refresh)' /\ Newest(keychain.refresh)'
      BY <1>1, <1>2, <1>3, <1>4, <2>1, <2>3 DEF Newest
    <2> QED BY <1>1, <1>4, <2>4, Endeds, AskTurn
  <1>5. ASSUME NEW v \in Call, NEW job \in KeychainStep,
               /\ ops' = [ops EXCEPT ![c] = v] /\ v.phase = "writing"
               /\ lock' = c /\ jobs' = jobs \union {job}
               /\ job.kind = "write" /\ job.op = c /\ job.refresh = slot'.refresh
               /\ slot'.refresh = IF ops[c].refresh = None THEN slot.refresh
                                  ELSE ops[c].refresh
        PROVE  AskInv'
    <2>1. Entitled' => jobs' = {job} /\ Newest(slot.refresh)'
      BY <1>1, <1>2, <1>3, <1>5 DEF Newest
    <2>2. ops'[c].phase = "writing"
      BY <1>1, <1>5 DEF Base, TypeOK
    <2>3. Entitled' => Of(job.refresh, active')
      BY <1>5, <2>1 DEF Newest, Of
    <2>4. Entitled' => Storing(active)'
      BY <1>5, <2>2, <2>3 DEF Storing
    <2> QED BY <1>1, <1>5, <2>1, <2>4, AskTurn
  <1>6. \/ /\ ops[c].id = None /\ ops' = [ops EXCEPT ![c] = Ended("error")]
           /\ lock' = None /\ UNCHANGED <<slot, jobs>>
        \/ \E v \in Call : \E job \in KeychainStep :
               /\ ops' = [ops EXCEPT ![c] = v] /\ v.phase = "writing"
               /\ lock' = c /\ jobs' = jobs \union {job}
               /\ job.kind = "write" /\ job.op = c /\ job.refresh = slot'.refresh
               /\ slot'.refresh = IF ops[c].refresh = None THEN slot.refresh
                                  ELSE ops[c].refresh
    BY <1>1, Accepted
  <1> QED BY <1>4, <1>5, <1>6

(* The same for a sign-in that brings a refresh token. *)
LEMMA AskSignIn ==
    ASSUME Base, LockSignIn
    PROVE  AskInv'
  <1> SUFFICES ASSUME Entitled' PROVE AskInv'
    BY DEF AskInv
  <1> DEFINE m == ops[In].id.session
  <1>1. /\ In \in Ops /\ lock = None /\ ops[In].phase = "locking" /\ Accept(In)
        /\ active' = m /\ UNCHANGED <<keychain, idp>>
        /\ jobs # {} => m \in lost'
    BY DEF LockSignIn, Ops, outside
  <1>2. idp[m] # None /\ jobs = {}
    BY <1>1 DEF Entitled, Honoured
  <1>3. /\ ops[In].refresh # None /\ ops[In].refresh.session = m
        /\ ops[In].refresh.nr = 0 /\ idp[m] = 0 /\ ops[In].id # None
    BY <1>1, <1>2 DEF Base, Sessions, Shape
  <1>4. PICK v \in Call, job \in KeychainStep :
           /\ ops' = [ops EXCEPT ![In] = v] /\ v.phase = "writing"
           /\ lock' = In /\ jobs' = jobs \union {job}
           /\ job.kind = "write" /\ job.op = In /\ job.refresh = slot'.refresh
           /\ slot'.refresh = ops[In].refresh
    BY <1>1, <1>3, Accepted
  <1>5. Newest(slot.refresh)'
    BY <1>1, <1>3, <1>4 DEF Newest
  <1>6. Storing(active)'
    <2>1. ops'[In].phase = "writing"
      BY <1>1, <1>4 DEF Base, TypeOK
    <2>2. Of(job.refresh, active')
      BY <1>1, <1>3, <1>4 DEF Of
    <2> QED BY <1>4, <2>1, <2>2 DEF Storing
  <1>7. jobs' = {job}
    BY <1>2, <1>4
  <1> QED BY <1>1, <1>4, <1>5, <1>6, <1>7, AskTurn

(* Calls that end, are dropped, or begin to sign out. *)
LEMMA AskEnds ==
    ASSUME Base, AskInv, NEW o \in Ops,
           Finished(o) \/ Dropped(o) \/ (o = Out /\ LockSignOut)
    PROVE  AskInv'
  <1>1. CASE Finished(o)
    <2>1. /\ lock = o /\ ops[o].phase \in {"writing", "deleting"}
          /\ \A job \in jobs : job.op # o
          /\ UNCHANGED <<slot, keychain, idp, active, lost, since, jobs>>
      BY <1>1 DEF Finished, outside, history
    <2>2. Entitled' => Entitled
      BY <2>1 DEF Entitled, Honoured
    <2>3. Entitled => jobs = {} /\ Newest(slot.refresh) /\ Newest(keychain.refresh)
      <3>1. ~Storing(active) /\ ~Answering(active) /\ slot.loaded
        BY <2>1, OnTheWay DEF Base, Loads
      <3> QED BY <2>1, <3>1, Has DEF AskInv
    <2>4. Entitled' => jobs' = {} /\ Newest(slot.refresh)' /\ Newest(keychain.refresh)'
      BY <2>1, <2>2, <2>3 DEF Newest
    <2>5. PICK v \in Call : ops' = [ops EXCEPT ![o] = v] /\ v.phase = "idle"
      BY <1>1, Calls, Endeds DEF Finished, Op
    <2> QED BY <2>1, <2>4, <2>5, AskTurn
  <1>2. CASE o = Out /\ LockSignOut
    BY <1>2 DEF LockSignOut, AskInv, Entitled, Honoured
  <1>3. CASE Dropped(o)
    <2>1. /\ ops' = [ops EXCEPT ![o] = Idle] /\ UNCHANGED <<slot, keychain, idp, active>>
          /\ lost' = lost \union Unstored({o}) /\ since \subseteq since'
          /\ ops[o].phase = "loading" => "unread" \in since'
          /\ jobs' = {job \in jobs : job.op # o \/ job.kind # "read"}
          /\ lock' = IF lock = o THEN None ELSE lock
      BY <1>3 DEF Dropped, Op, outside
    <2>2. CASE lock = o
      <3> SUFFICES ASSUME Entitled' PROVE AskInv'
        BY DEF AskInv
      <3>1. Entitled /\ ops[o].phase # "loading" /\ active \notin Unstored({o})
        BY <2>1 DEF Entitled, Honoured
      <3>2. ~Answering(active) /\ ~Storing(active)
        BY <2>2, <3>1, OnTheWay, UnstoredHas DEF Of
      <3>3. \A p \in Ops : ops[p].phase # "loading"
        BY <2>2, <3>1, OnTheWay
      <3>4. slot.loaded
        BY <2>2 DEF Base, Loads
      <3>5. Newest(slot.refresh) /\ Newest(keychain.refresh)
        BY <3>1, <3>2, <3>3, <3>4 DEF AskInv
      <3>6. jobs = {}
        <4> SUFFICES ASSUME NEW job \in jobs PROVE FALSE
          OBVIOUS
        <4>1. /\ job.kind # "delete" /\ o = job.op
              /\ job.kind = "write" => job.refresh = slot.refresh
          BY <2>2, <3>1 DEF AskInv
        <4>2. job.kind = "write" /\ job.refresh = slot.refresh
          BY <3>1, <4>1 DEF Base, Steps, TypeOK, KeychainStep
        <4>3. job.refresh.session \in Unstored({o})
          BY <3>5, <4>1, <4>2, UnstoredHas DEF Newest
        <4> QED BY <3>1, <3>5, <4>2, <4>3 DEF Newest
      <3>7. jobs' = {} /\ Newest(slot.refresh)' /\ Newest(keychain.refresh)'
        BY <2>1, <3>5, <3>6 DEF Newest
      <3> QED BY <2>1, <2>2, <3>7, Calls, AskTurn
    <2>3. CASE lock # o
      <3>1. jobs' = jobs
        <4>1. \A job \in jobs : job.op # o \/ job.kind # "read"
          BY <2>3 DEF Base, Steps
        <4> QED BY <2>1, <4>1
      <3>2. ops[o].phase \in {"idle", "locking"}
        BY <2>3 DEF Base, LockInv
      <3>3. \A p \in Ops : \/ ops'[p] = ops[p]
                           \/ /\ ops[p].phase \in {"idle", "locking"}
                              /\ ops'[p].phase \in {"idle", "locking"}
        BY <2>1, <3>2, Calls DEF Base, TypeOK
      <3> QED BY <2>1, <2>3, <3>1, <3>3, AskQuiet
    <2> QED BY <2>2, <2>3
  <1> QED BY <1>1, <1>2, <1>3

(* A keychain step: it is the write of the call that has the mutex. *)
LEMMA AskWorks ==
    ASSUME Base, AskInv, NEW job \in jobs, NEW done \in SUBSET {"refresh", "id"},
           Works(job, done)
    PROVE  AskInv'
  <1> SUFFICES ASSUME Entitled' PROVE AskInv'
    BY DEF AskInv
  <1>1. /\ job \in KeychainStep /\ job.kind \in {"write", "delete"}
        /\ jobs' = jobs \ {job}
        /\ UNCHANGED <<slot, lock, ops, idp, active>>
        /\ lost \subseteq lost' /\ since \subseteq since'
        /\ job.kind = "write" =>
              \/ keychain'.refresh = OrElse(job.refresh, keychain.refresh)
              \/ /\ keychain'.refresh = keychain.refresh
                 /\ job.refresh # None => job.refresh.session \in lost'
    BY Worked
  <1>2. Entitled /\ active' \notin lost'
    BY <1>1 DEF Entitled, Honoured
  <1>3. job.kind = "write" /\ lock = job.op /\ job.refresh = slot.refresh /\ job.op \in Ops
    BY <1>1, <1>2 DEF AskInv, KeychainStep
  <1>4. slot.loaded /\ \A p \in Ops : ops[p].phase # "loading"
    <2>1. \A p \in Ops : Job(p, "read", None, None).kind = "read"
      BY Jobs
    <2> QED BY <1>3, <2>1 DEF Base, Loads
  <1>5. Of(slot.refresh, active)
    BY <1>2, <1>4 DEF AskInv
  <1>6. ops[job.op].phase = "writing"
    BY <1>2, <1>3, <1>5 DEF Base, Steps, Of, Entitled
  <1>7. ~Answering(active) /\ \A p \in Ops : ops[p].phase # "answered"
    BY <1>3, <1>6, OnTheWay
  <1>8. Newest(slot.refresh)
    BY <1>2, <1>4, <1>7 DEF AskInv
  <1>9. keychain'.refresh = slot.refresh
    BY <1>1, <1>2, <1>3, <1>8 DEF Newest, OrElse
  <1>10. Newest(slot.refresh)' /\ Newest(keychain.refresh)' /\ Of(slot.refresh, active)'
    BY <1>1, <1>8, <1>9 DEF Newest, Of
  <1>11. \A j \in jobs' : /\ j.kind # "delete" /\ lock' = j.op
                          /\ j.kind = "write" => j.refresh = slot'.refresh
    BY <1>1, <1>2 DEF AskInv
  <1>12. \A p \in Ops : ops'[p].phase # "answered"
    BY <1>1, <1>7
  <1> QED BY <1>10, <1>11, <1>12 DEF AskInv

(* A restart: the keychain has the newest refresh token. *)
LEMMA AskRestart ==
    ASSUME Base, AskInv, Restart
    PROVE  AskInv'
  <1> SUFFICES ASSUME Entitled' PROVE AskInv'
    BY DEF AskInv
  <1>1. /\ ~slot'.loaded /\ UNCHANGED <<keychain, idp, active>> /\ jobs' = {}
        /\ lost' = lost \union Unstored(Ops) /\ ops' = [o \in Ops |-> Idle]
        /\ since \subseteq since'
    BY DEF Restart, Empty, outside
  <1>2. Entitled /\ active \notin Unstored(Ops)
    BY <1>1 DEF Entitled, Honoured
  <1>3. \A s : Answering(s) \/ Storing(s) => s \in Unstored(Ops)
    <2>1. \A job \in jobs : job.op \in Ops
      BY DEF Base, TypeOK, KeychainStep
    <2> QED BY <2>1, UnstoredHas DEF Answering, Storing, Of
  <1>4. Newest(keychain.refresh)'
    BY <1>1, <1>2, <1>3 DEF AskInv, Newest
  <1>5. \A o \in Ops : ops'[o].phase = "idle"
    BY <1>1, Calls
  <1> QED BY <1>1, <1>4, <1>5 DEF AskInv

-----------------------------------------------------------------------------
(* A step of the call that has the mutex, after a sign-out. *)
LEMMA OutTurn ==
    ASSUME Base, NEW o \in Ops, NEW v \in Call, lock \in {o, None},
           ops' = [ops EXCEPT ![o] = v],
           active' = None =>
              /\ "restart" \notin since' => slot' = Empty /\ lock' \in {None, Out}
              /\ since' \intersect {"fallback", "undeleted"} = {} =>
                    /\ slot'.id = None /\ slot'.refresh = None
                    /\ v.phase \notin {"refreshing", "answered", "writing"}
                    /\ \A job \in jobs' : job.kind # "write"
                    /\ keychain' = Nothing \/ \E job \in jobs' : job.kind = "delete"
    PROVE  OutInv'
  <1>1. ops'[o] = v /\ \A p \in Ops : p # o => ops'[p].phase \in {"idle", "locking"}
    BY OnTheWay DEF Base, TypeOK
  <1>2. v.phase \notin {"refreshing", "answered", "writing"} =>
           \A p \in Ops : ops'[p].phase \notin {"refreshing", "answered", "writing"}
    BY <1>1
  <1> QED BY <1>2 DEF OutInv

(* Steps that leave memory, keychain and what is on its way alone. *)
LEMMA OutQuiet ==
    ASSUME OutInv, UNCHANGED <<slot, keychain, lock, jobs, active>>,
           since \subseteq since',
           \A p \in Ops : \/ ops'[p] = ops[p]
                          \/ ops'[p].phase \in {"idle", "locking"}
    PROVE  OutInv'
  <1>1. \A p \in Ops : ops[p].phase \notin {"refreshing", "answered", "writing"} =>
                       ops'[p].phase \notin {"refreshing", "answered", "writing"}
    OBVIOUS
  <1>2. since' \intersect {"fallback", "undeleted"} = {} =>
        since \intersect {"fallback", "undeleted"} = {}
    OBVIOUS
  <1> QED BY <1>1, <1>2 DEF OutInv

(* `token` takes the mutex, and reads the keychain: there is nothing to use, *)
(* if not in the kubeconfig.                                                *)
LEMMA OutToken ==
    ASSUME Base, OutInv, NEW c \in Callers,
           LockToken(c) \/ \E fails \in BOOLEAN : Loaded(c, fails)
    PROVE  OutInv'
  <1>1. c \in Ops /\ c # Out /\ c # None
    BY DEF Ops
  <1>2. CASE LockToken(c)
    <2>1. lock = None /\ UNCHANGED <<keychain, active, since>>
      BY <1>2 DEF LockToken, history
    <2>2. CASE slot.loaded
      <3>1. Continue(c, slot) /\ UNCHANGED <<slot, jobs>>
            /\ slot.refresh \in Refresh \union {None}
        BY <1>2, <2>2 DEF LockToken, Base, TypeOK
      <3>2. PICK v \in Call :
              /\ ops' = [ops EXCEPT ![c] = v]
              /\ \/ slot.refresh # None
                 \/ lock' = None /\ v.phase = "idle"
        BY <3>1, Continued
      <3>3. Empty.refresh = None
        BY DEF Empty
      <3> QED BY <1>1, <2>1, <3>1, <3>2, <3>3, OutTurn DEF OutInv
    <2>3. CASE ~slot.loaded
      <3> DEFINE v == [Idle EXCEPT !.phase = "loading"]
                 job == Job(c, "read", None, None)
      <3>1. /\ ops' = [ops EXCEPT ![c] = v] /\ jobs' = jobs \union {job}
            /\ slot'.id = slot.id /\ slot'.refresh = slot.refresh
        BY <1>2, <2>3 DEF LockToken, Op, Base, TypeOK
      <3>2. v \in Call /\ v.phase = "loading" /\ job.kind = "read"
        BY <1>1, Calls, Jobs DEF Phases
      <3> HIDE DEF v, job
      <3>3. slot # Empty
        BY <2>3 DEF Empty
      <3>4. (\E j \in jobs : j.kind = "delete") => \E j \in jobs' : j.kind = "delete"
        BY <3>1
      <3>5. (\A j \in jobs : j.kind # "write") => \A j \in jobs' : j.kind # "write"
        BY <3>1, <3>2
      <3>6. active' = None =>
              /\ "restart" \notin since' => slot' = Empty /\ lock' \in {None, Out}
              /\ since' \intersect {"fallback", "undeleted"} = {} =>
                    /\ slot'.id = None /\ slot'.refresh = None
                    /\ v.phase \notin {"refreshing", "answered", "writing"}
                    /\ \A j \in jobs' : j.kind # "write"
                    /\ keychain' = Nothing \/ \E j \in jobs' : j.kind = "delete"
        BY <2>1, <3>1, <3>2, <3>3, <3>4, <3>5 DEF OutInv
      <3> QED BY <1>1, <2>1, <3>1, <3>2, <3>6, OutTurn
    <2> QED BY <2>2, <2>3
  <1>3. ASSUME NEW fails \in BOOLEAN, Loaded(c, fails) PROVE OutInv'
    <2>1. /\ lock = c /\ jobs = {Job(c, "read", None, None)} /\ jobs' = {}
          /\ UNCHANGED <<keychain, active>>
          /\ Continue(c, slot') /\ slot'.refresh \in Refresh \union {None}
      BY <1>3, LoadedTokens
    <2>2. Job(c, "read", None, None).kind = "read"
      BY <1>1, Jobs
    <2>3. since \subseteq since'
      BY <1>3 DEF Loaded
    <2>4. active = None => "restart" \in since'
      BY <1>1, <2>1, <2>3 DEF OutInv
    <2>5. ASSUME active = None, since' \intersect {"fallback", "undeleted"} = {}
          PROVE  slot'.id = None /\ slot'.refresh = None /\ keychain' = Nothing
      <3>1. keychain = Nothing
        BY <2>1, <2>2, <2>3, <2>5 DEF OutInv
      <3>2. /\ slot'.id = OrElse(Nothing.id, Secrets[c].id)
            /\ slot'.refresh = OrElse(Nothing.refresh, Secrets[c].refresh)
            /\ \/ slot'.id = Nothing.id /\ slot'.refresh = Nothing.refresh
               \/ "fallback" \in since'
        <4> DEFINE stored == IF fails THEN Nothing ELSE keychain
        <4>1. stored = Nothing
          BY <3>1
        <4> HIDE DEF stored
        <4>2. /\ slot' = [loaded |-> TRUE, id |-> OrElse(stored.id, Secrets[c].id),
                          refresh |-> OrElse(stored.refresh, Secrets[c].refresh)]
              /\ "fallback" \notin since' =>
                    /\ OrElse(stored.id, Secrets[c].id) = stored.id
                    /\ OrElse(stored.refresh, Secrets[c].refresh) = stored.refresh
          BY <1>3 DEF Loaded, stored
        <4> QED BY <4>1, <4>2
      <3> QED BY <2>1, <2>5, <3>1, <3>2 DEF Nothing
    <2>6. PICK v \in Call :
              /\ ops' = [ops EXCEPT ![c] = v]
              /\ \/ slot'.refresh # None
                 \/ lock' = None /\ v.phase = "idle"
      BY <2>1, Continued
    <2> QED BY <1>1, <2>1, <2>4, <2>5, <2>6, OutTurn
  <1> QED BY <1>2, <1>3

(* No refresh is under way, if there was no fallback to the kubeconfig. *)
LEMMA OutProvider ==
    ASSUME Base, OutInv, NEW c \in Callers,
           ops[c].phase \in {"refreshing", "answered"}, UNCHANGED <<active, since>>
    PROVE  OutInv'
  <1>1. c \in Ops /\ lock = c /\ c # Out /\ c # None
    BY DEF Base, LockInv, Ops
  <1>2. active = None => /\ "restart" \in since
                         /\ since \intersect {"fallback", "undeleted"} # {}
    BY <1>1 DEF OutInv
  <1> QED BY <1>2 DEF OutInv

(* Who signs in is signed in. *)
LEMMA OutSignIn ==
    ASSUME Base, LockSignIn
    PROVE  OutInv'
  <1>1. ops[In].id \in Id /\ active' = ops[In].id.session
    BY DEF LockSignIn, Base, Shape, TypeOK, Call, Ops
  <1>2. active' # None
    BY <1>1 DEF Id
  <1> QED BY <1>2 DEF OutInv

(* Calls that end, are dropped, or begin to sign out. *)
LEMMA OutEnds ==
    ASSUME Base, OutInv, NEW o \in Ops,
           Finished(o) \/ Dropped(o) \/ (o = Out /\ LockSignOut)
    PROVE  OutInv'
  <1>1. CASE Finished(o)
    <2>1. /\ lock = o /\ lock' = None
          /\ UNCHANGED <<slot, keychain, active, since, jobs>>
      BY <1>1 DEF Finished, history
    <2>2. PICK v \in Call : ops' = [ops EXCEPT ![o] = v] /\ v.phase = "idle"
      BY <1>1, Calls, Endeds DEF Finished, Op
    <2> QED BY <2>1, <2>2, OutTurn DEF OutInv
  <1>2. CASE o = Out /\ LockSignOut
    <2> DEFINE v == [Idle EXCEPT !.phase = "deleting"]
               job == Job(Out, "delete", None, None)
    <2>1. /\ lock = None /\ slot' = Empty /\ lock' = Out /\ ops' = [ops EXCEPT ![o] = v]
          /\ jobs' = jobs \union {job}
          /\ since' = IF \E j \in jobs : j.kind = "write" THEN {"undeleted"} ELSE {}
      BY <1>2 DEF LockSignOut, Op
    <2>2. v \in Call /\ v.phase = "deleting" /\ job.kind = "delete" /\ job \in jobs'
      BY <1>2, <2>1, Calls, Jobs DEF Phases
    <2>3. Empty.id = None /\ Empty.refresh = None
      BY DEF Empty
    <2> HIDE DEF v, job
    <2>4. since' \intersect {"fallback", "undeleted"} = {} => \A j \in jobs' : j.kind # "write"
      BY <2>1, <2>2
    <2> QED BY <2>1, <2>2, <2>3, <2>4, OutTurn
  <1>3. CASE Dropped(o)
    <2>1. /\ ops' = [ops EXCEPT ![o] = Idle] /\ UNCHANGED <<slot, keychain, active>>
          /\ jobs' = {job \in jobs : job.op # o \/ job.kind # "read"}
          /\ lock' = IF lock = o THEN None ELSE lock
          /\ since \subseteq since'
      BY <1>3 DEF Dropped, Op
    <2>2. CASE lock = o
      <3>1. (\E job \in jobs : job.kind = "delete") => \E job \in jobs' : job.kind = "delete"
        BY <2>1
      <3>2. since' \intersect {"fallback", "undeleted"} = {} =>
            since \intersect {"fallback", "undeleted"} = {}
        BY <2>1
      <3>3. active' = None =>
              /\ "restart" \notin since' => slot' = Empty /\ lock' \in {None, Out}
              /\ since' \intersect {"fallback", "undeleted"} = {} =>
                    /\ slot'.id = None /\ slot'.refresh = None
                    /\ \A job \in jobs' : job.kind # "write"
                    /\ keychain' = Nothing \/ \E job \in jobs' : job.kind = "delete"
        BY <2>1, <2>2, <3>1, <3>2 DEF OutInv
      <3> QED BY <2>1, <2>2, <3>3, Calls, OutTurn
    <2>3. CASE lock # o
      <3>1. jobs' = jobs
        <4>1. \A job \in jobs : job.op # o \/ job.kind # "read"
          BY <2>3 DEF Base, Steps
        <4> QED BY <2>1, <4>1
      <3>2. \A p \in Ops : ops'[p] = ops[p] \/ ops'[p].phase \in {"idle", "locking"}
        BY <2>1, Calls DEF Base, TypeOK
      <3> QED BY <2>1, <2>3, <3>1, <3>2, OutQuiet
    <2> QED BY <2>2, <2>3
  <1> QED BY <1>1, <1>2, <1>3

(* A keychain step, which is a delete; a restart. *)
LEMMA OutWorks ==
    ASSUME Base, OutInv,
           \/ \E job \in jobs : \E done \in SUBSET {"refresh", "id"} : Works(job, done)
           \/ Restart
    PROVE  OutInv'
  <1>1. ASSUME NEW job \in jobs, NEW done \in SUBSET {"refresh", "id"}, Works(job, done)
        PROVE  OutInv'
    <2>1. /\ job.kind \in {"write", "delete"} /\ jobs' = jobs \ {job}
          /\ UNCHANGED <<slot, lock, ops, active>> /\ since \subseteq since'
          /\ job.kind = "delete" => keychain' = Nothing \/ "undeleted" \in since'
      BY <1>1, Worked
    <2>2. since' \intersect {"fallback", "undeleted"} = {} =>
          since \intersect {"fallback", "undeleted"} = {} /\ "undeleted" \notin since'
      BY <2>1
    <2> QED BY <2>1, <2>2 DEF OutInv
  <1>2. CASE Restart
    <2>1. /\ "restart" \in since' /\ slot'.id = None /\ slot'.refresh = None
          /\ since \subseteq since' /\ jobs' = {} /\ UNCHANGED <<keychain, active>>
          /\ (\E job \in jobs : job.kind = "delete") => "undeleted" \in since'
          /\ ops' = [o \in Ops |-> Idle]
      BY <1>2 DEF Restart, Empty
    <2>2. \A o \in Ops : ops'[o].phase = "idle"
      BY <2>1, Calls
    <2>3. since' \intersect {"fallback", "undeleted"} = {} =>
          since \intersect {"fallback", "undeleted"} = {} /\ "undeleted" \notin since'
      BY <2>1
    <2> QED BY <2>1, <2>2, <2>3 DEF OutInv
  <1> QED BY <1>1, <1>2

-----------------------------------------------------------------------------
IInv == Base /\ FreshInv /\ AskInv /\ OutInv

(* The first state. *)
LEMMA Starts ==
    ASSUME Init
    PROVE  IInv
  <1>1. First.id \in Id /\ First.refresh \in Refresh
        /\ First.refresh.session = 1 /\ First.refresh.nr = 0
    BY DEF First, Id, Refresh
  <1>2. /\ keychain \in [id : Id \union {None}, refresh : Refresh \union {None}]
        /\ \/ keychain.refresh = First.refresh /\ active = 1
           \/ keychain = Nothing /\ keychain.refresh = None /\ active = None
    <2>1. First \in [id : Id, refresh : Refresh]
      BY DEF First, Id, Refresh
    <2> QED BY <2>1 DEF Init, Nothing
  <1>3. /\ slot \in [loaded : BOOLEAN, id : Id \union {None},
                     refresh : Refresh \union {None}]
        /\ ~slot.loaded /\ slot.id = None /\ slot.refresh = None
    BY DEF Init, Empty
  <1>4. /\ ops \in [Ops -> Call]
        /\ \A o \in Ops : ops[o].phase = "idle" /\ ops[o].refresh = None
    BY Calls DEF Init
  <1>5. idp \in [1..1 -> (0..MaxRefreshes) \union {None}] /\ idp[1] = 0
        /\ 1 \in 1..MaxSessions /\ DOMAIN idp = {1}
    BY DEF Init
  <1>6. TypeOK
    <2>1. \E n \in 1..MaxSessions : idp \in [1..n -> (0..MaxRefreshes) \union {None}]
      BY <1>5
    <2>2. /\ lock \in Ops \union {None} /\ jobs \subseteq KeychainStep
          /\ active \in (1..MaxSessions) \union {None}
          /\ lost \subseteq 1..MaxSessions /\ since \subseteq Events
      BY <1>2, <1>5 DEF Init, Events
    <2>3. now \in 0..MaxTime /\ faults \in 0..MaxFaults
      BY DEF Init
    <2> QED BY <1>2, <1>3, <1>4, <2>1, <2>2, <2>3 DEF TypeOK
  <1>7. In \in Ops /\ None \notin Ops /\ Callers \subseteq Ops /\ jobs = {} /\ lock = None
    BY DEF Ops, Init
  <1>8. LockInv /\ Shape /\ Steps /\ Loads
    BY <1>3, <1>4, <1>7 DEF LockInv, Shape, Steps, Loads
  <1>9. Sessions
    <2>1. Older(1)
      BY <1>4, <1>5, <1>7 DEF Older
    <2> QED BY <1>1, <1>2, <1>3, <1>4, <1>7, <2>1 DEF Sessions, Known
  <1>10. FreshInv
    <2>1. Fresh(slot.refresh) /\ Fresh(keychain.refresh)
      BY <1>1, <1>2, <1>3, <1>5 DEF Fresh
    <2> QED BY <1>4, <2>1 DEF FreshInv
  <1>11. AskInv
    <2>1. Entitled => Newest(keychain.refresh)
      BY <1>1, <1>2, <1>5 DEF Entitled, Honoured, Newest
    <2> QED BY <1>3, <1>4, <1>7, <2>1 DEF AskInv
  <1>12. OutInv
    <2>1. active = None => keychain = Nothing /\ "restart" \in since
      BY <1>2 DEF Init
    <2> QED BY <1>3, <1>4, <1>7, <2>1 DEF OutInv
  <1> QED BY <1>6, <1>8, <1>9, <1>10, <1>11, <1>12 DEF IInv, Base

(* Steps of calls that wait for the mutex, and of the world outside. *)
LEMMA QuietInv ==
    ASSUME IInv,
           \/ \E o \in Ops : Begin(o)
           \/ \E withRefresh \in BOOLEAN : SignIn(withRefresh)
           \/ Expires \/ \E s \in DOMAIN idp : Revokes(s)
    PROVE  IInv'
  <1>1. Base /\ FreshInv /\ AskInv /\ OutInv
    BY DEF IInv
  <1>2. SUFFICES
           /\ Base' /\ UNCHANGED <<slot, keychain, lock, jobs, active, lost, since>>
           /\ \A s : Older(s) => idp'[s] \in {idp[s], None}
           /\ \A p \in Ops : \/ ops'[p] = ops[p]
                             \/ /\ ops[p].phase \in {"idle", "locking"}
                                /\ ops'[p].phase \in {"idle", "locking"}
    BY <1>1, FreshQuiet, AskQuiet, OutQuiet DEF IInv
  <1>3. ASSUME NEW o \in Ops, Begin(o)
        PROVE  /\ UNCHANGED <<slot, keychain, lock, jobs, active, lost, since, idp>>
               /\ Base' /\ \A p \in Ops : \/ ops'[p] = ops[p]
                                          \/ /\ ops[p].phase \in {"idle", "locking"}
                                             /\ ops'[p].phase \in {"idle", "locking"}
    BY <1>1, <1>3, BeginBase, Calls DEF Begin, Op, outside, history, Phases, Base, TypeOK
  <1>4. ASSUME NEW withRefresh \in BOOLEAN, SignIn(withRefresh)
        PROVE  /\ UNCHANGED <<slot, keychain, lock, jobs, active, lost, since>>
               /\ Base' /\ \A p \in Ops : \/ ops'[p] = ops[p]
                                          \/ /\ ops[p].phase \in {"idle", "locking"}
                                             /\ ops'[p].phase \in {"idle", "locking"}
               /\ \A s : Older(s) => idp'[s] = idp[s]
    BY <1>1, <1>4, SignInBase DEF SignIn, Op, history, Base, TypeOK
  <1>5. CASE Expires \/ \E s \in DOMAIN idp : Revokes(s)
    BY <1>1, <1>5, OutsideBase DEF Older
  <1> QED BY <1>3, <1>4, <1>5

(* The invariant holds at first and every step keeps it. *)
LEMMA Inductive ==
    /\ Init => IInv
    /\ IInv /\ [Next]_vars => IInv'
  <1>1. ASSUME IInv, UNCHANGED vars PROVE IInv'
    BY <1>1 DEF IInv, Base, TypeOK, LockInv, Shape, Sessions, Older, Known, Steps, Loads,
         FreshInv, Fresh, Answering, Storing, AskInv, Entitled, Honoured, Newest, OutInv,
         vars, outside, history
  <1>2. ASSUME IInv, NEW c \in Callers,
               LockToken(c) \/ \E fails \in BOOLEAN : Loaded(c, fails)
        PROVE  IInv'
    BY <1>2, LockTokenBase, LoadedBase, FreshToken, AskToken, OutToken DEF IInv
  <1>3. ASSUME IInv, NEW c \in Callers, NEW rotates \in BOOLEAN,
               \/ RefreshFails(c, rotates) \/ Rejected(c)
               \/ \E withId \in BOOLEAN : Refreshed(c, rotates, withId)
        PROVE  IInv'
    <2>1. Base'
      BY <1>3, RefreshEndsBase, RefreshedBase DEF IInv
    <2>2. FreshInv' /\ AskInv'
      BY <1>3, FreshProvider, AskProvider DEF IInv
    <2>3. ops[c].phase = "refreshing" /\ UNCHANGED <<active, since>>
      BY <1>3 DEF RefreshFails, Rejected, Refreshed, history
    <2>4. OutInv'
      BY <1>3, <2>3, OutProvider DEF IInv
    <2> QED BY <2>1, <2>2, <2>4 DEF IInv
  <1>4. ASSUME IInv, NEW c \in Callers, AcceptRefreshed(c) PROVE IInv'
    <2>1. /\ c \in Ops /\ ops[c].phase = "answered" /\ Accept(c)
          /\ UNCHANGED <<keychain, idp, now, active, faults, lost, since>>
      BY <1>4 DEF Ops, AcceptRefreshed, outside, history
    <2>2. lost' \subseteq 1..MaxSessions /\ since' \subseteq Events
      BY <1>4, <2>1 DEF IInv, Base, TypeOK
    <2>3. Base'
      BY <1>4, <2>1, <2>2, AcceptBase DEF IInv
    <2>4. FreshInv' /\ AskInv' /\ OutInv'
      BY <1>4, <2>1, FreshAccept, AskAccept, OutProvider DEF IInv
    <2> QED BY <2>3, <2>4 DEF IInv
  <1>5. ASSUME IInv, LockSignIn PROVE IInv'
    <2>1. /\ In \in Ops /\ ops[In].phase = "locking" /\ lock = None /\ Accept(In)
          /\ active' = ops[In].id.session /\ lost \subseteq lost'
          /\ lost' \subseteq lost \union {ops[In].id.session} /\ since' = {}
          /\ UNCHANGED <<keychain, idp, now, faults>> /\ In \notin Callers
      BY <1>5 DEF Ops, LockSignIn, outside
    <2>2. ops[In].id \in Id
      BY <2>1, <1>5 DEF IInv, Base, Shape, TypeOK, Call
    <2>3. lost' \subseteq 1..MaxSessions /\ since' \subseteq Events
      BY <1>5, <2>1, <2>2 DEF IInv, Base, TypeOK, Id
    <2>4. Base'
      BY <1>5, <2>1, <2>3, AcceptBase DEF IInv
    <2>5. FreshInv' /\ AskInv' /\ OutInv'
      BY <1>5, <2>1, FreshAccept, AskSignIn, OutSignIn DEF IInv
    <2> QED BY <2>4, <2>5 DEF IInv
  <1>6. ASSUME IInv, NEW o \in Ops, Finished(o) \/ Dropped(o) \/ (o = Out /\ LockSignOut)
        PROVE  IInv'
    BY <1>6, FinishedBase, DroppedBase, LockSignOutBase, FreshEnds, AskEnds, OutEnds DEF IInv
  <1>7. ASSUME IInv, NEW job \in jobs, NEW done \in SUBSET {"refresh", "id"},
               Works(job, done)
        PROVE  IInv'
    BY <1>7, WorksBase, FreshWorks, AskWorks, OutWorks DEF IInv
  <1>8. ASSUME IInv, Restart PROVE IInv'
    BY <1>8, RestartBase, FreshRestart, AskRestart, OutWorks DEF IInv
  <1>9. Callers \subseteq Ops /\ In \in Ops /\ Out \in Ops
    BY DEF Ops
  <1>10. ASSUME IInv, NEW c \in Callers, CallSteps(c) PROVE IInv'
    BY <1>2, <1>3, <1>4, <1>6, <1>9, <1>10 DEF CallSteps
  <1>11. ASSUME IInv, UserSteps \/ LockSignOut PROVE IInv'
    BY <1>6, <1>9, <1>11 DEF UserSteps
  <1>12. ASSUME IInv, Next PROVE IInv'
    BY <1>2, <1>3, <1>5, <1>6, <1>7, <1>8, <1>9, <1>10, <1>11, <1>12, QuietInv
       DEF Next
  <1> QED BY <1>1, <1>12, Starts

(* The invariant always holds. *)
THEOREM Invariance == Spec => []IInv
  BY Inductive, PTL DEF Spec

(* Slot, keychain, calls and keychain steps are always of their types. *)
THEOREM TypeCorrect == Spec => []TypeOK
  <1>1. IInv => TypeOK
    BY DEF IInv, Base
  <1> QED BY <1>1, Invariance, PTL

(* No connection shows the provider a refresh token it has replaced, however *)
(* many connections share the slot, unless the token stands in a kubeconfig  *)
(* or the session's newest one was lost on its way to the keychain.          *)
THEOREM RefreshTokensNeverReused == Spec => []NeverReused
  <1>1. IInv => NeverReused
    <2> SUFFICES ASSUME IInv, NEW c \in Callers, ops[c].phase = "refreshing"
                 PROVE  LET shown == ops[c].refresh
                        IN  \/ idp[shown.session] \in {None, shown.nr}
                            \/ \E p \in Callers : shown = Secrets[p].refresh
                            \/ shown.session \in lost
      BY DEF NeverReused
    <2>1. c \in Ops /\ lock = c /\ ops[c].refresh = slot.refresh /\ slot.refresh # None
      BY DEF Ops, IInv, Base, LockInv, Shape
    <2>2. Fresh(slot.refresh)
      BY <2>1, FreshNow DEF IInv
    <2> QED BY <2>1, <2>2 DEF Fresh
  <1> QED BY <1>1, Invariance, PTL

(* After a sign-out memory has no token while the process runs; memory and   *)
(* keychain have none after a restart either, unless there are tokens in a   *)
(* kubeconfig or the delete did not do its work.                             *)
THEOREM SignOutForgets == Spec => []SignedOutIsForgotten
  <1>1. IInv => SignedOutIsForgotten
    BY DEF IInv, OutInv, SignedOutIsForgotten
  <1> QED BY <1>1, Invariance, PTL

(* A step of one call does not end another. *)
LEMMA OthersEnd ==
    ASSUME IInv, NEW c \in Ops, NEW o \in Ops, NEW v, ops' = [ops EXCEPT ![o] = v],
           ops[c].ended # "signIn", ops'[c].ended = "signIn"
    PROVE  o = c /\ v.ended = "signIn"
  BY DEF IInv, Base, TypeOK

(* The user is asked to sign in only if they signed out, the provider ended  *)
(* the session or gave no refresh token for it, the newest one was lost, the *)
(* keychain was not read, or a new ID token was out of date when stored.     *)
THEOREM AlwaysAskedOnlyIfNeeded == Spec => AskedOnlyIfNeeded
  <1> DEFINE A == \A c \in Callers :
                     ops'[c].ended = "signIn" /\ ops[c].ended # "signIn" =>
                        \/ ~Honoured
                        \/ active \in lost \/ "unread" \in since'
                        \/ ops[c].phase = "writing"
  <1>1. IInv /\ [Next]_vars => [A]_vars
    <2> SUFFICES ASSUME IInv, Next, NEW c \in Callers, ops[c].ended # "signIn",
                        ops'[c].ended = "signIn", Honoured, active \notin lost,
                        "unread" \notin since'
                 PROVE  ops[c].phase = "writing"
      BY DEF vars
    <2>1. c \in Ops /\ c # In /\ c # Out /\ Callers \subseteq Ops /\ In \in Ops /\ Out \in Ops
      BY DEF Ops
    <2>2. ASSUME NEW o \in Ops, NEW v, ops' = [ops EXCEPT ![o] = v],
                 o # c \/ v.ended # "signIn"
          PROVE  FALSE
      BY <2>1, <2>2, OthersEnd
    <2>3. Idle.ended # "signIn" /\ \A p \in Phases : [Idle EXCEPT !.phase = p].ended # "signIn"
      BY Calls
    <2>4. Ended("error").ended # "signIn"
      BY Endeds
    <2>5. ops' # ops
      OBVIOUS
    <2>6. since \subseteq since' => Entitled
      BY DEF Entitled
    <2>7. \A o \in Ops : ~Begin(o) /\ ~Dropped(o)
      BY <2>2, <2>3 DEF Begin, Dropped, Op, Phases
    <2>8. ~LockSignOut /\ \A withRefresh \in BOOLEAN : ~SignIn(withRefresh)
      <3>1. \A withRefresh \in BOOLEAN : ~SignIn(withRefresh)
        BY <2>1, <2>2 DEF SignIn, Op
      <3>2. ~LockSignOut
        BY <2>1, <2>2 DEF LockSignOut, Op
      <3> QED BY <3>1, <3>2
    <2>9. \A o \in Ops : ~Accept(o)
      BY <2>2, <2>3, <2>4 DEF Accept, Op, Phases
    <2>10. /\ ~Expires /\ ~Restart
           /\ \A s : ~Revokes(s)
           /\ \A job, done : ~Works(job, done)
      BY <2>1, <2>3, <2>5 DEF Expires, Restart, Revokes, Works
    <2>11. \A o \in Callers, rotates \in BOOLEAN : ~RefreshFails(o, rotates)
      BY <2>1, <2>2, <2>4 DEF RefreshFails, Op
    <2>12. \A o \in Callers, rotates, withId \in BOOLEAN : ~Refreshed(o, rotates, withId)
      BY <2>1, <2>2 DEF Refreshed, Op
    <2>13. ASSUME NEW o \in Callers, Rejected(o) PROVE FALSE
      <3>1. Entitled
        BY <2>6, <2>13 DEF Rejected, history
      <3> QED BY <2>13, <3>1, AskProvider DEF IInv
    <2>14. ASSUME NEW o \in Callers, LockToken(o) PROVE FALSE
      <3>1. Entitled /\ lock = None
        BY <2>6, <2>14 DEF LockToken, history
      <3>2. CASE slot.loaded
        <4>1. Continue(o, slot) /\ slot.refresh \in Refresh \union {None}
          BY <2>14, <3>2 DEF LockToken, IInv, Base, TypeOK
        <4>2. slot.refresh # None
          BY <2>1, <3>1, <3>2, Has DEF IInv, Newest
        <4> QED BY <2>1, <2>2, <4>1, <4>2, Continued
      <3>3. CASE ~slot.loaded
        BY <2>1, <2>2, <2>3, <2>14, <3>3 DEF LockToken, Op, Phases
      <3> QED BY <3>2, <3>3
    <2>15. ASSUME NEW o \in Callers, NEW fails \in BOOLEAN, Loaded(o, fails) PROVE FALSE
      <3>1. since \subseteq since' /\ (fails => "unread" \in since')
        BY <2>15 DEF Loaded
      <3>2. /\ ~fails /\ lock = o /\ ops[o].phase = "loading"
            /\ Continue(o, slot') /\ slot'.refresh \in Refresh \union {None}
            /\ slot'.refresh = keychain.refresh \/ keychain.refresh = None
        BY <2>15, <3>1, LoadedTokens DEF IInv
      <3>3. Newest(keychain.refresh)
        BY <2>1, <2>6, <3>1, <3>2, Has DEF IInv
      <3>4. slot'.refresh # None
        BY <3>2, <3>3 DEF Newest
      <3> QED BY <2>1, <2>2, <3>2, <3>4, Continued
    <2>16. ASSUME NEW o \in Ops, Finished(o) PROVE ops[c].phase = "writing"
      <3>1. o = c
        BY <2>1, <2>2, <2>16 DEF Finished, Op
      <3>2. ops[c].phase # "deleting"
        BY <2>1 DEF IInv, Base, Shape
      <3> QED BY <2>16, <3>1, <3>2 DEF Finished
    <2>17. \A o \in Ops : Finished(o) => ops[c].phase = "writing"
      BY <2>16
    <2> QED BY <2>1, <2>7, <2>8, <2>9, <2>10, <2>11, <2>12, <2>13, <2>14, <2>15, <2>17
        DEF Next, CallSteps, UserSteps, AcceptRefreshed, LockSignIn
  <1> QED BY <1>1, Invariance, PTL DEF Spec, AskedOnlyIfNeeded

=============================================================================
