------------------------ MODULE ConnectionsProofs ------------------------
(***************************************************************************)
(* Proofs about Connections, for every set of ids and configurations and    *)
(* every bound.  The inductive invariant is a property of one connection    *)
(* and its entry at a time, so each action is examined for the connection   *)
(* it touches.                                                              *)
(***************************************************************************)
EXTENDS Connections, TLAPS

USE IdsAssumption, ConfigsAssumption, BoundsAssumption, StepAssumption

(* What holds of every connection c whose entry says cfg. *)
Attended(c, cfg) ==
    /\ \A t \in c.tasks : /\ t.generation = c.generation
                          /\ t.kind = "connect" => t.config = cfg
                          /\ t.kind = "watches" => /\ t.config = c.client
                                                   /\ c.client # None
    /\ c.health # None => /\ c.health.generation = c.generation
                          /\ c.health.kind = "ping" => c.health.config = c.client
                          /\ c.client # None
                          /\ \E t \in c.tasks : t.kind = "watches"
    /\ c.client # None => c.client = cfg
    /\ c.state = "Connecting" => \E t \in c.tasks : t.kind = "connect"
    /\ c.state = "Connected" => c.health # None
    /\ c.state = "Retrying" => \/ \E t \in c.tasks : t.kind = "retry"
                               \/ c.health # None
    /\ c.state = "Disconnected" => c.client = None /\ c.tasks = {} /\ c.health = None
    /\ c.generation = 0 => c.state = "Disconnected"
    /\ c.generation > 0 => cfg # None
    /\ \A t, u \in c.tasks : t.kind \in {"connect", "retry"}
                             /\ u.kind \in {"connect", "retry"} => t = u
    /\ \A t \in c.tasks : t.kind \in {"connect", "retry"} => c.health = None

IInv ==
    /\ TypeOK
    /\ \A id \in Ids : Attended(cluster[id], config[id])
    /\ ActiveIsEntry

-----------------------------------------------------------------------------
(* A new attempt is well-typed and attended, whatever the old one was. *)
LEMMA AttemptAttended ==
    ASSUME NEW c \in Cluster, NEW cfg \in Configs \union {Broken}
    PROVE  /\ Attempt(c, cfg) \in Cluster
           /\ Attended(Attempt(c, cfg), cfg)
  <1> DEFINE g == c.generation + 1
             t == [kind |-> "connect", generation |-> g, config |-> cfg]
             d == Attempt(c, cfg)
  <1>1. g \in Nat /\ g > 0 /\ c.failures \in 0..MaxFailures
    BY DEF Cluster
  <1>2. CASE cfg \in Configs
    <2>1. t \in Task
      BY <1>1, <1>2 DEF Task
    <2>2. d = [c EXCEPT !.generation = g, !.state = "Connecting",
                        !.client = None, !.tasks = {t}, !.health = None,
                        !.access = None]
      BY <1>2 DEF Attempt
    <2>3. /\ d.generation = g /\ d.state = "Connecting" /\ d.client = None
          /\ d.tasks = {t} /\ d.health = None /\ d.access = None
          /\ d.failures = c.failures
      BY <2>2 DEF Cluster
    <2>4. d \in Cluster
      BY <1>1, <2>1, <2>2, <2>3 DEF Cluster, States
    <2>5. Attended(d, cfg)
      BY <1>1, <1>2, <2>3 DEF Attended
    <2> QED BY <2>4, <2>5
  <1>3. CASE cfg \notin Configs
    <2>2. d = [c EXCEPT !.generation = g, !.state = "Unreachable",
                        !.client = None, !.tasks = {}, !.health = None,
                        !.access = None]
      BY <1>3 DEF Attempt
    <2>3. /\ d.generation = g /\ d.state = "Unreachable" /\ d.client = None
          /\ d.tasks = {} /\ d.health = None /\ d.access = None
          /\ d.failures = c.failures
      BY <2>2 DEF Cluster
    <2>4. d \in Cluster
      BY <1>1, <2>2, <2>3 DEF Cluster, States
    <2>5. Attended(d, cfg)
      BY <1>1, <1>3, <2>3 DEF Attended
    <2> QED BY <2>4, <2>5
  <1> QED BY <1>2, <1>3

(* An absent connection is well-typed and attended whether or not there is *)
(* an entry.                                                               *)
LEMMA DefaultAttended ==
    ASSUME NEW cfg
    PROVE  DefaultCluster \in Cluster /\ Attended(DefaultCluster, cfg)
  BY DEF DefaultCluster, Cluster, Attended, States, MaxFailures

(* The step most actions take: connection id becomes d and the entries stay. *)
LEMMA OneConnection ==
    ASSUME IInv, NEW id \in Ids, NEW d \in Cluster, Attended(d, config[id]),
           cluster' = [cluster EXCEPT ![id] = d], UNCHANGED config
    PROVE  /\ cluster' \in [Ids -> Cluster]
           /\ \A i \in Ids : Attended(cluster'[i], config'[i])
  <1>1. cluster' \in [Ids -> Cluster]
    BY DEF IInv, TypeOK
  <1>2. \A i \in Ids : cluster'[i] = IF i = id THEN d ELSE cluster[i]
    BY DEF IInv, TypeOK
  <1>3. \A i \in Ids : Attended(cluster'[i], config'[i])
    BY <1>2 DEF IInv
  <1> QED BY <1>1, <1>3

(* `connect` of an entry. *)
LEMMA ConnectToAttended ==
    ASSUME IInv, NEW id \in Ids, config[id] # None,
           cluster' = ConnectTo(id), UNCHANGED config
    PROVE  /\ cluster' \in [Ids -> Cluster]
           /\ \A i \in Ids : Attended(cluster'[i], config'[i])
  <1> DEFINE d == Attempt(cluster[id], config[id])
  <1>1. cluster[id] \in Cluster /\ config[id] \in Configs \union {Broken}
    BY DEF IInv, TypeOK
  <1>2. d \in Cluster /\ Attended(d, config[id])
    BY <1>1, AttemptAttended
  <1>3. cluster' = [cluster EXCEPT ![id] = d]
    BY DEF ConnectTo
  <1> HIDE DEF d
  <1> QED BY <1>2, <1>3, OneConnection

(* A successful attempt leaves a client, its watches and a health timer. *)
LEMMA FinishAttended ==
    ASSUME NEW c \in Cluster, NEW cfg \in Configs \union {Broken},
           Attended(c, cfg), NEW t \in c.tasks, t.kind = "connect",
           NEW w, w = [kind |-> "watches", generation |-> t.generation,
                       config |-> t.config],
           NEW h, h = [kind |-> "timer", generation |-> t.generation,
                       config |-> None],
           NEW d, d = [c EXCEPT !.state = "Connected", !.failures = 0,
                                !.client = t.config,
                                !.tasks = (c.tasks \ {t}) \union {w}, !.health = h]
    PROVE  d \in Cluster /\ Attended(d, cfg)
  <1>1. /\ t \in Task /\ t.generation = c.generation /\ t.config = cfg
        /\ c.tasks \in SUBSET Task
    BY DEF Attended, Cluster
  <1>2. t.config \in Configs /\ t.config # None /\ t.generation \in Nat
    BY <1>1 DEF Task
  <1>3. w \in Task /\ h \in Step
    BY <1>2 DEF Task, Step
  <1>4. /\ d.state = "Connected" /\ d.failures = 0 /\ d.client = t.config
        /\ d.tasks = (c.tasks \ {t}) \union {w} /\ d.health = h
        /\ d.generation = c.generation /\ d.access = c.access
    BY DEF Cluster
  <1>5. d \in Cluster
    <2>1. (c.tasks \ {t}) \union {w} \in SUBSET Task
      BY <1>1, <1>3
    <2>2. 0 \in 0..MaxFailures /\ "Connected" \in States
      BY DEF MaxFailures, States
    <2> QED BY <1>2, <1>3, <2>1, <2>2 DEF Cluster
  <1>6. \A u \in c.tasks \ {t} : u.kind \notin {"connect", "retry"}
    BY DEF Attended
  <1>7. \A u \in c.tasks : u.kind \in {"connect", "retry", "watches"}
    BY <1>1 DEF Task
  <1>8. \A u \in d.tasks : /\ u.kind = "watches"
                           /\ u.generation = d.generation
    BY <1>1, <1>4, <1>6, <1>7 DEF Attended
  <1>9. \A u \in d.tasks : u.config = d.client
    BY <1>1, <1>4, <1>6, <1>7 DEF Attended
  <1>10. d.generation # 0
    BY <1>4 DEF Attended
  <1>11. w \in d.tasks /\ h # None
    BY <1>3, <1>4
  <1> QED BY <1>1, <1>2, <1>4, <1>5, <1>8, <1>9, <1>10, <1>11 DEF Attended

(* A failed attempt leaves a retry timer exactly when it promises a retry. *)
LEMMA FailAttended ==
    ASSUME NEW c \in Cluster, NEW cfg \in Configs \union {Broken},
           Attended(c, cfg), NEW t \in c.tasks, t.kind = "connect",
           NEW s \in States \ {"Disconnected", "Connecting", "Connected"},
           NEW k \in Configs \union {None}, k = t.config \/ k = c.client,
           NEW r, r = [kind |-> "retry", generation |-> t.generation,
                       config |-> None],
           NEW new, new = IF s = "Retrying" THEN {r} ELSE {},
           NEW n \in 0..MaxFailures,
           NEW d, d = [c EXCEPT !.state = s, !.failures = n, !.client = k,
                                !.tasks = (c.tasks \ {t}) \union new]
    PROVE  d \in Cluster /\ Attended(d, cfg)
  <1>1. /\ t \in Task /\ t.generation = c.generation /\ t.config = cfg
        /\ c.tasks \in SUBSET Task /\ c.health = None
    BY DEF Attended, Cluster
  <1>2. t.generation \in Nat
    BY <1>1 DEF Task
  <1>3. r \in Task
    BY <1>2 DEF Task
  <1>4. /\ d.state = s /\ d.client = k /\ d.generation = c.generation
        /\ d.tasks = (c.tasks \ {t}) \union new /\ d.health = c.health
    BY DEF Cluster
  <1>5. d \in Cluster
    <2>1. (c.tasks \ {t}) \union new \in SUBSET Task
      BY <1>1, <1>3
    <2> QED BY <2>1 DEF Cluster
  <1>6. \A u \in c.tasks \ {t} : u.kind \notin {"connect", "retry"}
    BY DEF Attended
  <1>7. \A u \in d.tasks : /\ u.generation = d.generation
                           /\ u.kind # "connect"
                           /\ u.kind = "retry" => u = r
    BY <1>1, <1>4, <1>6 DEF Attended
  <1>8. \A u \in d.tasks : u.kind = "watches" => u.config = d.client /\ d.client # None
    <2>1. \A u \in c.tasks : u.kind = "watches" => u.config = cfg /\ cfg # None /\ c.client = cfg
      BY DEF Attended
    <2>2. \A u \in d.tasks : u.kind = "watches" => u \in c.tasks
      BY <1>4
    <2> QED BY <1>1, <1>4, <2>1, <2>2
  <1>9. d.generation # 0
    BY <1>4 DEF Attended
  <1>10. d.client # None => d.client = cfg
    BY <1>1, <1>4 DEF Attended
  <1>11. s = "Retrying" => r \in d.tasks /\ r.kind = "retry"
    BY <1>4
  <1>12. d.health = None /\ d.state = s
    BY <1>1, <1>4
  <1>13. Attended(d, cfg)
    BY <1>7, <1>8, <1>9, <1>10, <1>11, <1>12 DEF Attended
  <1> QED BY <1>5, <1>13

(* A step of the health loop keeps the connection attended: it replaces the *)
(* health step by one of the same generation and may change the state.      *)
LEMMA HealthAttended ==
    ASSUME NEW c \in Cluster, NEW cfg \in Configs \union {Broken},
           Attended(c, cfg), c.health # None,
           NEW s \in States \ {"Disconnected", "Connecting"},
           NEW n \in 0..MaxFailures,
           NEW h \in Step, h.generation = c.health.generation,
           h.kind = "ping" => h.config = c.client,
           NEW d, d = [c EXCEPT !.state = s, !.failures = n, !.health = h]
    PROVE  d \in Cluster /\ Attended(d, cfg)
  <1>1. /\ d.state = s /\ d.client = c.client /\ d.tasks = c.tasks
        /\ d.health = h /\ d.generation = c.generation
    BY DEF Cluster
  <1>2. d \in Cluster
    BY DEF Cluster
  <1>3. h # None
    OBVIOUS
  <1>4. \A u \in c.tasks : u.kind \notin {"connect", "retry"}
    BY DEF Attended
  <1>5. d.generation # 0
    BY <1>1 DEF Attended
  <1>6. h.generation = d.generation
    BY <1>1 DEF Attended
  <1>7. Attended(d, cfg)
    BY <1>1, <1>3, <1>4, <1>5, <1>6 DEF Attended
  <1> QED BY <1>2, <1>7

(* A new access answer changes nothing the invariant speaks of. *)
LEMMA AccessAttended ==
    ASSUME NEW c \in Cluster, NEW cfg, Attended(c, cfg),
           NEW k \in Configs, NEW d, d = [c EXCEPT !.access = k]
    PROVE  d \in Cluster /\ Attended(d, cfg)
  <1>1. /\ d.state = c.state /\ d.client = c.client /\ d.tasks = c.tasks
        /\ d.health = c.health /\ d.generation = c.generation
    BY DEF Cluster
  <1>2. d \in Cluster
    BY DEF Cluster
  <1>3. Attended(d, cfg)
    BY <1>1 DEF Attended
  <1> QED BY <1>2, <1>3

-----------------------------------------------------------------------------
(* What a failed attempt or ping can show. *)
LEMMA FailureStates ==
    ASSUME NEW err \in Errors, NEW sign_in \in BOOLEAN
    PROVE  /\ FailedState(err, sign_in) \in
                  States \ {"Disconnected", "Connecting", "Connected"}
           /\ PingState(err, sign_in) \in States \ {"Disconnected", "Connecting"}
  BY DEF FailedState, PingState, Errors, States

(* `failures` stays within where `backoff` is at its maximum. *)
LEMMA FailureCounts ==
    ASSUME NEW n \in 0..MaxFailures
    PROVE  CountFailure(n) \in 0..MaxFailures
  BY DEF CountFailure, MaxFailures

(* The user's calls preserve the invariant. *)
LEMMA UserStep ==
    ASSUME IInv, NEW id \in Ids, User(id)
    PROVE  IInv'
  <1> USE DEF IInv, TypeOK, ActiveIsEntry
  <1>1. CASE Connect(id)
    BY <1>1, ConnectToAttended DEF Connect
  <1>2. CASE EnsureConnected(id)
    BY <1>2, ConnectToAttended DEF EnsureConnected
  <1>3. CASE ConnectInteractive(id)
    <2>1. CASE config[id] = None
      BY <1>3, <2>1 DEF ConnectInteractive, ConnectTo
    <2>2. CASE config[id] # None
      BY <1>3, <2>2, ConnectToAttended DEF ConnectInteractive
    <2> QED BY <2>1, <2>2
  <1>4. CASE Activate(id)
    <2>1. CASE cluster[id].state \in Connectable
      BY <1>4, <2>1, ConnectToAttended DEF Activate
    <2>2. CASE cluster[id].state \notin Connectable
      BY <1>4, <2>2 DEF Activate
    <2> QED BY <2>1, <2>2
  <1>5. CASE Disconnect(id)
    <2> DEFINE d == [DefaultCluster EXCEPT !.generation = cluster[id].generation + 1]
    <2>1. /\ cluster[id].generation \in Nat /\ cluster[id].generation > 0
          /\ config[id] # None
      BY <1>5 DEF Disconnect, Known, Cluster, Attended
    <2>2. d \in Cluster /\ Attended(d, config[id])
      BY <2>1 DEF DefaultCluster, Cluster, Attended, States, MaxFailures
    <2>3. cluster' = [cluster EXCEPT ![id] = d]
      BY <1>5 DEF Disconnect
    <2> HIDE DEF d
    <2> QED BY <1>5, <2>2, <2>3, OneConnection DEF Disconnect
  <1>6. CASE AskAccess(id)
    <2>1. /\ cluster[id].client \in Configs
          /\ cluster[id].generation \in Nat
      BY <1>6 DEF AskAccess, Cluster
    <2> QED BY <1>6, <2>1 DEF AskAccess, Check
  <1> QED BY <1>1, <1>2, <1>3, <1>4, <1>5, <1>6 DEF User

(* The callbacks of tasks and timers preserve the invariant. *)
LEMMA CallbackStep ==
    ASSUME IInv, NEW id \in Ids, Callback(id)
    PROVE  IInv'
  <1> DEFINE c == cluster[id]
             cfg == config[id]
  <1> USE DEF IInv, TypeOK, ActiveIsEntry
  <1>0. c \in Cluster /\ Attended(c, cfg)
    OBVIOUS
  <1>1. CASE FinishConnect(id)
    <2>1. PICK t \in c.tasks :
             /\ t.kind = "connect" /\ cfg # None
             /\ cluster' = [cluster EXCEPT ![id] = Succeeded(c, t)]
             /\ interactive' = interactive \ {id}
             /\ UNCHANGED <<config, active, checks, reloads, removals>>
      BY <1>1 DEF FinishConnect
    <2> DEFINE d == Succeeded(c, t)
    <2>2. d \in Cluster /\ Attended(d, cfg)
      <3>1. cfg \in Configs \union {Broken} /\ t.kind = "connect"
        BY <2>1
      <3> HIDE DEF c, cfg
      <3> QED BY <1>0, <3>1, FinishAttended DEF Succeeded
    <2>3. cluster' = [cluster EXCEPT ![id] = d]
      BY <2>1
    <2> HIDE DEF d
    <2> QED BY <2>1, <2>2, <2>3, OneConnection
  <1>2. CASE FailConnect(id)
    <2>1. PICK t \in c.tasks, err \in Errors, sign_in \in BOOLEAN,
               built \in BOOLEAN :
             /\ t.kind = "connect" /\ cfg # None
             /\ cluster' = [cluster EXCEPT ![id] =
                               Failed(c, t, FailedState(err, sign_in), built)]
             /\ interactive' \in SUBSET Ids
             /\ UNCHANGED <<config, active, checks, reloads, removals>>
      BY <1>2 DEF FailConnect
    <2> DEFINE s == FailedState(err, sign_in)
               d == Failed(c, t, s, built)
    <2>2. d \in Cluster /\ Attended(d, cfg)
      <3> DEFINE n == CountFailure(c.failures)
                 k == IF built THEN t.config ELSE c.client
      <3>1. cfg \in Configs \union {Broken} /\ t.kind = "connect"
        BY <2>1
      <3>2. s \in States \ {"Disconnected", "Connecting", "Connected"}
        BY FailureStates
      <3>3. n \in 0..MaxFailures
        BY <1>0, FailureCounts DEF Cluster
      <3>4. k \in Configs \union {None} /\ (k = t.config \/ k = c.client)
        BY <1>0 DEF Cluster, Task
      <3>5. d = [c EXCEPT !.state = s, !.failures = n, !.client = k,
                    !.tasks = (c.tasks \ {t}) \union
                       (IF s = "Retrying"
                        THEN {[kind |-> "retry", generation |-> t.generation,
                               config |-> None]}
                        ELSE {})]
        BY DEF Failed
      <3> HIDE DEF c, cfg, s, n, k, d
      <3> QED BY <1>0, <3>1, <3>2, <3>3, <3>4, <3>5, FailAttended
    <2>3. cluster' = [cluster EXCEPT ![id] = d]
      BY <2>1
    <2> HIDE DEF d
    <2> QED BY <2>1, <2>2, <2>3, OneConnection
  <1>3. CASE RetryFires(id)
    <2>1. cfg # None
      BY <1>0, <1>3 DEF RetryFires, Attended, Cluster
    <2> QED BY <1>3, <2>1, ConnectToAttended DEF RetryFires
  <1>4. CASE HealthRebuilds(id)
    <2>1. cfg # None
      BY <1>0, <1>4 DEF HealthRebuilds, Attended, Cluster
    <2> QED BY <1>4, <2>1, ConnectToAttended DEF HealthRebuilds
  <1>5. ASSUME c.health # None
        PROVE  /\ cfg \in Configs \union {Broken}
               /\ c.health.generation \in Nat
               /\ c.state \in States \ {"Disconnected", "Connecting"}
               /\ c.failures \in 0..MaxFailures
               /\ c.client \in Configs
    BY <1>0, <1>5 DEF Attended, Cluster, Step
  <1>6. CASE HealthPings(id)
    <2> DEFINE h == [kind |-> "ping", generation |-> c.health.generation,
                     config |-> c.client]
               d == [c EXCEPT !.state = c.state, !.failures = c.failures,
                              !.health = h]
    <2>1. c.health # None
      BY <1>6 DEF HealthPings
    <2>2. h \in Step
      BY <1>5, <2>1 DEF Step
    <2>3. d \in Cluster /\ Attended(d, cfg)
      <3> HIDE DEF c, cfg
      <3> QED BY <1>0, <1>5, <2>1, <2>2, HealthAttended
    <2>4. d = [c EXCEPT !.health = h]
      BY <1>0 DEF Cluster
    <2>5. cluster' = [cluster EXCEPT ![id] = d]
      BY <1>6, <2>4 DEF HealthPings
    <2> HIDE DEF d
    <2> QED BY <1>6, <2>3, <2>5, OneConnection DEF HealthPings
  <1>7. ASSUME c.health # None, NEW s \in States \ {"Disconnected", "Connecting"},
               NEW n \in 0..MaxFailures,
               cluster' = [cluster EXCEPT ![id] = Pinged(c, c.health, s, n)],
               UNCHANGED <<config, active, interactive, checks, reloads, removals>>
        PROVE  IInv'
    <2> DEFINE d == Pinged(c, c.health, s, n)
    <2>1. [kind |-> "timer", generation |-> c.health.generation,
           config |-> None] \in Step
      BY <1>5, <1>7 DEF Step
    <2>2. d \in Cluster /\ Attended(d, cfg)
      <3> HIDE DEF c, cfg
      <3> QED BY <1>0, <1>5, <1>7, <2>1, HealthAttended DEF Pinged
    <2>3. cluster' = [cluster EXCEPT ![id] = d]
      BY <1>7
    <2> HIDE DEF d
    <2> QED BY <1>7, <2>2, <2>3, OneConnection
  <1>8. CASE PingSucceeds(id)
    <2>1. c.health # None
      BY <1>8 DEF PingSucceeds
    <2>2. "Connected" \in States \ {"Disconnected", "Connecting"}
          /\ 0 \in 0..MaxFailures
      BY DEF States, MaxFailures
    <2> QED BY <1>7, <1>8, <2>1, <2>2 DEF PingSucceeds
  <1>9. CASE PingFails(id)
    <2>1. c.health # None
      BY <1>9 DEF PingFails
    <2>2. PICK err \in Errors, sign_in \in BOOLEAN :
             cluster' = [cluster EXCEPT ![id] =
                            Pinged(c, c.health, PingState(err, sign_in),
                                   CountFailure(c.failures))]
      BY <1>9 DEF PingFails
    <2>3. /\ PingState(err, sign_in) \in States \ {"Disconnected", "Connecting"}
          /\ CountFailure(c.failures) \in 0..MaxFailures
      BY <1>5, <2>1, FailureStates, FailureCounts
    <2>4. UNCHANGED <<config, active, interactive, checks, reloads, removals>>
      BY <1>9 DEF PingFails
    <2> QED BY <1>7, <2>1, <2>2, <2>3, <2>4
  <1> QED BY <1>1, <1>2, <1>3, <1>4, <1>6, <1>8, <1>9 DEF Callback

(* A rebuild of the entries preserves the invariant: what is gone is        *)
(* dropped, what changed starts over, the rest has the entry it had.        *)
LEMMA ApplyStep ==
    ASSUME IInv, NEW new \in [Ids -> Configs \union {Broken, None}],
           ApplyEntries(new)
    PROVE  IInv'
  <1> USE DEF IInv, TypeOK, ActiveIsEntry
  <1>1. \A id \in Ids : /\ cluster'[id] \in Cluster
                         /\ Attended(cluster'[id], config'[id])
    <2> TAKE id \in Ids
    <2>1. /\ cluster[id] \in Cluster /\ Attended(cluster[id], config[id])
          /\ cluster[id].generation \in Nat
          /\ config'[id] = new[id]
      BY DEF ApplyEntries, Cluster
    <2>2. CASE id \in Gone(new)
      <3>1. cluster'[id] = DefaultCluster
        BY <2>2 DEF ApplyEntries
      <3> QED BY <3>1, DefaultAttended
    <2>3. CASE id \notin Gone(new) /\ id \in Changed(new)
      <3>1. cluster'[id] = Attempt(cluster[id], new[id])
        BY <2>3 DEF ApplyEntries
      <3>2. new[id] \in Configs \union {Broken}
        BY <2>3 DEF Changed
      <3> QED BY <2>1, <3>1, <3>2, AttemptAttended
    <2>4. CASE id \notin Gone(new) /\ id \notin Changed(new)
      <3>1. cluster'[id] = cluster[id]
        BY <2>4 DEF ApplyEntries
      <3>2. CASE new[id] = config[id]
        BY <2>1, <3>1, <3>2
      <3>3. CASE new[id] # config[id]
        <4>1. cluster[id].state = "Disconnected"
          BY <2>1, <2>4, <3>3 DEF Gone, Changed, Known, Attended
        <4>2. cluster[id].generation > 0 => new[id] # None
          BY <2>4 DEF Gone, Known
        <4>3. Attended(cluster[id], new[id])
          BY <2>1, <4>1, <4>2 DEF Attended
        <4> QED BY <2>1, <3>1, <4>3
      <3> QED BY <3>2, <3>3
    <2> QED BY <2>2, <2>3, <2>4
  <1>2. cluster' \in [Ids -> Cluster]
    BY <1>1 DEF ApplyEntries
  <1>3. active' \in Ids \union {None} /\ (active' # None => config'[active'] # None)
    BY DEF ApplyEntries
  <1>4. reloads' \in 0..MaxReloads /\ removals' \in 0..MaxRemovals
    BY DEF ApplyEntries
  <1> QED BY <1>1, <1>2, <1>3, <1>4 DEF ApplyEntries

(* So do the ends of access checks. *)
LEMMA AccessStep ==
    ASSUME IInv, NEW k \in checks, RecordAccess(k) \/ AccessFails(k)
    PROVE  IInv'
  <1> USE DEF IInv, TypeOK, ActiveIsEntry
  <1>1. k.id \in Ids /\ k.config \in Configs
    BY DEF Check
  <1>2. CASE RecordAccess(k) /\ Current(k.id, k.generation)
    <2> DEFINE d == [cluster[k.id] EXCEPT !.access = k.config]
    <2>1. d \in Cluster /\ Attended(d, config[k.id])
      BY <1>1, AccessAttended
    <2>2. cluster' = [cluster EXCEPT ![k.id] = d]
      BY <1>2 DEF RecordAccess
    <2> HIDE DEF d
    <2> QED BY <1>1, <1>2, <2>1, <2>2, OneConnection DEF RecordAccess
  <1>3. CASE RecordAccess(k) /\ ~Current(k.id, k.generation)
    BY <1>3 DEF RecordAccess
  <1>4. CASE AccessFails(k)
    BY <1>4 DEF AccessFails
  <1> QED BY <1>2, <1>3, <1>4

(* The first state satisfies `IInv`, and every step keeps it. *)
LEMMA Inductive ==
    /\ Init => IInv
    /\ IInv /\ [Next]_vars => IInv'
  <1>1. Init => IInv
    BY DefaultAttended DEF Init, IInv, TypeOK, ActiveIsEntry
  <1>2. IInv /\ UNCHANGED vars => IInv'
    BY DEF vars, IInv, TypeOK, ActiveIsEntry
  <1>3. IInv /\ Next => IInv'
    BY UserStep, CallbackStep, ApplyStep, AccessStep DEF Next
  <1> QED BY <1>1, <1>2, <1>3

(* In every reachable state each connection is attended: what its state     *)
(* promises has the one task or timer for it, of the current attempt.       *)
THEOREM Invariance == Spec => []IInv
  BY Inductive, PTL DEF Spec

-----------------------------------------------------------------------------
(* The invariants the runs check are consequences. *)
THEOREM TypeCorrect == Spec => []TypeOK
  <1>1. IInv => TypeOK
    BY DEF IInv
  <1> QED BY <1>1, Invariance, PTL

(* Whatever a connection still runs was started by its current attempt. *)
THEOREM CurrentTasks == Spec => []TasksAreCurrent
  <1>1. IInv => TasksAreCurrent
    BY DEF IInv, Attended, TasksAreCurrent
  <1> QED BY <1>1, Invariance, PTL

(* A client is always one for the kubeconfig as loaded now. *)
THEOREM CurrentClients == Spec => []ClientMatchesKubeconfig
  <1>1. IInv => ClientMatchesKubeconfig
    BY DEF IInv, Attended, ClientMatchesKubeconfig
  <1> QED BY <1>1, Invariance, PTL

(* No connection is ever left without the task or timer its state promises. *)
THEOREM NothingStranded == Spec => []Supervised
  <1>1. IInv => Supervised
    BY DEF IInv, Attended, Supervised
  <1> QED BY <1>1, Invariance, PTL

(* No connection is ever driven by two of attempt, retry timer, health loop. *)
THEOREM NoDoubleRetry == Spec => []OneSupervisor
  <1>1. IInv => OneSupervisor
    BY DEF IInv, Attended, OneSupervisor
  <1> QED BY <1>1, Invariance, PTL

(* The active cluster is an entry. *)
THEOREM ActiveExists == Spec => []ActiveIsEntry
  <1>1. IInv => ActiveIsEntry
    BY DEF IInv
  <1> QED BY <1>1, Invariance, PTL

-----------------------------------------------------------------------------
(* How one step may change one connection: it keeps its generation, is      *)
(* closed as before or not, and has the permission of before or one a check *)
(* of its generation brought; or it starts a newer attempt that knows of no *)
(* permission; or its entry is gone and it is forgotten.  Only a closed     *)
(* connection outlives a change of its entry.                               *)
Goes(id, d) ==
    /\ d.generation = cluster[id].generation
    /\ d.state = "Disconnected" <=> cluster[id].state = "Disconnected"
    /\ \/ d.access = cluster[id].access
       \/ \E k \in checks : /\ k.id = id /\ k.generation = cluster[id].generation
                            /\ d.access = k.config

Advances(id) ==
    \/ /\ Goes(id, cluster'[id])
       /\ \/ config'[id] = config[id]
          \/ cluster[id].state = "Disconnected" /\ cluster'[id] = cluster[id]
    \/ /\ cluster'[id].generation = cluster[id].generation + 1
       /\ cluster'[id].access = None
    \/ cluster'[id] = DefaultCluster /\ config'[id] = None /\ removals' > 0

(* A connection that stays as it is, with its entry. *)
LEMMA StaysAdvances ==
    ASSUME IInv, NEW id \in Ids, cluster'[id] = cluster[id], UNCHANGED config
    PROVE  Advances(id)
  BY DEF Advances, Goes

(* `connect` makes a newer attempt. *)
LEMMA ConnectAdvances ==
    ASSUME IInv, NEW id \in Ids, cluster' = ConnectTo(id), UNCHANGED config
    PROVE  \A i \in Ids : Advances(i)
  <1>1. cluster[id] \in Cluster
    BY DEF IInv, TypeOK
  <1>2. CASE config[id] = None
    BY <1>2, StaysAdvances DEF ConnectTo
  <1>3. CASE config[id] # None
    <2> DEFINE d == Attempt(cluster[id], config[id])
    <2>1. cluster' = [cluster EXCEPT ![id] = d]
      BY <1>3 DEF ConnectTo
    <2>2. d.generation = cluster[id].generation + 1 /\ d.access = None
      BY <1>1 DEF Attempt, Cluster
    <2> HIDE DEF d
    <2>3. \A i \in Ids : cluster'[i] = IF i = id THEN d ELSE cluster[i]
      BY <2>1 DEF IInv, TypeOK
    <2>4. \A i \in Ids : i # id => Advances(i)
      BY <2>3, StaysAdvances
    <2>5. Advances(id)
      BY <2>2, <2>3 DEF Advances
    <2> QED BY <2>4, <2>5
  <1> QED BY <1>2, <1>3

(* One connection goes on, and the others stay. *)
LEMMA GoesAdvances ==
    ASSUME IInv, NEW id \in Ids, NEW d, Goes(id, d),
           cluster' = [cluster EXCEPT ![id] = d], UNCHANGED config
    PROVE  \A i \in Ids : Advances(i)
  <1>1. \A i \in Ids : cluster'[i] = IF i = id THEN d ELSE cluster[i]
    BY DEF IInv, TypeOK
  <1>2. \A i \in Ids : i # id => Advances(i)
    BY <1>1, StaysAdvances
  <1>3. Advances(id)
    BY <1>1 DEF Advances
  <1> QED BY <1>2, <1>3

(* Every step changes every connection in one of these ways. *)
LEMMA StepAdvances ==
    ASSUME IInv, Next
    PROVE  \A id \in Ids : Advances(id)
  <1> USE DEF IInv, TypeOK
  <1>1. ASSUME NEW id \in Ids, User(id)
        PROVE  \A i \in Ids : Advances(i)
    <2>1. CASE cluster' = ConnectTo(id) /\ UNCHANGED config
      BY <2>1, ConnectAdvances
    <2>2. CASE cluster' = cluster /\ UNCHANGED config
      BY <2>2, StaysAdvances
    <2>3. CASE Disconnect(id)
      <3> DEFINE d == [DefaultCluster EXCEPT !.generation = cluster[id].generation + 1]
      <3>1. cluster' = [cluster EXCEPT ![id] = d] /\ UNCHANGED config
        BY <2>3 DEF Disconnect
      <3>2. d.generation = cluster[id].generation + 1 /\ d.access = None
        BY DEF DefaultCluster
      <3> HIDE DEF d
      <3>3. \A i \in Ids : cluster'[i] = IF i = id THEN d ELSE cluster[i]
        BY <3>1
      <3>4. \A i \in Ids : i # id => Advances(i)
        BY <3>1, <3>3, StaysAdvances
      <3>5. Advances(id)
        BY <3>2, <3>3 DEF Advances
      <3> QED BY <3>4, <3>5
    <2> QED BY <1>1, <2>1, <2>2, <2>3
          DEF User, Connect, EnsureConnected, ConnectInteractive, Activate, AskAccess
  <1>2. ASSUME NEW id \in Ids, Callback(id)
        PROVE  \A i \in Ids : Advances(i)
    <2>1. cluster[id] \in Cluster /\ Attended(cluster[id], config[id])
      OBVIOUS
    <2>2. CASE cluster' = ConnectTo(id) /\ UNCHANGED config
      BY <2>2, ConnectAdvances
    <2>3. ASSUME NEW d, d.generation = cluster[id].generation,
                 d.access = cluster[id].access, d.state # "Disconnected",
                 cluster' = [cluster EXCEPT ![id] = d], UNCHANGED config,
                 cluster[id].state # "Disconnected"
          PROVE  \A i \in Ids : Advances(i)
      <3>1. Goes(id, d)
        BY <2>3 DEF Goes
      <3> QED BY <2>3, <3>1, GoesAdvances
    <2>4. CASE FinishConnect(id)
      <3>1. PICK t \in cluster[id].tasks :
               cluster' = [cluster EXCEPT ![id] = Succeeded(cluster[id], t)]
        BY <2>4 DEF FinishConnect
      <3>2. /\ Succeeded(cluster[id], t).generation = cluster[id].generation
            /\ Succeeded(cluster[id], t).access = cluster[id].access
            /\ Succeeded(cluster[id], t).state = "Connected"
        BY <2>1 DEF Succeeded, Cluster
      <3>3. cluster[id].state # "Disconnected" /\ UNCHANGED config
        BY <2>1, <2>4 DEF Attended, FinishConnect
      <3> QED BY <2>3, <3>1, <3>2, <3>3
    <2>5. CASE FailConnect(id)
      <3>1. PICK t \in cluster[id].tasks, s \in States \ {"Disconnected"},
                 built \in BOOLEAN :
               cluster' = [cluster EXCEPT ![id] = Failed(cluster[id], t, s, built)]
        BY <2>5, FailureStates DEF FailConnect
      <3>2. /\ Failed(cluster[id], t, s, built).generation = cluster[id].generation
            /\ Failed(cluster[id], t, s, built).access = cluster[id].access
            /\ Failed(cluster[id], t, s, built).state = s
        BY <2>1 DEF Failed, Cluster
      <3>3. cluster[id].state # "Disconnected" /\ UNCHANGED config
        BY <2>1, <2>5 DEF Attended, FailConnect
      <3> QED BY <2>3, <3>1, <3>2, <3>3
    <2>6. CASE HealthPings(id)
      <3> DEFINE d == [cluster[id] EXCEPT !.health =
                          [kind |-> "ping",
                           generation |-> cluster[id].health.generation,
                           config |-> cluster[id].client]]
      <3>1. cluster' = [cluster EXCEPT ![id] = d] /\ UNCHANGED config
        BY <2>6 DEF HealthPings
      <3>2. /\ d.generation = cluster[id].generation /\ d.access = cluster[id].access
            /\ d.state = cluster[id].state
        BY <2>1 DEF Cluster
      <3>3. cluster[id].state # "Disconnected"
        BY <2>1, <2>6 DEF HealthPings, Attended
      <3> HIDE DEF d
      <3> QED BY <2>3, <3>1, <3>2, <3>3
    <2>7. CASE PingSucceeds(id) \/ PingFails(id)
      <3>1. PICK s \in States \ {"Disconnected"}, n \in 0..MaxFailures :
               cluster' = [cluster EXCEPT ![id] =
                              Pinged(cluster[id], cluster[id].health, s, n)]
        <4>1. CASE PingSucceeds(id)
          <5>1. "Connected" \in States \ {"Disconnected"} /\ 0 \in 0..MaxFailures
            BY DEF States, MaxFailures
          <5> QED BY <4>1, <5>1 DEF PingSucceeds
        <4>2. CASE PingFails(id)
          <5>1. CountFailure(cluster[id].failures) \in 0..MaxFailures
            BY <2>1, FailureCounts DEF Cluster
          <5> QED BY <4>2, <5>1, FailureStates DEF PingFails
        <4> QED BY <2>7, <4>1, <4>2
      <3>2. LET d == Pinged(cluster[id], cluster[id].health, s, n)
            IN  /\ d.generation = cluster[id].generation /\ d.access = cluster[id].access
                /\ d.state = s
        BY <2>1 DEF Pinged, Cluster
      <3>3. cluster[id].state # "Disconnected" /\ UNCHANGED config
        BY <2>1, <2>7 DEF PingSucceeds, PingFails, Attended
      <3> QED BY <2>3, <3>1, <3>2, <3>3
    <2> QED BY <1>2, <2>2, <2>4, <2>5, <2>6, <2>7
          DEF Callback, RetryFires, HealthRebuilds
  <1>3. ASSUME NEW new \in [Ids -> Configs \union {Broken, None}],
               ApplyEntries(new)
        PROVE  \A i \in Ids : Advances(i)
    <2> TAKE i \in Ids
    <2>1. CASE i \in Gone(new)
      BY <1>3, <2>1 DEF ApplyEntries, Gone, Advances
    <2>2. CASE i \notin Gone(new) /\ i \in Changed(new)
      <3>1. cluster'[i] = Attempt(cluster[i], new[i]) /\ cluster[i] \in Cluster
        BY <1>3, <2>2 DEF ApplyEntries
      <3>2. /\ Attempt(cluster[i], new[i]).generation = cluster[i].generation + 1
            /\ Attempt(cluster[i], new[i]).access = None
        BY <3>1 DEF Attempt, Cluster
      <3> QED BY <3>1, <3>2 DEF Advances
    <2>3. CASE i \notin Gone(new) /\ i \notin Changed(new)
      <3>1. cluster'[i] = cluster[i] /\ config'[i] = new[i]
        BY <1>3, <2>3 DEF ApplyEntries
      <3>2. Goes(i, cluster'[i])
        BY <3>1 DEF Goes
      <3>3. new[i] = config[i] \/ cluster[i].state = "Disconnected"
        <4>1. Attended(cluster[i], config[i]) /\ cluster[i].generation \in Nat
          BY DEF Cluster
        <4> QED BY <2>3, <4>1 DEF Gone, Changed, Known, Attended
      <3> QED BY <3>1, <3>2, <3>3 DEF Advances
    <2> QED BY <2>1, <2>2, <2>3
  <1>4. ASSUME NEW k \in checks, RecordAccess(k) \/ AccessFails(k)
        PROVE  \A i \in Ids : Advances(i)
    <2>1. k.id \in Ids /\ UNCHANGED config
      BY <1>4 DEF Check, RecordAccess, AccessFails
    <2>2. CASE cluster' = cluster
      BY <2>1, <2>2, StaysAdvances
    <2>3. CASE cluster' # cluster
      <3> DEFINE d == [cluster[k.id] EXCEPT !.access = k.config]
      <3>1. cluster' = [cluster EXCEPT ![k.id] = d] /\ Current(k.id, k.generation)
        BY <1>4, <2>3 DEF RecordAccess, AccessFails
      <3>2. /\ d.generation = cluster[k.id].generation /\ d.state = cluster[k.id].state
            /\ d.access = k.config
        BY <2>1 DEF Cluster
      <3> HIDE DEF d
      <3>3. Goes(k.id, d)
        BY <3>1, <3>2 DEF Goes, Current
      <3>4. PICK id \in Ids : id = k.id
        BY <2>1
      <3> QED BY <2>1, <3>1, <3>3, <3>4, GoesAdvances
    <2> QED BY <2>2, <2>3
  <1> QED BY <1>1, <1>2, <1>3, <1>4 DEF Next

(* A late result never revives a connection the user closed. *)
THEOREM ClosedStaysClosed == Spec => DisconnectedStaysClosed
  <1> DEFINE A == \A id \in Ids : cluster[id].state = "Disconnected" =>
                     \/ cluster'[id].state = "Disconnected"
                     \/ cluster'[id].generation > cluster[id].generation
  <1>1. IInv /\ [Next]_vars => [A]_vars
    <2> SUFFICES ASSUME IInv, Next, NEW id \in Ids,
                        cluster[id].state = "Disconnected"
                 PROVE  \/ cluster'[id].state = "Disconnected"
                        \/ cluster'[id].generation > cluster[id].generation
      BY DEF vars
    <2>1. Advances(id) /\ cluster[id].generation \in Nat
      BY StepAdvances DEF IInv, TypeOK, Cluster
    <2> QED BY <2>1 DEF Advances, Goes, DefaultCluster
  <1> QED BY <1>1, Invariance, PTL DEF Spec, DisconnectedStaysClosed

(* The generation of a connection never goes back while its entry exists. *)
THEOREM GenerationsOnlyGrow == Spec => GenerationsGrow
  <1> DEFINE A == \A id \in Ids : Known(id) =>
                     \/ cluster'[id].generation >= cluster[id].generation
                     \/ config'[id] = None
  <1>1. IInv /\ [Next]_vars => [A]_vars
    <2> SUFFICES ASSUME IInv, Next, NEW id \in Ids
                 PROVE  \/ cluster'[id].generation >= cluster[id].generation
                        \/ config'[id] = None
      BY DEF vars
    <2>1. Advances(id) /\ cluster[id].generation \in Nat
      BY StepAdvances DEF IInv, TypeOK, Cluster
    <2> QED BY <2>1 DEF Advances, Goes
  <1> QED BY <1>1, Invariance, PTL DEF Spec, GenerationsGrow

-----------------------------------------------------------------------------
(* While no connection was ever forgotten, a check is of this attempt or an *)
(* older one.  One of this attempt, and a permission that is cached, is of  *)
(* the entry as it is now, and the connection is not closed.                *)
OfThisAttempt(id, cfg) == cfg = config[id] /\ cluster[id].state # "Disconnected"

AccessInv ==
    removals = 0 =>
        /\ \A id \in Ids : cluster[id].access # None =>
              OfThisAttempt(id, cluster[id].access)
        /\ \A k \in checks :
              /\ k.generation <= cluster[k.id].generation
              /\ k.generation = cluster[k.id].generation => OfThisAttempt(k.id, k.config)

(* A check that is there after a step was there before, or has just been    *)
(* asked with the client of a connected cluster.                            *)
LEMMA ChecksAre ==
    ASSUME IInv, [Next]_vars, NEW k \in checks'
    PROVE  \/ k \in checks
           \/ /\ k.id \in Ids /\ cluster[k.id].state = "Connected"
              /\ k.generation = cluster[k.id].generation
              /\ k.config = cluster[k.id].client /\ k.config # None
              /\ UNCHANGED <<config, cluster>>
  <1>1. ASSUME NEW id \in Ids, AskAccess(id)
        PROVE  \/ k \in checks
               \/ /\ k.id \in Ids /\ cluster[k.id].state = "Connected"
                  /\ k.generation = cluster[k.id].generation
                  /\ k.config = cluster[k.id].client /\ k.config # None
                  /\ UNCHANGED <<config, cluster>>
    BY <1>1 DEF AskAccess
  <1>2. ASSUME checks' \subseteq checks
        PROVE  k \in checks
    BY <1>2
  <1> QED BY <1>1, <1>2 DEF vars, Next, User, Callback, Connect, EnsureConnected,
         ConnectInteractive, Activate, Disconnect, FinishConnect, FailConnect, RetryFires,
         HealthRebuilds, HealthPings, PingSucceeds, PingFails, ApplyEntries, RecordAccess,
         AccessFails

(* A rebuild that forgets a connection is never taken back. *)
LEMMA RemovalsGrow ==
    ASSUME IInv, [Next]_vars, removals' = 0
    PROVE  removals = 0
  <1>1. removals \in Nat
    BY DEF IInv, TypeOK
  <1>2. ASSUME NEW new, ApplyEntries(new)
        PROVE  removals = 0
    BY <1>1, <1>2 DEF ApplyEntries
  <1>3. CASE UNCHANGED removals
    BY <1>3
  <1> QED BY <1>2, <1>3 DEF vars, Next, User, Callback, Connect, EnsureConnected,
         ConnectInteractive, Activate, Disconnect, FinishConnect, FailConnect, RetryFires,
         HealthRebuilds, HealthPings, PingSucceeds, PingFails, RecordAccess, AskAccess,
         AccessFails

(* Every step keeps cached permissions, and the checks that may become      *)
(* such, of the attempt they were asked on.                                 *)
LEMMA AccessInductive == IInv /\ AccessInv /\ [Next]_vars => AccessInv'
  <1> SUFFICES ASSUME IInv, AccessInv, [Next]_vars, removals' = 0
               PROVE  /\ \A id \in Ids : cluster'[id].access # None =>
                            /\ cluster'[id].access = config'[id]
                            /\ cluster'[id].state # "Disconnected"
                      /\ \A k \in checks' :
                            /\ k.generation <= cluster'[k.id].generation
                            /\ k.generation = cluster'[k.id].generation =>
                                  OfThisAttempt(k.id, k.config)'
    BY DEF AccessInv, OfThisAttempt
  <1>1. /\ removals = 0
        /\ \A id \in Ids : cluster[id].access # None =>
              OfThisAttempt(id, cluster[id].access)
        /\ \A k \in checks :
              /\ k.generation <= cluster[k.id].generation
              /\ k.generation = cluster[k.id].generation => OfThisAttempt(k.id, k.config)
    BY RemovalsGrow DEF AccessInv
  <1>2. \A id \in Ids : Advances(id)
    <2>1. CASE UNCHANGED vars
      BY <2>1, StaysAdvances DEF vars
    <2>2. CASE Next
      BY <2>2, StepAdvances
    <2> QED BY <2>1, <2>2
  <1>3. /\ \A id \in Ids : cluster[id].generation \in Nat
        /\ \A k \in checks : k.id \in Ids /\ k.generation \in Nat /\ k.config \in Configs
    BY DEF IInv, TypeOK, Cluster, Check
  <1>4. \A id \in Ids :
           \/ /\ Goes(id, cluster'[id])
              /\ \/ config'[id] = config[id]
                 \/ cluster[id].state = "Disconnected" /\ cluster'[id] = cluster[id]
           \/ /\ cluster'[id].generation = cluster[id].generation + 1
              /\ cluster'[id].access = None
    BY <1>2 DEF Advances
  <1>5. \A id \in Ids : \A cfg : OfThisAttempt(id, cfg) =>
           \/ OfThisAttempt(id, cfg)' /\ cluster'[id].generation = cluster[id].generation
           \/ /\ cluster'[id].generation = cluster[id].generation + 1
              /\ cluster'[id].access = None
    BY <1>4 DEF OfThisAttempt, Goes
  <1>6. ASSUME NEW id \in Ids, cluster'[id].access # None
        PROVE  /\ cluster'[id].access = config'[id]
               /\ cluster'[id].state # "Disconnected"
    <2>1. PICK cfg : cfg = cluster'[id].access
      OBVIOUS
    <2>2. Goes(id, cluster'[id])
      BY <1>4, <1>6
    <2>3. OfThisAttempt(id, cfg)
      <3>1. CASE cfg = cluster[id].access
        BY <1>1, <1>6, <2>1, <3>1
      <3>2. ASSUME NEW k \in checks, k.id = id, k.generation = cluster[id].generation,
                   cfg = k.config
            PROVE  OfThisAttempt(id, cfg)
        BY <1>1, <3>2
      <3> QED BY <2>1, <2>2, <3>1, <3>2 DEF Goes
    <2>4. OfThisAttempt(id, cfg)'
      BY <1>5, <1>6, <2>3
    <2> QED BY <2>1, <2>4 DEF OfThisAttempt
  <1>7. ASSUME NEW k \in checks'
        PROVE  /\ k.generation <= cluster'[k.id].generation
               /\ k.generation = cluster'[k.id].generation => OfThisAttempt(k.id, k.config)'
    <2>1. CASE k \in checks
      <3>1. /\ k.generation <= cluster[k.id].generation /\ k.id \in Ids
            /\ k.generation \in Nat /\ cluster[k.id].generation \in Nat
        BY <1>1, <1>3, <2>1
      <3>2. cluster'[k.id].generation \in {cluster[k.id].generation, cluster[k.id].generation + 1}
        BY <1>4, <3>1 DEF Goes
      <3>3. k.generation <= cluster'[k.id].generation
        BY <3>1, <3>2
      <3>4. ASSUME k.generation = cluster'[k.id].generation
            PROVE  OfThisAttempt(k.id, k.config)'
        <4>1. k.generation = cluster[k.id].generation
          BY <3>1, <3>2, <3>4
        <4>2. OfThisAttempt(k.id, k.config)
          BY <1>1, <2>1, <4>1
        <4>3. cluster'[k.id].generation # cluster[k.id].generation + 1
          BY <3>1, <3>4, <4>1
        <4> QED BY <1>5, <3>1, <4>2, <4>3
      <3> QED BY <3>3, <3>4
    <2>2. CASE /\ k.id \in Ids /\ cluster[k.id].state = "Connected"
               /\ k.generation = cluster[k.id].generation
               /\ k.config = cluster[k.id].client /\ k.config # None
               /\ UNCHANGED <<config, cluster>>
      <3>1. k.config = config[k.id] /\ cluster[k.id].generation \in Nat
        BY <1>3, <2>2 DEF IInv, Attended
      <3> QED BY <2>2, <3>1 DEF OfThisAttempt
    <2> QED BY <2>1, <2>2, ChecksAre
  <1> QED BY <1>6, <1>7

(* `record_access` compares generations.  While no reload has dropped a     *)
(* connection that is enough: a cached permission was always answered by    *)
(* the client the connection has now, however late the answer came.         *)
THEOREM CachedAccessIsCurrent == Spec => []AccessUnlessRemoved
  <1>1. Init => AccessInv
    BY DEF Init, AccessInv, DefaultCluster
  <1>2. IInv /\ AccessInv => AccessUnlessRemoved
    <2> SUFFICES ASSUME IInv, AccessInv, removals = 0, NEW id \in Ids,
                        cluster[id].state = "Connected", cluster[id].access # None
                 PROVE  cluster[id].access = cluster[id].client
      BY DEF AccessUnlessRemoved, AccessOfThisConnection
    <2>1. cluster[id].access = config[id]
      BY DEF AccessInv, OfThisAttempt
    <2>2. cluster[id].client = config[id]
      BY DEF IInv, Attended
    <2> QED BY <2>1, <2>2
  <1> QED BY <1>1, <1>2, AccessInductive, Invariance, PTL DEF Spec
=============================================================================
