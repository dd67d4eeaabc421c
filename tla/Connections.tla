---------------------------- MODULE Connections ----------------------------
(***************************************************************************)
(* The connections of `ManagerCore` (crates/kubyl_kube_core/src/manager.rs) *)
(* with context grouping turned off: every cluster id is one kubeconfig     *)
(* context, so `resolve` and `key` are the identity.  (Grouping and re-keyed*)
(* ids are the subject of module Entries; discovery and the CRD watch of    *)
(* module Discovery.)                                                       *)
(*                                                                         *)
(* The core is a plain state machine on a host thread: each public call and *)
(* each callback of a task runs alone, so each is one action.  What runs    *)
(* elsewhere (building a client, probing, pinging, timers) is a task record *)
(* held by the connection; dropping the record is dropping the TaskHandle,  *)
(* after which its callback never runs.  An access check is the exception:  *)
(* `can_i` runs it outside the connection's tasks.                          *)
(***************************************************************************)
EXTENDS Naturals

CONSTANTS
    Ids,            \* the cluster ids that can occur
    Configs,        \* what a kubeconfig can say of an id (server, user, ...)
    Broken,         \* an entry with `info.error`: nothing to connect with
    None,           \* absence: no entry, no client, no health step, no answer
    MaxGeneration,  \* bound: connection attempts (and disconnects) per id
    MaxReloads,     \* bound: how often the entries are rebuilt
    MaxRemovals     \* bound: how many rebuilds may lose a known connection

ASSUME IdsAssumption == None \notin Ids
ASSUME ConfigsAssumption ==
    /\ None \notin Configs /\ Broken \notin Configs /\ None # Broken
ASSUME BoundsAssumption ==
    /\ MaxGeneration \in Nat /\ MaxReloads \in Nat /\ MaxRemovals \in Nat

VARIABLES
    config,         \* entries and fingerprints: what is loaded for each id
    cluster,        \* `clusters`; an absent cluster has generation 0
    active,         \* the active cluster, or None
    interactive,    \* clusters the user asked for
    checks,         \* access checks in flight
    reloads,        \* rebuilds of the entries so far (bounded by MaxReloads)
    removals        \* rebuilds so far that dropped a connection

vars == <<config, cluster, active, interactive, checks, reloads, removals>>

-----------------------------------------------------------------------------
(* ConnectionState.  "SignIn" and "AuthFailed" are AuthRequired with and    *)
(* without `sign_in`; "Retrying" and "Unreachable" are Unreachable with and *)
(* without `retry_in`.                                                      *)
States == {"Disconnected", "Connecting", "Connected", "SignIn", "AuthFailed",
           "Retrying", "Unreachable", "Forbidden"}

(* client::ConnectError. *)
Errors == {"SignInRequired", "Auth", "Forbidden", "Unreachable", "Config"}

(* What `Cluster.tasks` can hold that is still running: the connect attempt, *)
(* the retry timer of `fail`, and the watches and discovery of a connected   *)
(* cluster, which start together and are only ever dropped together.         *)
Task == [kind : {"connect", "retry", "watches"}, generation : Nat,
         config : Configs \union {None}]

(* The health loop's next step: a timer, or a ping with a client. *)
Step == [kind : {"timer", "ping"}, generation : Nat,
         config : Configs \union {None}]

ASSUME StepAssumption == None \notin Step

(* `failures` is only compared with 1 and fed to `backoff`, which has reached *)
(* BACKOFF_MAX at 5: counting saturates there.                               *)
MaxFailures == 5

CountFailure(n) == IF n < MaxFailures THEN n + 1 ELSE n

Cluster == [state : States, generation : Nat, client : Configs \union {None},
            tasks : SUBSET Task, health : Step \union {None},
            failures : 0..MaxFailures, access : Configs \union {None}]

DefaultCluster == [state |-> "Disconnected", generation |-> 0, client |-> None,
                   tasks |-> {}, health |-> None, failures |-> 0,
                   access |-> None]

Check == [id : Ids, generation : Nat, config : Configs]

Known(id) == cluster[id].generation > 0

-----------------------------------------------------------------------------
(* Mutant: `connect` forgets to drop the tasks of the old attempt. *)
AttemptKeepsTasks(c, cfg) ==
    LET g == c.generation + 1
    IN  [c EXCEPT !.generation = g,
                  !.state = IF cfg \in Configs THEN "Connecting" ELSE "Unreachable",
                  !.client = None,
                  !.tasks = c.tasks \union
                      (IF cfg \in Configs
                       THEN {[kind |-> "connect", generation |-> g, config |-> cfg]}
                       ELSE {}),
                  !.health = None,
                  !.access = None]

(* What `connect` makes of connection c of an entry that says cfg.  Every    *)
(* handle of the old attempt is dropped.                                     *)
Attempt(c, cfg) ==
    LET g == c.generation + 1
        usable == cfg \in Configs
    IN  [c EXCEPT !.generation = g,
                  !.state = IF usable THEN "Connecting" ELSE "Unreachable",
                  !.client = None,
                  !.tasks = IF usable
                            THEN {[kind |-> "connect", generation |-> g,
                                   config |-> cfg]}
                            ELSE {},
                  !.health = None,
                  !.access = None]

(* `connect(id)`: nothing happens for an id that is not an entry. *)
ConnectTo(id) ==
    IF config[id] = None
    THEN cluster
    ELSE [cluster EXCEPT ![id] = Attempt(@, config[id])]

(* Room below the bound on attempts. *)
MayAttempt(id) == cluster[id].generation < MaxGeneration

(* `connect`: the user reconnects, or a sign-in finished. *)
Connect(id) ==
    /\ config[id] # None
    /\ MayAttempt(id)
    /\ cluster' = ConnectTo(id)
    /\ UNCHANGED <<config, active, interactive, checks, reloads, removals>>

(* The states `ensure_connected` connects from. *)
Connectable == {"Disconnected", "Retrying", "Unreachable", "Forbidden",
                "AuthFailed"}

(* `ensure_connected`: a cluster root is expanded, a favorite is opened. *)
EnsureConnected(id) ==
    /\ config[id] # None
    /\ cluster[id].state \in Connectable
    /\ MayAttempt(id)
    /\ cluster' = ConnectTo(id)
    /\ UNCHANGED <<config, active, interactive, checks, reloads, removals>>

(* `connect_interactive`: records the ask even when there is no such entry. *)
ConnectInteractive(id) ==
    /\ MayAttempt(id)
    /\ interactive' = interactive \union {id}
    /\ cluster' = ConnectTo(id)
    /\ UNCHANGED <<config, active, checks, reloads, removals>>

(* `activate_in`: the ask of a cluster that waits for a sign-in is answered  *)
(* at once (SignInRequested); others connect if they are not.                *)
Activate(id) ==
    /\ config[id] # None
    /\ MayAttempt(id)
    /\ active' = id
    /\ interactive' = IF cluster[id].state = "SignIn"
                      THEN interactive \ {id}
                      ELSE interactive \union {id}
    /\ cluster' = IF cluster[id].state \in Connectable
                  THEN ConnectTo(id)
                  ELSE cluster
    /\ UNCHANGED <<config, checks, reloads, removals>>

(* Mutant: `disconnect` only changes the state shown. *)
DisconnectKeepsTasks(id) ==
    /\ Known(id)
    /\ MayAttempt(id)
    /\ cluster' = [cluster EXCEPT ![id].state = "Disconnected"]
    /\ UNCHANGED <<config, active, interactive, checks, reloads, removals>>

(* `disconnect`: everything but the generation is reset. *)
Disconnect(id) ==
    /\ Known(id)
    /\ MayAttempt(id)
    /\ cluster' = [cluster EXCEPT ![id] =
                      [DefaultCluster EXCEPT !.generation =
                          cluster[id].generation + 1]]
    /\ UNCHANGED <<config, active, interactive, checks, reloads, removals>>

-----------------------------------------------------------------------------
(* Mutant: only connected clusters reconnect when their kubeconfig changes. *)
ChangedConnected(new) ==
    {id \in Ids : /\ Known(id) /\ new[id] # None
                  /\ cluster[id].state = "Connected"
                  /\ new[id] # config[id]}

(* `apply_entries` after a load: connections of entries that are gone are   *)
(* dropped, those whose fingerprint changed reconnect (unless disconnected), *)
(* and the active cluster is cleared when its entry is gone.                 *)
Changed(new) == {id \in Ids : /\ Known(id) /\ new[id] # None
                              /\ cluster[id].state # "Disconnected"
                              /\ new[id] # config[id]}

Gone(new) == {id \in Ids : Known(id) /\ new[id] = None}

ApplyEntries(new) ==
    /\ reloads < MaxReloads
    /\ Gone(new) # {} => removals < MaxRemovals
    /\ \A id \in Changed(new) : MayAttempt(id)
    /\ reloads' = reloads + 1
    /\ removals' = IF Gone(new) # {} THEN removals + 1 ELSE removals
    /\ config' = new
    /\ cluster' = [id \in Ids |->
                      IF id \in Gone(new) THEN DefaultCluster
                      ELSE IF id \in Changed(new)
                           THEN Attempt(cluster[id], new[id])
                           ELSE cluster[id]]
    /\ active' = IF active # None /\ new[active] = None THEN None ELSE active
    /\ UNCHANGED <<interactive, checks>>

-----------------------------------------------------------------------------
(* A callback finds its connection only if the generation it was started    *)
(* with is still the connection's (`current`).                               *)
Current(id, generation) == cluster[id].generation = generation

(* The state after a failed attempt (`fail`).  `sign_in` is what the entry's *)
(* auth method supports.                                                     *)
FailedState(err, sign_in) ==
    CASE err = "SignInRequired" -> "SignIn"
      [] err = "Auth" -> IF sign_in THEN "SignIn" ELSE "AuthFailed"
      [] err = "Forbidden" -> "Forbidden"
      [] err = "Unreachable" -> "Retrying"
      [] err = "Config" -> "Unreachable"

(* Connection c after attempt t succeeded: a client, its watches and         *)
(* discovery (`start_watches`, `run_discovery`), a health timer              *)
(* (`start_health`).                                                         *)
Succeeded(c, t) ==
    [c EXCEPT !.state = "Connected",
              !.failures = 0,
              !.client = t.config,
              !.tasks = (c.tasks \ {t}) \union
                           {[kind |-> "watches", generation |-> t.generation,
                             config |-> t.config]},
              !.health = [kind |-> "timer", generation |-> t.generation,
                          config |-> None]]

(* Mutant: `fail` promises a retry but does not keep the timer's handle. *)
FailedDropsTimer(c, t, state, built) ==
    [c EXCEPT !.state = state,
              !.failures = CountFailure(c.failures),
              !.client = IF built THEN t.config ELSE c.client,
              !.tasks = c.tasks \ {t}]

(* Connection c after attempt t failed; the client is kept if there is one   *)
(* (`built`: only the probe failed), for a sign-in.                          *)
Failed(c, t, state, built) ==
    [c EXCEPT !.state = state,
              !.failures = CountFailure(c.failures),
              !.client = IF built THEN t.config ELSE c.client,
              !.tasks = (c.tasks \ {t}) \union
                 (IF state = "Retrying"
                  THEN {[kind |-> "retry", generation |-> t.generation,
                         config |-> None]}
                  ELSE {})]

(* `finish_connect` with a client and a probe that succeeded. *)
FinishConnect(id) == \E t \in cluster[id].tasks :
    /\ t.kind = "connect"
    /\ config[id] # None
    /\ Current(id, t.generation)
    /\ cluster' = [cluster EXCEPT ![id] = Succeeded(@, t)]
    /\ interactive' = interactive \ {id}
    /\ UNCHANGED <<config, active, checks, reloads, removals>>

(* `finish_connect` with an error of the build or of the probe, then `fail`. *)
FailConnect(id) == \E t \in cluster[id].tasks, err \in Errors,
                      sign_in \in BOOLEAN, built \in BOOLEAN :
    /\ t.kind = "connect"
    /\ config[id] # None
    /\ Current(id, t.generation)
    /\ cluster' = [cluster EXCEPT ![id] =
                      Failed(@, t, FailedState(err, sign_in), built)]
    /\ interactive' = IF err = "SignInRequired" THEN interactive \ {id}
                      ELSE interactive
    /\ UNCHANGED <<config, active, checks, reloads, removals>>

(* The retry timer of `fail`: connects again if nothing else did. *)
RetryFires(id) == \E t \in cluster[id].tasks :
    /\ t.kind = "retry"
    /\ Current(id, t.generation)
    /\ MayAttempt(id)
    /\ cluster' = ConnectTo(id)
    /\ UNCHANGED <<config, active, interactive, checks, reloads, removals>>

(* `health_tick`: a client certificate that is about to expire reconnects ... *)
HealthRebuilds(id) ==
    /\ cluster[id].health # None
    /\ cluster[id].health.kind = "timer"
    /\ Current(id, cluster[id].health.generation)
    /\ cluster[id].client # None
    /\ MayAttempt(id)
    /\ cluster' = ConnectTo(id)
    /\ UNCHANGED <<config, active, interactive, checks, reloads, removals>>

(* ... otherwise the timer is replaced by a ping with the current client. *)
HealthPings(id) ==
    LET h == cluster[id].health IN
    /\ h # None
    /\ h.kind = "timer"
    /\ Current(id, h.generation)
    /\ cluster[id].client # None
    /\ cluster' = [cluster EXCEPT ![id].health =
                      [kind |-> "ping", generation |-> h.generation,
                       config |-> cluster[id].client]]
    /\ UNCHANGED <<config, active, interactive, checks, reloads, removals>>

(* The state after a failed ping: `finish_ping` differs from `fail` in that  *)
(* a configuration error is retried too (by the health loop).                *)
PingState(err, sign_in) ==
    IF err = "Config" THEN "Retrying" ELSE FailedState(err, sign_in)

(* Mutant: a failed ping ends the health loop. *)
PingedOnce(c, h, state, failures) ==
    [c EXCEPT !.state = state,
              !.failures = failures,
              !.health = IF state = "Connected"
                         THEN [kind |-> "timer", generation |-> h.generation,
                               config |-> None]
                         ELSE None]

(* Mutant: a failed ping starts a retry timer beside the health loop. *)
PingedStartsRetry(c, h, state, failures) ==
    [c EXCEPT !.state = state,
              !.failures = failures,
              !.tasks = IF state = "Retrying"
                        THEN c.tasks \union
                               {[kind |-> "retry", generation |-> h.generation,
                                 config |-> None]}
                        ELSE c.tasks,
              !.health = [kind |-> "timer", generation |-> h.generation,
                          config |-> None]]

(* Connection c after its ping h ended: the state `finish_ping` sets, then   *)
(* the next timer.                                                           *)
Pinged(c, h, state, failures) ==
    [c EXCEPT !.state = state,
              !.failures = failures,
              !.health = [kind |-> "timer", generation |-> h.generation,
                          config |-> None]]

PingSucceeds(id) ==
    LET h == cluster[id].health IN
    /\ h # None
    /\ h.kind = "ping"
    /\ Current(id, h.generation)
    /\ cluster' = [cluster EXCEPT ![id] = Pinged(@, h, "Connected", 0)]
    /\ UNCHANGED <<config, active, interactive, checks, reloads, removals>>

PingFails(id) ==
    LET h == cluster[id].health IN
    /\ h # None
    /\ h.kind = "ping"
    /\ Current(id, h.generation)
    /\ \E err \in Errors, sign_in \in BOOLEAN :
         cluster' = [cluster EXCEPT ![id] =
                        Pinged(@, h, PingState(err, sign_in),
                               CountFailure(cluster[id].failures))]
    /\ UNCHANGED <<config, active, interactive, checks, reloads, removals>>

-----------------------------------------------------------------------------
(* `can_i` of a connected cluster without a cached answer (one query):       *)
(* `access_check` hands out the client and the generation.                   *)
AskAccess(id) ==
    /\ cluster[id].state = "Connected"
    /\ cluster[id].client # None
    /\ cluster[id].access = None
    /\ checks' = checks \union {[id |-> id, config |-> cluster[id].client,
                                 generation |-> cluster[id].generation]}
    /\ UNCHANGED <<config, cluster, active, interactive, reloads, removals>>

(* Mutant: an answer is recorded for whatever connection there is now. *)
RecordAccessAlways(k) ==
    /\ checks' = checks \ {k}
    /\ cluster' = [cluster EXCEPT ![k.id].access = k.config]
    /\ UNCHANGED <<config, active, interactive, reloads, removals>>

(* `record_access` keeps the answer if the generation is still current. *)
RecordAccess(k) ==
    /\ checks' = checks \ {k}
    /\ cluster' = IF Current(k.id, k.generation)
                  THEN [cluster EXCEPT ![k.id].access = k.config]
                  ELSE cluster
    /\ UNCHANGED <<config, active, interactive, reloads, removals>>

(* The check failed: nothing is cached. *)
AccessFails(k) ==
    /\ checks' = checks \ {k}
    /\ UNCHANGED <<config, cluster, active, interactive, reloads, removals>>

-----------------------------------------------------------------------------
Init ==
    /\ config = [id \in Ids |-> None]
    /\ cluster = [id \in Ids |-> DefaultCluster]
    /\ active = None
    /\ interactive = {}
    /\ checks = {}
    /\ reloads = 0
    /\ removals = 0

User(id) == \/ Connect(id) \/ EnsureConnected(id) \/ ConnectInteractive(id)
            \/ Activate(id) \/ Disconnect(id) \/ AskAccess(id)

Callback(id) == \/ FinishConnect(id) \/ FailConnect(id) \/ RetryFires(id)
                \/ HealthRebuilds(id) \/ HealthPings(id)
                \/ PingSucceeds(id) \/ PingFails(id)

Next ==
    \/ \E new \in [Ids -> Configs \union {Broken, None}] : ApplyEntries(new)
    \/ \E id \in Ids : User(id) \/ Callback(id)
    \/ \E k \in checks : RecordAccess(k) \/ AccessFails(k)

Spec == Init /\ [][Next]_vars

(* The host runs every spawned future and every timer, and applies each     *)
(* result once: connects and pings end (the client has timeouts), timers    *)
(* fire.  Nothing is assumed of the user, of reloads or of the outcomes.    *)
Fairness == \A id \in Ids :
    /\ WF_vars(FinishConnect(id) \/ FailConnect(id))
    /\ WF_vars(RetryFires(id))
    /\ WF_vars(HealthRebuilds(id) \/ HealthPings(id))
    /\ WF_vars(PingSucceeds(id) \/ PingFails(id))

FairSpec == Spec /\ Fairness

-----------------------------------------------------------------------------
(* Every variable keeps to its type. *)
TypeOK ==
    /\ config \in [Ids -> Configs \union {Broken, None}]
    /\ cluster \in [Ids -> Cluster]
    /\ active \in Ids \union {None}
    /\ interactive \in SUBSET Ids
    /\ checks \in SUBSET Check
    /\ reloads \in 0..MaxReloads
    /\ removals \in 0..MaxRemovals

(* No attempt survives its generation: whatever a connection still runs was *)
(* started by its current attempt, and its connect attempt uses what the    *)
(* kubeconfig says now ("results of older attempts are ignored").           *)
TasksAreCurrent == \A id \in Ids :
    LET c == cluster[id] IN
    /\ \A t \in c.tasks : /\ t.generation = c.generation
                          /\ t.kind = "connect" => t.config = config[id]
    /\ c.health # None => c.health.generation = c.generation

(* A client never outlives the kubeconfig it was built from: the client of  *)
(* an entry, and of its watches and pings, is one for the entry as loaded   *)
(* now (`apply_entries` reconnects what changed, in any state but           *)
(* Disconnected).                                                           *)
ClientMatchesKubeconfig == \A id \in Ids :
    LET c == cluster[id] IN
    /\ c.client # None => c.client = config[id]
    /\ \A t \in c.tasks : t.kind = "watches" => t.config = c.client
    /\ c.health # None /\ c.health.kind = "ping" => c.health.config = c.client

(* No connection is left on its own: one that shows Connecting has an       *)
(* attempt under way, one that shows Connected has a client, its watches    *)
(* and a health step, and one that promises a retry has a retry timer or a  *)
(* health step that will try again.                                         *)
Supervised == \A id \in Ids :
    LET c == cluster[id] IN
    /\ c.state = "Connecting" => \E t \in c.tasks : t.kind = "connect"
    /\ c.state = "Connected" => /\ c.client # None /\ c.health # None
                                /\ \E t \in c.tasks : t.kind = "watches"
    /\ c.state = "Retrying" => \/ \E t \in c.tasks : t.kind = "retry"
                               \/ c.health # None /\ c.client # None

(* Never two supervisors: a connection has at most one of an attempt, a     *)
(* retry timer and a health loop, so no outage is retried twice at once.    *)
OneSupervisor == \A id \in Ids :
    LET c == cluster[id]
        driving == {t \in c.tasks : t.kind \in {"connect", "retry"}}
    IN  /\ \A t, u \in driving : t = u
        /\ driving # {} => c.health = None

(* The active cluster is always an entry (it is cleared when its entry      *)
(* goes away).                                                              *)
ActiveIsEntry == active # None => config[active] # None

(* A cached permission was answered by the client the connection has now    *)
(* ("Caches an answer of access::check for the connection it was asked on").*)
AccessOfThisConnection == \A id \in Ids :
    cluster[id].state = "Connected" /\ cluster[id].access # None =>
        cluster[id].access = cluster[id].client

(* The same for a kubeconfig that keeps its contexts: an answer that was    *)
(* asked by an older attempt is not cached.                                 *)
AccessUnlessRemoved == removals = 0 => AccessOfThisConnection

(* A late result never revives a connection the user closed: from           *)
(* Disconnected only a new attempt leads on.                                *)
DisconnectedStaysClosed ==
    [][\A id \in Ids : cluster[id].state = "Disconnected" =>
          \/ cluster'[id].state = "Disconnected"
          \/ cluster'[id].generation > cluster[id].generation]_vars

(* While a connection exists its generation never goes back. *)
GenerationsGrow ==
    [][\A id \in Ids : Known(id) =>
          \/ cluster'[id].generation >= cluster[id].generation
          \/ config'[id] = None]_vars

Attempting(id) ==
    \/ \E t \in cluster[id].tasks : t.kind = "connect"
    \/ cluster[id].health # None /\ cluster[id].health.kind = "ping"

(* What is shown as "retrying" is tried again, unless it stops being shown  *)
(* so (or the bound on attempts is reached).                                *)
RetryHappens == \A id \in Ids :
    cluster[id].state = "Retrying" ~>
        \/ Attempting(id)
        \/ cluster[id].state # "Retrying"
        \/ ~MayAttempt(id)
=============================================================================
