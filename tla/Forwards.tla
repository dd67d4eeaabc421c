------------------------------ MODULE Forwards ------------------------------
(***************************************************************************)
(* The port-forwards of `ForwardsCore` (kubyl_portforward_core/manager.rs), *)
(* the listener behind each of them (listener.rs) and the features that ask *)
(* for one over a channel (reach.rs), for one cluster.                      *)
(*                                                                         *)
(* The core runs on the host thread: each call and each callback is one     *)
(* action.  Listeners and features run on other threads and talk to it      *)
(* through queues: a listener's `events` and the features' `commands`.  The *)
(* host takes whole batches off a queue; what a queue holds never depends on *)
(* the core, so a batch is the same as its items taken one by one.          *)
(***************************************************************************)
EXTENDS Integers, Sequences, FiniteSets

CONSTANTS
    Requests,       \* the requests features make, each at most once
    Ports,          \* the local ports there are; 0 stands for "a free one"
    None,           \* absence: no waiting request, no forward of a request
    MaxForwards,    \* bound: forwards started
    MaxClients,     \* bound: how often the cluster connects
    MaxEvents,      \* bound: events in a listener's queue
    MaxOpen,        \* bound: local connections open at a time
    MaxLateDrops    \* bound: requests dropped with their answer unread

ASSUME PortsAssumption == Ports \subseteq Nat \ {0} /\ Ports # {}
ASSUME RequestsAssumption == None \notin Requests
ASSUME BoundsAssumption ==
    /\ MaxForwards \in Nat /\ MaxClients \in Nat /\ MaxEvents \in Nat
    /\ MaxOpen \in Nat /\ MaxLateDrops \in Nat

Ids == 0..(MaxForwards - 1)

VARIABLES
    forwards,   \* `forwards`, "Gone" where there is none
    waiting,    \* `waiting`: the request that waits for a forward to listen
    watchers,   \* `watchers`: forwards whose end a feature is told of
    nextId,     \* `next_id`
    commands,   \* what `ChannelReach` and dropped `Reached`s sent
    requests,   \* the features' side: where each request stands
    client,     \* the cluster's client, 0 while it is not connected
    clients,    \* clients built so far
    lateDrops   \* requests dropped with their answer unread, so far

vars == <<forwards, waiting, watchers, nextId, commands, requests, client,
          clients, lateDrops>>

coreVars == <<forwards, waiting, watchers, requests>>
clusterVars == <<client, clients>>

-----------------------------------------------------------------------------
(* A forward, opened for the user or for a feature.  `open` is the truth of *)
(* its listener: connections being copied; `connections` is what the core   *)
(* counted.  `probe` is a resolution under way or the timer before the next *)
(* one.                                                                     *)
States == {"Gone", "Starting", "Listening", "Reconnecting", "Failed"}

Event == [kind : {"Listening"}, port : Ports]
           \union [kind : {"Opened", "Closed", "Error"}]

Forward == [state : States, feature : BOOLEAN, client : 0..MaxClients,
            asked : Ports \union {0}, port : Ports \union {0}, connections : Nat,
            probe : {"none", "check", "timer"},
            listener : {"binding", "bound", "ended"},
            bound : Ports \union {0}, open : Nat, events : Seq(Event)]

Gone == [state |-> "Gone", feature |-> FALSE, client |-> 0, asked |-> 0, port |-> 0,
         connections |-> 0, probe |-> "none", listener |-> "ended",
         bound |-> 0, open |-> 0, events |-> <<>>]

Exists(id) == forwards[id].state # "Gone"

(* A request: "looking" up a named port, "sent" to the core, "answered" with *)
(* an `Opened` nobody read yet, "holding" the `Reached`, "failed", "dropped". *)
Phases == {"idle", "looking", "sent", "answered", "holding", "failed",
           "dropped"}

Request == [phase : Phases, client : 0..MaxClients,
            forward : Ids \union {None}, port : Ports \union {0}]

(* `Waiting`: the timeout's timer lives as long as the record; the grace    *)
(* period starts when the forward is first seen reconnecting.               *)
Wait == [request : Requests, grace : {"none", "unused", "running"}]

Command == [kind : {"Open"}, request : Requests, grace : BOOLEAN]
             \union [kind : {"Stop"}, id : Ids]

ASSUME NoneAssumption == None \notin Wait \union Ids

-----------------------------------------------------------------------------
(* `start`: what a new forward looks like; its first check is under way. *)
Started(feature, cl, asked) ==
    [Gone EXCEPT !.state = "Starting", !.feature = feature, !.client = cl,
                 !.asked = asked, !.port = asked, !.probe = "check", !.listener = "binding"]

(* `finish_check`: the target resolves. *)
Checked(f) ==
    [f EXCEPT !.state = IF f.state = "Reconnecting" THEN "Listening" ELSE @,
              !.probe = "none"]

(* `finish_check`: it does not. *)
Unchecked(f) ==
    IF f.state = "Failed"
    THEN [f EXCEPT !.probe = "none"]
    ELSE [f EXCEPT !.state = "Reconnecting", !.probe = "timer"]

(* Mutant: an error is not followed by a probe. *)
ErroredWithoutProbe(f) ==
    IF f.state = "Failed" THEN f ELSE [f EXCEPT !.state = "Reconnecting"]

(* Mutant: an error also takes a connection off the count. *)
ErroredUncounts(f) ==
    IF f.state = "Failed" THEN f
    ELSE [f EXCEPT !.state = "Reconnecting",
                   !.connections = IF @ > 0 THEN @ - 1 ELSE 0,
                   !.probe = IF @ = "none" THEN "check" ELSE @]

(* A connection failed: the target is probed unless it already is. *)
Errored(f) ==
    IF f.state = "Failed" THEN f
    ELSE [f EXCEPT !.state = "Reconnecting",
                   !.probe = IF @ = "none" THEN "check" ELSE @]

(* `apply_event`; byte counts are left out. *)
Applied(f, e) ==
    CASE e.kind = "Listening" ->
           [f EXCEPT !.port = e.port,
                     !.state = IF f.state = "Starting" THEN "Listening" ELSE @]
      [] e.kind = "Opened" ->
           [f EXCEPT !.connections = @ + 1,
                     !.state = IF f.state = "Reconnecting" THEN "Listening"
                               ELSE @,
                     !.probe = IF f.state = "Reconnecting" THEN "none" ELSE @]
      [] e.kind = "Closed" ->
           [f EXCEPT !.connections = IF @ > 0 THEN @ - 1 ELSE 0]
      [] e.kind = "Error" -> Errored(f)

-----------------------------------------------------------------------------
(* The oneshot of request r still has a receiver. *)
Awaits(r) == requests[r].phase = "sent"

(* The requests after `reply.send(Err(_))` to r. *)
Refused(r) == IF Awaits(r) THEN [requests EXCEPT ![r].phase = "failed"]
              ELSE requests

(* `remove` of the forwards S (with `release`, the host also drops rows):   *)
(* their listeners, timers and watchers go, and who waits for them is told. *)
Remove(S) ==
    /\ forwards' = [id \in Ids |-> IF id \in S THEN Gone ELSE forwards[id]]
    /\ watchers' = watchers \ S
    /\ waiting' = [id \in Ids |-> IF id \in S THEN None ELSE waiting[id]]
    /\ requests' = [r \in Requests |->
                      IF \E id \in S : waiting[id] # None
                                         /\ waiting[id].request = r
                      THEN Refused(r)[r]
                      ELSE requests[r]]

(* Mutant: an answer nobody takes leaves the forward running. *)
ListensAnyway(id, f) ==
    LET r == waiting[id].request IN
    /\ waiting' = [waiting EXCEPT ![id] = None]
    /\ forwards' = [forwards EXCEPT ![id] = f]
    /\ IF Awaits(r)
       THEN /\ watchers' = watchers \union {id}
            /\ requests' = [requests EXCEPT ![r].phase = "answered",
                                            ![r].forward = id,
                                            ![r].port = f.port]
       ELSE UNCHANGED <<watchers, requests>>

(* Mutant: the feature is answered but not told when the forward ends. *)
ListensUnwatched(id, f) ==
    LET r == waiting[id].request IN
    IF Awaits(r)
    THEN /\ waiting' = [waiting EXCEPT ![id] = None]
         /\ forwards' = [forwards EXCEPT ![id] = f]
         /\ requests' = [requests EXCEPT ![r].phase = "answered",
                                         ![r].forward = id,
                                         ![r].port = f.port]
         /\ UNCHANGED watchers
    ELSE Remove({id})

(* `settle` of a forward that listens: its request is answered, or the      *)
(* forward is released because nobody waits any more.                       *)
ListensFor(id, f) ==
    LET r == waiting[id].request IN
    IF Awaits(r)
    THEN /\ waiting' = [waiting EXCEPT ![id] = None]
         /\ forwards' = [forwards EXCEPT ![id] = f]
         /\ watchers' = watchers \union {id}
         /\ requests' = [requests EXCEPT ![r].phase = "answered",
                                         ![r].forward = id,
                                         ![r].port = f.port]
    ELSE Remove({id})

(* The port is there to be used. *)
Listens(f) == f.state = "Listening" /\ f.port # 0

Hopeless(f) == f.state = "Failed"

(* Forward id becomes f, then `settle`: a request waiting for it is answered *)
(* once it listens, given up when the bind failed (`give_up`), and its grace *)
(* period starts when it reconnects.                                        *)
Settle(id, f) ==
    IF waiting[id] = None
    THEN /\ forwards' = [forwards EXCEPT ![id] = f]
         /\ UNCHANGED <<waiting, watchers, requests>>
    ELSE CASE Listens(f) -> ListensFor(id, f)
           [] Hopeless(f) -> Remove({id})
           [] OTHER ->
                /\ forwards' = [forwards EXCEPT ![id] = f]
                /\ waiting' = IF /\ f.state = "Reconnecting"
                                 /\ waiting[id].grace = "unused"
                              THEN [waiting EXCEPT ![id].grace = "running"]
                              ELSE waiting
                /\ UNCHANGED <<watchers, requests>>

-----------------------------------------------------------------------------
(* `start` for the user (or a saved forward), with the cluster's client. *)
Start(asked) ==
    /\ client # 0
    /\ nextId \in Ids
    /\ forwards' = [forwards EXCEPT ![nextId] = Started(FALSE, client, asked)]
    /\ nextId' = nextId + 1
    /\ UNCHANGED <<waiting, watchers, requests, commands, lateDrops>>
    /\ UNCHANGED clusterVars

(* The user stops a forward (`stop`, `stopped_by_user`). *)
Stop(id) ==
    /\ Exists(id)
    /\ Remove({id})
    /\ UNCHANGED <<nextId, commands, lateDrops>> /\ UNCHANGED clusterVars

(* `handle(Open)`: a loopback forward on a free port with the client the    *)
(* feature sent, and the request waits for it.                              *)
HandleOpen ==
    /\ commands # <<>>
    /\ Head(commands).kind = "Open"
    /\ nextId \in Ids
    /\ LET c == Head(commands) IN
         /\ forwards' = [forwards EXCEPT ![nextId] =
                            Started(TRUE, requests[c.request].client, 0)]
         /\ waiting' = [waiting EXCEPT ![nextId] =
                            [request |-> c.request,
                             grace |-> IF c.grace THEN "unused" ELSE "none"]]
    /\ nextId' = nextId + 1
    /\ commands' = Tail(commands)
    /\ UNCHANGED <<watchers, requests, lateDrops>> /\ UNCHANGED clusterVars

(* `handle(Stop)`: the feature dropped what it got. *)
HandleStop ==
    /\ commands # <<>>
    /\ Head(commands).kind = "Stop"
    /\ Remove({Head(commands).id})
    /\ commands' = Tail(commands)
    /\ UNCHANGED <<nextId, lateDrops>> /\ UNCHANGED clusterVars

(* Mutant: the timeout only counts for a forward that never started. *)
ExpireStarting(id) ==
    /\ waiting[id] # None
    /\ forwards[id].state = "Starting"
    /\ Remove({id})
    /\ UNCHANGED <<nextId, commands, lateDrops>> /\ UNCHANGED clusterVars

(* The request's timeout, whatever the forward does. *)
Expire(id) ==
    /\ waiting[id] # None
    /\ Remove({id})
    /\ UNCHANGED <<nextId, commands, lateDrops>> /\ UNCHANGED clusterVars

(* The grace period ends: give up if the forward is reconnecting now. *)
GraceEnds(id) ==
    /\ waiting[id] # None
    /\ waiting[id].grace = "running"
    /\ IF forwards[id].state = "Reconnecting"
       THEN Remove({id})
       ELSE /\ waiting' = [waiting EXCEPT ![id].grace = "none"]
            /\ UNCHANGED <<forwards, watchers, requests>>
    /\ UNCHANGED <<nextId, commands, lateDrops>> /\ UNCHANGED clusterVars

(* `finish_check`, one action for each result. *)
CheckSucceeds(id) ==
    /\ forwards[id].probe = "check"
    /\ Settle(id, Checked(forwards[id]))
    /\ UNCHANGED <<nextId, commands, lateDrops>> /\ UNCHANGED clusterVars

CheckFails(id) ==
    /\ forwards[id].probe = "check"
    /\ IF forwards[id].state = "Failed"
       THEN /\ forwards' = [forwards EXCEPT ![id] = Unchecked(@)]
            /\ UNCHANGED <<waiting, watchers, requests>>
       ELSE Settle(id, Unchecked(forwards[id]))
    /\ UNCHANGED <<nextId, commands, lateDrops>> /\ UNCHANGED clusterVars

(* The probe's timer: `check_target` again. *)
ProbeFires(id) ==
    /\ forwards[id].probe = "timer"
    /\ forwards' = [forwards EXCEPT ![id].probe = "check"]
    /\ UNCHANGED <<waiting, watchers, requests, nextId, commands, lateDrops>>
    /\ UNCHANGED clusterVars

(* The host takes an event of the listener of id. *)
ApplyEvent(id) ==
    LET f == forwards[id] IN
    /\ f.events # <<>>
    /\ Settle(id, Applied([f EXCEPT !.events = Tail(@)], Head(f.events)))
    /\ UNCHANGED <<nextId, commands, lateDrops>> /\ UNCHANGED clusterVars

-----------------------------------------------------------------------------
(* The listener of a forward, on its own thread: it only changes its own    *)
(* part of the record and its queue.                                        *)
Listener(id, f) ==
    /\ forwards' = [forwards EXCEPT ![id] = f]
    /\ UNCHANGED <<waiting, watchers, requests, nextId, commands, lateDrops>>
    /\ UNCHANGED clusterVars

Room(f, n) == Len(f.events) + n <= MaxEvents

Posts(f, kinds) == f.events \o [i \in DOMAIN kinds |-> [kind |-> kinds[i]]]

(* `bind`: the port asked for, or any when none was (or, with               *)
(* `fallback_any`, when it is taken).                                       *)
BindSucceeds(id, port, fallback_any) ==
    LET f == forwards[id] IN
    /\ f.listener = "binding"
    /\ f.asked # 0 /\ ~fallback_any => port = f.asked
    /\ Room(f, 1)
    /\ Listener(id, [f EXCEPT !.listener = "bound", !.bound = port,
                              !.events = Append(@, [kind |-> "Listening",
                                                    port |-> port])])

(* The listener returns the error; its callback is `set_state(Failed)`. *)
BindFails(id) ==
    /\ forwards[id].listener = "binding"
    /\ Settle(id, [forwards[id] EXCEPT !.listener = "ended",
                                       !.state = "Failed"])
    /\ UNCHANGED <<nextId, commands, lateDrops>> /\ UNCHANGED clusterVars

(* `handle_connection`: a local connection reached a pod. *)
ConnectionOpens(id) ==
    LET f == forwards[id] IN
    /\ f.listener = "bound" /\ f.open < MaxOpen /\ Room(f, 1)
    /\ Listener(id, [f EXCEPT !.open = @ + 1,
                              !.events = Posts(f, <<"Opened">>)])

(* The copy ended, with an error or without. *)
ConnectionCloses(id) ==
    LET f == forwards[id] IN
    /\ f.listener = "bound" /\ f.open > 0
    /\ \E kinds \in {<<"Closed">>, <<"Closed", "Error">>} :
         /\ Room(f, Len(kinds))
         /\ Listener(id, [f EXCEPT !.open = @ - 1,
                                   !.events = Posts(f, kinds)])

(* `accept` failed, or a connection found no pod to reach. *)
ConnectionFails(id) ==
    LET f == forwards[id] IN
    /\ f.listener = "bound" /\ Room(f, 1)
    /\ Listener(id, [f EXCEPT !.events = Posts(f, <<"Error">>)])

-----------------------------------------------------------------------------
(* `ChannelReach::reach` of a request with a port's number is sent at once, *)
(* one with a port's name looks it up first.                                *)
Feature(r, q) ==
    /\ requests' = [requests EXCEPT ![r] = q]
    /\ UNCHANGED <<forwards, waiting, watchers, nextId>>
    /\ UNCHANGED clusterVars

Send(r, q, grace) ==
    /\ Feature(r, [q EXCEPT !.phase = "sent"])
    /\ commands' = Append(commands, [kind |-> "Open", request |-> r,
                                     grace |-> grace])
    /\ UNCHANGED lateDrops

Ask(r, named, grace) ==
    /\ requests[r].phase = "idle"
    /\ client # 0
    /\ LET q == [requests[r] EXCEPT !.client = client] IN
       IF named
       THEN /\ Feature(r, [q EXCEPT !.phase = "looking"])
            /\ UNCHANGED <<commands, lateDrops>>
       ELSE Send(r, q, grace)

LookupFinds(r, grace) ==
    /\ requests[r].phase = "looking"
    /\ Send(r, requests[r], grace)

LookupFails(r) ==
    /\ requests[r].phase = "looking"
    /\ Feature(r, [requests[r] EXCEPT !.phase = "failed"])
    /\ UNCHANGED <<commands, lateDrops>>

(* The feature's task goes on: it has a `Reached` and its guard. *)
Receive(r) ==
    /\ requests[r].phase = "answered"
    /\ Feature(r, [requests[r] EXCEPT !.phase = "holding"])
    /\ UNCHANGED <<commands, lateDrops>>

(* The feature drops the future of `reach`: only the oneshot's receiver     *)
(* goes.                                                                    *)
DropFuture(r) ==
    /\ requests[r].phase \in {"looking", "sent", "answered"}
    /\ requests[r].phase = "answered" => lateDrops < MaxLateDrops
    /\ lateDrops' = IF requests[r].phase = "answered" THEN lateDrops + 1
                    ELSE lateDrops
    /\ Feature(r, [requests[r] EXCEPT !.phase = "dropped"])
    /\ UNCHANGED commands

(* The feature drops the `Reached`: its guard sends `Stop`. *)
DropReached(r) ==
    /\ requests[r].phase = "holding"
    /\ Feature(r, [requests[r] EXCEPT !.phase = "dropped"])
    /\ commands' = Append(commands, [kind |-> "Stop",
                                     id |-> requests[r].forward])
    /\ UNCHANGED lateDrops

-----------------------------------------------------------------------------
(* The cluster's client goes away (it disconnects or reconnects), or its    *)
(* state changes again while it has none: the host stops its forwards       *)
(* (`disconnected`, `stop_disconnected`).                                   *)
ClusterLost ==
    /\ client' = 0
    /\ Remove({id \in Ids : Exists(id)})
    /\ UNCHANGED <<nextId, commands, clients, lateDrops>>

ClusterConnects ==
    /\ client = 0
    /\ clients < MaxClients
    /\ clients' = clients + 1
    /\ client' = clients + 1
    /\ UNCHANGED <<forwards, waiting, watchers, requests, nextId, commands,
                   lateDrops>>

-----------------------------------------------------------------------------
Init ==
    /\ forwards = [id \in Ids |-> Gone]
    /\ waiting = [id \in Ids |-> None]
    /\ watchers = {}
    /\ nextId = 0
    /\ commands = <<>>
    /\ requests = [r \in Requests |-> [phase |-> "idle", client |-> 0,
                                       forward |-> None, port |-> 0]]
    /\ client = 0
    /\ clients = 0
    /\ lateDrops = 0

Core(id) == \/ Stop(id) \/ Expire(id) \/ GraceEnds(id)
            \/ CheckSucceeds(id) \/ CheckFails(id) \/ ProbeFires(id)
            \/ ApplyEvent(id)

Network(id) == \/ \E port \in Ports, fallback_any \in BOOLEAN :
                    BindSucceeds(id, port, fallback_any)
               \/ BindFails(id) \/ ConnectionOpens(id)
               \/ ConnectionCloses(id) \/ ConnectionFails(id)

Features(r) == \/ \E named, grace \in BOOLEAN : Ask(r, named, grace)
               \/ \E grace \in BOOLEAN : LookupFinds(r, grace)
               \/ LookupFails(r) \/ Receive(r)
               \/ DropFuture(r) \/ DropReached(r)

Next ==
    \/ \E asked \in Ports \union {0} : Start(asked)
    \/ HandleOpen \/ HandleStop
    \/ \E id \in Ids : Core(id) \/ Network(id)
    \/ \E r \in Requests : Features(r)
    \/ ClusterLost \/ ClusterConnects

Spec == Init /\ [][Next]_vars

(* The host serves its queues and timers, resolutions end, and a feature's  *)
(* task that was answered runs on.  Nothing is assumed of the user, of the  *)
(* cluster, of local connections or of how long a feature keeps a forward.  *)
Fairness ==
    /\ WF_vars(HandleOpen) /\ WF_vars(HandleStop)
    /\ \A id \in Ids : /\ WF_vars(Expire(id))
                       /\ WF_vars(CheckSucceeds(id) \/ CheckFails(id))
                       /\ WF_vars(ProbeFires(id))
    /\ \A r \in Requests : /\ WF_vars(Receive(r))
                           /\ WF_vars((\E grace \in BOOLEAN : LookupFinds(r, grace))
                                        \/ LookupFails(r))

FairSpec == Spec /\ Fairness

-----------------------------------------------------------------------------
(* Every variable keeps to its type. *)
TypeOK ==
    /\ forwards \in [Ids -> Forward]
    /\ waiting \in [Ids -> Wait \union {None}]
    /\ watchers \in SUBSET Ids
    /\ nextId \in 0..MaxForwards
    /\ commands \in Seq(Command)
    /\ requests \in [Requests -> Request]
    /\ client \in 0..MaxClients /\ clients \in 0..MaxClients
    /\ lateDrops \in 0..MaxLateDrops

(* A forward that shows "reconnecting" is being probed: whatever order      *)
(* events, checks and connections arrive in, a resolution or its timer is   *)
(* under way, so it can come back without a new connection.                 *)
ReconnectingIsProbed == \A id \in Ids :
    forwards[id].state = "Reconnecting" => forwards[id].probe # "none"

(* What the row shows as open connections is what the listener has open,    *)
(* but for the events still queued: the count never saturates at zero and   *)
(* never drifts.                                                            *)
ConnectionsAreCounted == \A id \in Ids :
    LET f == forwards[id]
        queued(kind) == Cardinality({i \in DOMAIN f.events :
                                        f.events[i].kind = kind})
    IN  f.connections + queued("Opened") - queued("Closed") = f.open

(* A feature that has a forward is told when it goes (`Reached::stopped`):  *)
(* its watcher is there exactly as long as the forward is.                  *)
HeldIsWatched ==
    /\ \A id \in watchers : Exists(id)
    /\ \A r \in Requests :
         requests[r].phase \in {"answered", "holding"} =>
             (Exists(requests[r].forward) <=> requests[r].forward \in watchers)

(* Somebody still wants forward id: a request that awaits its answer, was   *)
(* answered with it, or holds it.                                           *)
Owned(id) == \E r \in Requests :
    \/ waiting[id] # None /\ waiting[id].request = r /\ Awaits(r)
    \/ /\ requests[r].forward = id
       /\ requests[r].phase \in {"answered", "holding"}

(* A forward opened for a feature never runs on without one: somebody wants *)
(* it, its request's timeout is running, or the command that stops it is on *)
(* its way ("Dropping the Reached stops the forward").  A feature that      *)
(* drops its request with the answer unread is the exception.               *)
NoOrphans == \A id \in Ids :
    Exists(id) /\ forwards[id].feature /\ lateDrops = 0 =>
        \/ Owned(id)
        \/ waiting[id] # None
        \/ \E i \in DOMAIN commands : /\ commands[i].kind = "Stop"
                                      /\ commands[i].id = id

(* Every request is answered, however the forward, the cluster and the user *)
(* behave, unless the bound on forwards keeps it in the queue.              *)
RequestsEnd == \A r \in Requests :
    requests[r].phase \in {"looking", "sent"} ~>
        \/ requests[r].phase \notin {"looking", "sent"}
        \/ nextId = MaxForwards /\ commands # <<>>
=============================================================================
