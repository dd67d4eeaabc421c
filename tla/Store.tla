------------------------------- MODULE Store --------------------------------
(***************************************************************************)
(* One watch cache: `StoreCore` (kubyl_resources_core/store.rs), its watch  *)
(* task `pump`, and what `ResourceStores` (kubyl_resources/store.rs) does   *)
(* to it when its cluster's connection changes.                             *)
(*                                                                         *)
(* The API server and kube's `watcher` stream are external.  A stream says  *)
(* `Init`, lists, and then delivers the writes after its list, in order.    *)
(* An error while listing, or an expired version, starts it over; any       *)
(* other error resumes it where it was.                                     *)
(***************************************************************************)
EXTENDS Integers, Sequences, FiniteSetsExt, Functions

CONSTANTS
    Keys,               \* names of objects
    None,               \* no discovery
    Grace,              \* `GRACE`, in sweeps
    MaxUsers,           \* bound: handles at a time
    MaxWrites,          \* bound: writes on the server
    MaxErrors,          \* bound: errors of the watch
    MaxClients,         \* bound: connections
    MaxEvents           \* bound: pauses, discoveries, failed pings, moves

ASSUME StoreAssumption ==
    /\ MaxWrites \in Nat /\ MaxErrors \in Nat /\ MaxClients \in Nat
    /\ MaxEvents \in Nat /\ Grace \in Nat /\ MaxUsers \in Nat
    /\ None \notin BOOLEAN \union Nat

VARIABLES
    log,        \* the writes of the server so far
    conn,       \* what `ConnectionManager` has for the cluster
    moved,      \* whether the cluster goes by another id now (`Rekeyed`)
    store,      \* `StoreCore` without its tasks
    watch,      \* the tasks: the stream, `pump` and its channel
    lease,      \* its `Entry` and the `StoreHandle`s of it
    events, errors,     \* so far
    position,   \* the write `store.objects` is at (history)
    quiet       \* sweeps since the last handle was dropped (history)

history == <<position, quiet>>
vars == <<log, conn, moved, store, watch, lease, events, errors, history>>

R == INSTANCE Replica WITH shown <- store.objects

-----------------------------------------------------------------------------
(* `StoreStatus`; the message of an error does not matter. *)
Status == {"Waiting", "Loading", "Ready", "Forbidden", "Unsupported", "Error",
           "Paused"}

(* `Change`: a list as of a write, one write, or a status. *)
Change == [kind : {"reset", "write"}, at : 0..MaxWrites]
            \union [kind : {"status"}, status : Status]

Reset(n) == [kind |-> "reset", at |-> n]
Wrote(n) == [kind |-> "write", at |-> n]
Says(status) == [kind |-> "status", status |-> status]

(* The stream's state, or "off" without tasks and "ended" after `pump`      *)
(* returned; `at` is the last write it delivered.  `sent` has the changes   *)
(* of the batches in the channel, which are taken all at once.              *)
Off == [stream |-> "off", at |-> 0, client |-> 0, pending |-> <<>>,
        failing |-> FALSE, sent |-> <<>>]

Running(client) == [Off EXCEPT !.stream = "empty", !.client = client]

(* `ConnectionManager::client`: only that of a connected cluster. *)
Client == IF conn.connected THEN conn.client ELSE 0

-----------------------------------------------------------------------------
(* The statuses that clear the objects (`take_status`). *)
Refused == {"Forbidden", "Unsupported"}

(* Mutant: a list adds to what is there. *)
TouchesMerging(c, k) ==
    \/ c.kind = "reset" /\ R!StateAt(c.at)[k] # 0
    \/ c.kind = "write" /\ log[c.at].key = k
    \/ c.kind = "status" /\ c.status \in Refused

(* The changes that say what becomes of an object: a list says it of all,   *)
(* and so does a status that clears.                                        *)
Touches(c, k) ==
    \/ c.kind = "reset"
    \/ c.kind = "write" /\ log[c.at].key = k
    \/ c.kind = "status" /\ c.status \in Refused

(* What such a change leaves of it. *)
Leaves(c, k) ==
    CASE c.kind = "reset" -> R!StateAt(c.at)[k]
      [] c.kind = "write" -> IF log[c.at].gone THEN 0 ELSE c.at
      [] c.kind = "status" -> 0

(* The objects after the first n of some changes: each is as the last       *)
(* change left it that touched it.                                          *)
ObjectsAfter(objects, changes, n) == [k \in Keys |->
    LET touching == {i \in 1..n : Touches(changes[i], k)}
    IN  IF touching = {} THEN objects[k] ELSE Leaves(changes[Max(touching)], k)]

(* The status after some changes: that of the last one that has one. *)
StatusAfter(status, changes) ==
    LET telling == {i \in DOMAIN changes : changes[i].kind # "write"}
        c == changes[Max(telling)]
    IN  IF telling = {} THEN status
        ELSE IF c.kind = "reset" THEN "Ready" ELSE c.status

(* Mutant: a store that was refused stays marked as running. *)
AppliedRunning(s, changes) ==
    [s EXCEPT !.objects = ObjectsAfter(s.objects, changes, Len(changes)),
              !.status = StatusAfter(s.status, changes)]

(* `apply`, batch after batch. *)
Applied(s, changes) ==
    [s EXCEPT !.objects = ObjectsAfter(s.objects, changes, Len(changes)),
              !.status = StatusAfter(s.status, changes),
              !.running = @ /\ \A c \in Range(changes) :
                                  c.kind = "status" => c.status \notin Refused]

(* `stop`: the tasks are dropped, and with them the batches on their way. *)
Stops(s, status) ==
    /\ store' = [s EXCEPT !.running = FALSE, !.status = status]
    /\ watch' = Off

Keeps(s) == store' = s /\ UNCHANGED watch

(* Mutant: a running store does not ask for the client. *)
EnsureRunningOnce(s) ==
    CASE s.paused \/ s.running -> Keeps(s)
      [] ~s.paused /\ ~s.running ->
            IF Client' = 0 \/ conn'.discovery = None THEN Keeps(s)
            ELSE IF ~conn'.discovery THEN Stops(s, "Unsupported")
            ELSE /\ store' = [s EXCEPT !.running = TRUE, !.status = "Loading"]
                 /\ watch' = Running(Client')

(* `ensure_running` with the connection as it is next; s is the store so    *)
(* far.                                                                     *)
EnsureRunning(s) ==
    CASE s.paused -> Keeps(s)
      [] ~s.paused /\ Client' = 0 ->
            IF s.running THEN Stops(s, "Waiting") ELSE Keeps(s)
      [] ~s.paused /\ Client' # 0 ->
            IF s.running \/ conn'.discovery = None THEN Keeps(s)
            ELSE IF ~conn'.discovery THEN Stops(s, "Unsupported")
            ELSE /\ store' = [s EXCEPT !.running = TRUE, !.status = "Loading"]
                 /\ watch' = Running(Client')

-----------------------------------------------------------------------------
(* The server takes a write. *)
ServerWrites(w) ==
    /\ Len(log) < MaxWrites
    /\ w.gone => R!StateAt(Len(log))[w.key] # 0
    /\ log' = Append(log, w)
    /\ UNCHANGED <<conn, moved, store, watch, lease, events, errors>>
    /\ UNCHANGED history

-----------------------------------------------------------------------------
(* The stream and `pump` move on; the core does not see it yet. *)
Pumps(w) ==
    /\ watch' = w
    /\ UNCHANGED <<log, conn, moved, store, lease, events>> /\ UNCHANGED history

(* What an event does first: after an error the watch works again. *)
Recovered == IF watch.failing THEN Append(watch.pending, Says("Ready"))
             ELSE watch.pending

(* `Event::Init` *)
WatchInit ==
    /\ watch.stream = "empty"
    /\ Pumps([watch EXCEPT !.stream = "listing", !.pending = Recovered,
                           !.failing = FALSE])
    /\ UNCHANGED errors

(* `Event::InitApply` for each object, then `Event::InitDone`, which drops  *)
(* what is pending.                                                         *)
WatchLists ==
    /\ watch.stream = "listing"
    /\ Pumps([watch EXCEPT !.stream = "watching", !.at = Len(log),
                           !.pending = <<Reset(Len(log))>>, !.failing = FALSE])
    /\ UNCHANGED errors

(* `Event::Apply` and `Event::Delete` *)
WatchDelivers ==
    /\ watch.stream = "watching"
    /\ watch.at < Len(log)
    /\ Pumps([watch EXCEPT !.at = @ + 1, !.failing = FALSE,
                           !.pending = Append(Recovered, Wrote(watch.at + 1))])
    /\ UNCHANGED errors

(* An error that is neither 403 nor 404; only the first in a row is told.   *)
(* A list that failed and a version that expired start the stream over.     *)
WatchFails(over) ==
    /\ watch.stream \in {"listing", "watching"}
    /\ watch.stream = "listing" => over
    /\ errors < MaxErrors
    /\ errors' = errors + 1
    /\ Pumps([watch EXCEPT
                !.stream = IF over THEN "empty" ELSE "watching",
                !.pending = IF watch.failing THEN @ ELSE Append(@, Says("Error")),
                !.failing = TRUE])

(* 403 or 404: the batch is sent at once and `pump` returns. *)
WatchRefused(status) ==
    /\ watch.stream \in {"listing", "watching"}
    /\ errors < MaxErrors
    /\ errors' = errors + 1
    /\ Pumps([watch EXCEPT
                !.stream = "ended", !.pending = <<>>,
                !.sent = Append(@ \o watch.pending, Says(status))])

(* `FRAME` is over: what is pending is sent as one batch. *)
FrameEnds ==
    /\ watch.pending # <<>>
    /\ Pumps([watch EXCEPT !.pending = <<>>, !.sent = @ \o watch.pending])
    /\ UNCHANGED errors

-----------------------------------------------------------------------------
(* The write the objects are at after the first n of some changes. *)
PositionAfter(from, changes, n) ==
    LET placing == {i \in 1..n : changes[i].kind # "status"}
    IN  IF placing = {} THEN from ELSE changes[Max(placing)].at

(* The host's callback: it applies all batches that are there. *)
TakeBatches ==
    /\ watch.sent # <<>>
    /\ store' = Applied(store, watch.sent)
    /\ watch' = [watch EXCEPT !.sent = <<>>]
    /\ position' = PositionAfter(position, watch.sent, Len(watch.sent))
    /\ UNCHANGED <<log, conn, moved, lease, events, errors, quiet>>

-----------------------------------------------------------------------------
(* `connection_changed` for the next connection, if the store is one of the *)
(* cluster's by its id.  `retry_unsupported` first, after a discovery.      *)
ConnectionChanged(rediscovered) ==
    /\ IF moved \/ ~lease.open THEN Keeps(store)
       ELSE EnsureRunning(IF rediscovered /\ store.status = "Unsupported"
                          THEN [store EXCEPT !.running = FALSE] ELSE store)
    /\ UNCHANGED <<log, moved, lease, errors, position, quiet>>

Counts == events < MaxEvents /\ events' = events + 1

(* Another attempt, or a disconnect, drops client and discovery. *)
Attempts ==
    /\ conn.client # 0
    /\ conn' = [conn EXCEPT !.client = 0, !.connected = FALSE, !.discovery = None]
    /\ ConnectionChanged(FALSE)
    /\ UNCHANGED events

Connects ==
    /\ conn.client = 0
    /\ conn.clients < MaxClients
    /\ conn' = [client |-> conn.clients + 1, clients |-> conn.clients + 1,
                connected |-> TRUE, discovery |-> None]
    /\ ConnectionChanged(FALSE)
    /\ UNCHANGED events

PingFails ==
    /\ conn.connected
    /\ Counts
    /\ conn' = [conn EXCEPT !.connected = FALSE]
    /\ ConnectionChanged(FALSE)

(* Every ping that works is a `StateChanged`, a recovery or not. *)
PingWorks ==
    /\ conn.client # 0
    /\ conn' = [conn EXCEPT !.connected = TRUE]
    /\ ConnectionChanged(FALSE)
    /\ UNCHANGED events

(* A discovery ends; `served`: it has the resource. *)
Discovers(served) ==
    /\ conn.client # 0
    /\ IF conn.discovery = None THEN UNCHANGED events ELSE Counts
    /\ conn' = [conn EXCEPT !.discovery = served]
    /\ ConnectionChanged(TRUE)

(* The entry gets another id.  `ResourceStores` does not listen to          *)
(* `Rekeyed`, and what follows carries the new id.                          *)
Moves ==
    /\ ~moved
    /\ Counts
    /\ moved' = TRUE
    /\ UNCHANGED <<log, conn, store, watch, lease, errors>> /\ UNCHANGED history

-----------------------------------------------------------------------------
(* `pause` keeps the objects; `resume` asks for a new watch. *)
Pause ==
    /\ lease.open
    /\ Counts
    /\ Stops([store EXCEPT !.paused = TRUE], "Paused")
    /\ UNCHANGED <<log, conn, moved, lease, errors, position, quiet>>

Resume ==
    /\ store.paused
    /\ UNCHANGED conn
    /\ EnsureRunning([store EXCEPT !.paused = FALSE, !.status = "Waiting"])
    /\ UNCHANGED <<log, moved, lease, events, errors, position, quiet>>

-----------------------------------------------------------------------------
(* `StoreCore::new` *)
New == [objects |-> R!Nothing, status |-> "Waiting", running |-> FALSE,
        paused |-> FALSE]

(* Mutant: a store that is taken again keeps its idle time. *)
AcquireIdle ==
    /\ lease.users < MaxUsers
    /\ UNCHANGED conn
    /\ lease.open
    /\ lease' = [lease EXCEPT !.users = @ + 1]
    /\ Keeps(store)
    /\ quiet' = 0
    /\ UNCHANGED <<log, moved, errors, events, position>>

(* `acquire`: a handle of the store there is, or of a new one.  (That the   *)
(* cluster is asked to connect is left to `Connects`.)                      *)
Acquire ==
    /\ lease.users < MaxUsers
    /\ UNCHANGED conn
    /\ IF lease.open
       THEN /\ lease' = [lease EXCEPT !.users = @ + 1, !.idle = None]
            /\ Keeps(store)
            /\ UNCHANGED events
       ELSE /\ lease' = [open |-> TRUE, users |-> 1, idle |-> None,
                         sweeping |-> TRUE]
            /\ EnsureRunning(New)
            /\ Counts
    /\ quiet' = 0
    /\ UNCHANGED <<log, moved, errors, position>>

(* A view drops its handle. *)
Release ==
    /\ lease.users > 0
    /\ lease' = [lease EXCEPT !.users = @ - 1]
    /\ quiet' = 0
    /\ UNCHANGED <<log, conn, moved, store, watch, events, errors, position>>

Drops ==
    /\ lease' = [lease EXCEPT !.open = FALSE, !.idle = None, !.sweeping = FALSE]
    /\ store' = New
    /\ watch' = Off

(* `sweep`, every `SWEEP_INTERVAL`; idle times count in intervals. *)
Sweep ==
    /\ lease.sweeping
    /\ LET idle == IF lease.idle = None THEN 0 ELSE lease.idle + 1
       IN  \* dropping the entity drops its tasks
           IF lease.users > 0
           THEN lease' = [lease EXCEPT !.idle = None] /\ Keeps(store)
           ELSE IF idle >= Grace THEN Drops
           ELSE lease' = [lease EXCEPT !.idle = idle] /\ Keeps(store)
    /\ quiet' = IF lease.users > 0 \/ ~lease'.open THEN 0
                ELSE Min({quiet + 1, Grace + 1})
    /\ UNCHANGED <<log, conn, moved, events, errors, position>>

-----------------------------------------------------------------------------
(* A view has just acquired the store of a cluster that is not connected. *)
Init ==
    /\ log = <<>>
    /\ conn = [client |-> 0, clients |-> 0, connected |-> FALSE, discovery |-> None]
    /\ moved = FALSE
    /\ store = New
    /\ watch = Off
    /\ lease = [open |-> TRUE, users |-> 1, idle |-> None, sweeping |-> TRUE]
    /\ events = 0 /\ errors = 0
    /\ position = 0 /\ quiet = 0

Stream == WatchInit \/ WatchLists \/ WatchDelivers \/ FrameEnds

Next ==
    \/ \E w \in R!Write : ServerWrites(w)
    \/ Stream
    \/ \E over \in BOOLEAN : WatchFails(over)
    \/ \E status \in {"Forbidden", "Unsupported"} : WatchRefused(status)
    \/ TakeBatches
    \/ Attempts \/ Connects \/ PingFails \/ PingWorks \/ Moves
    \/ \E served \in BOOLEAN : Discovers(served)
    \/ Pause \/ Resume
    \/ Acquire \/ Release \/ Sweep

Spec == Init /\ [][Next]_vars

(* The stream and the host go on, a cluster that answers is pinged again    *)
(* and again, and the sweep's timer fires.  Nobody has to write, connect,   *)
(* pause or look.                                                           *)
Fairness ==
    /\ WF_vars(Stream \/ TakeBatches)
    /\ WF_vars(PingWorks) /\ WF_vars(Sweep)

FairSpec == Spec /\ Fairness

-----------------------------------------------------------------------------
(* Every variable keeps to its type. *)
TypeOK ==
    /\ log \in Seq(R!Write)
    /\ conn \in [client : 0..MaxClients, clients : 0..MaxClients,
                 connected : BOOLEAN, discovery : BOOLEAN \union {None}]
    /\ moved \in BOOLEAN
    /\ store \in [objects : [Keys -> 0..MaxWrites], status : Status,
                  running : BOOLEAN, paused : BOOLEAN]
    /\ watch.stream \in {"off", "empty", "listing", "watching", "ended"}
    /\ watch.at \in 0..MaxWrites /\ watch.client \in 0..MaxClients
    /\ watch.pending \in Seq(Change) /\ watch.sent \in Seq(Change)
    /\ watch.failing \in BOOLEAN
    /\ lease \in [open : BOOLEAN, users : 0..MaxUsers, idle : 0..Grace \union {None},
                  sweeping : BOOLEAN]
    /\ events \in 0..MaxEvents /\ errors \in 0..MaxErrors
    /\ position \in 0..MaxWrites /\ quiet \in 0..(Grace + 1)

(* A store that runs watches with the client its cluster has now, not with  *)
(* one whose connection was given up: as long as the cluster keeps its id.  *)
WatchUsesTheClient == store.running /\ ~moved => watch.client = Client

(* The store shows a state of the server, and only later ones. *)
ShowsThePast == R!Spec

(* "the store stops GRACE after the last clone drops": not while a view has *)
(* it, and not before all of the grace period has gone since the last view  *)
(* let go.                                                                  *)
DroppedAfterGrace ==
    [][lease.open /\ ~lease'.open => lease.users = 0 /\ quiet >= Grace]_vars

Followed == store.objects = R!StateAt(Len(log))

(* When errors, reconnects and pauses end, the store of a connected cluster *)
(* that serves the resource catches up, whatever it was refused before.     *)
CatchesUp ==
    <>[](/\ lease.open /\ conn.connected /\ conn.discovery = TRUE
         /\ ~store.paused /\ ~moved
         => Followed)
=============================================================================
