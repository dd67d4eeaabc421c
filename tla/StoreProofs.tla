----------------------------- MODULE StoreProofs -----------------------------
(***************************************************************************)
(* Proofs about what is followed over reconnects.  Store: which client a    *)
(* watch uses, when a store may be dropped, and that the list shows a past  *)
(* state of the cluster (it implements Replica).  LogStreams: each line of  *)
(* a pod's log is shown once, in order, and none is left out.               *)
(***************************************************************************)
EXTENDS Store, LogView, SequenceTheorems, FiniteSetTheorems, WellFoundedInduction,
        TLAPS

USE StoreAssumption

(* The records keep their shape, and a connection's client is a number.     *)
(* What the objects are does not matter here.                               *)
ConnType == [client : Nat, clients : Nat, connected : BOOLEAN,
             discovery : BOOLEAN \union {None}]

StoreType(s) == [objects : {s.objects}, status : {s.status}, running : BOOLEAN,
                 paused : BOOLEAN]

WatchType(w) == [stream : {w.stream}, at : {w.at}, client : {w.client},
                 pending : {w.pending}, failing : {w.failing}, sent : {w.sent}]

LeaseType == [open : BOOLEAN, users : Nat, idle : Nat \union {None}, sweeping : BOOLEAN]

Shape ==
    /\ conn \in ConnType /\ moved \in BOOLEAN
    /\ store \in StoreType(store) /\ watch \in WatchType(watch)
    /\ lease \in LeaseType
    /\ quiet \in Nat

(* Sweeps end with the entry.  A store runs only in an open entry that is   *)
(* not paused, and only with the client there is.                           *)
RunInv ==
    /\ lease.sweeping => lease.open
    /\ store.running => lease.open /\ ~store.paused
    /\ store.paused => lease.open
    /\ store.running /\ ~moved => Client # 0 /\ watch.client = Client

(* The idle time counts sweeps since the last handle went, of which the     *)
(* first only starts it.                                                    *)
IdleInv == lease.idle # None =>
    lease.users = 0 /\ lease.idle < Grace /\ lease.idle < quiet

IInv == Shape /\ RunInv /\ IdleInv

-----------------------------------------------------------------------------
(* The smaller of two numbers. *)
LEMMA MinOfTwo ==
    ASSUME NEW a \in Nat, NEW b \in Nat
    PROVE  /\ Min({a, b}) \in {a, b} /\ Min({a, b}) <= a /\ Min({a, b}) <= b
  <1>1. \E x \in {a, b} : \A y \in {a, b} : x =< y
    <2>1. CASE a <= b
      BY <2>1
    <2>2. CASE b <= a
      BY <2>2
    <2> QED BY <2>1, <2>2
  <1> QED BY <1>1 DEF Min

(* A store that stops does not run, and nothing watches for it. *)
LEMMA StopsOK ==
    ASSUME NEW s, s \in StoreType(s), NEW status, Stops(s, status)
    PROVE  /\ store' \in StoreType(store') /\ watch' \in WatchType(watch')
           /\ store'.paused = s.paused /\ ~store'.running
  <1>1. store' \in StoreType(store') /\ store'.paused = s.paused /\ ~store'.running
    BY DEF Stops, StoreType
  <1>2. watch' \in WatchType(watch')
    BY DEF Stops, Off, WatchType
  <1> QED BY <1>1, <1>2

(* `ensure_running` of a store that, if it runs, has the client of a        *)
(* cluster that is connected: it stops without one and starts with it.      *)
LEMMA EnsureRunningOK ==
    ASSUME conn' \in ConnType, watch \in WatchType(watch),
           NEW s, s \in StoreType(s), s.running => ~s.paused,
           s.running /\ Client' # 0 => watch.client = Client', EnsureRunning(s)
    PROVE  /\ store' \in StoreType(store') /\ watch' \in WatchType(watch')
           /\ store'.paused = s.paused
           /\ store'.running => /\ ~store'.paused /\ Client' # 0
                                /\ watch'.client = Client'
  <1>1. CASE store' = s /\ watch' = watch /\ (s.running => Client' # 0)
    BY <1>1
  <1>2. ASSUME NEW status, Stops(s, status)
        PROVE  /\ store' \in StoreType(store') /\ watch' \in WatchType(watch')
               /\ store'.paused = s.paused /\ ~store'.running
    BY <1>2, StopsOK
  <1>3. CASE /\ ~s.paused /\ Client' # 0
             /\ store' = [s EXCEPT !.running = TRUE, !.status = "Loading"]
             /\ watch' = Running(Client')
    <2>1. watch'.client = Client' /\ watch' \in WatchType(watch')
      BY <1>3 DEF Running, Off, WatchType
    <2>2. store' \in StoreType(store') /\ store'.paused = s.paused
      BY <1>3 DEF StoreType
    <2> QED BY <1>3, <2>1, <2>2
  <1>4. CASE s.paused
    BY <1>1, <1>4 DEF EnsureRunning, Keeps
  <1>5. CASE ~s.paused /\ Client' = 0
    BY <1>1, <1>2, <1>5 DEF EnsureRunning, Keeps
  <1>6. CASE ~s.paused /\ Client' # 0
    BY <1>1, <1>2, <1>3, <1>6 DEF EnsureRunning, Keeps
  <1> QED BY <1>4, <1>5, <1>6

(* The connection changes.  A store that listens is told at once; one that  *)
(* does not is closed, or its cluster goes by another id.                   *)
LEMMA ConnectionInv ==
    ASSUME IInv, NEW rediscovered \in BOOLEAN, ConnectionChanged(rediscovered),
           conn' \in ConnType, Client' \in {0, Client} \/ Client = 0
    PROVE  IInv'
  <1>1. Shape /\ RunInv /\ IdleInv /\ UNCHANGED <<moved, lease, quiet>>
    BY DEF IInv, ConnectionChanged
  <1>2. IdleInv'
    BY <1>1 DEF IdleInv
  <1>3. CASE moved \/ ~lease.open
    <2>1. UNCHANGED <<store, watch>>
      BY <1>3 DEF ConnectionChanged, Keeps
    <2>2. Shape'
      BY <1>1, <2>1 DEF Shape
    <2>3. RunInv'
      BY <1>1, <1>3, <2>1 DEF RunInv
    <2> QED BY <1>2, <2>2, <2>3 DEF IInv
  <1>4. CASE ~moved /\ lease.open
    <2> DEFINE s == IF rediscovered /\ store.status = "Unsupported"
                    THEN [store EXCEPT !.running = FALSE] ELSE store
    <2>1. EnsureRunning(s)
      BY <1>4 DEF ConnectionChanged
    <2>2. s \in StoreType(s) /\ s.paused = store.paused /\ (s.running => store.running)
      BY <1>1 DEF Shape, StoreType
    <2>3. s.running => ~s.paused
      BY <1>1, <2>2 DEF RunInv
    <2>4. s.running /\ Client' # 0 => watch.client = Client'
      BY <1>1, <1>4, <2>2 DEF RunInv
    <2> HIDE DEF s
    <2>5. watch \in WatchType(watch)
      BY <1>1 DEF Shape
    <2>6. /\ store' \in StoreType(store') /\ watch' \in WatchType(watch')
          /\ store'.paused = s.paused
          /\ store'.running => /\ ~store'.paused /\ Client' # 0
                               /\ watch'.client = Client'
      BY <2>1, <2>2, <2>3, <2>4, <2>5, EnsureRunningOK
    <2>7. Shape'
      BY <1>1, <2>6 DEF Shape
    <2>8. RunInv'
      BY <1>1, <1>4, <2>2, <2>6 DEF RunInv
    <2> QED BY <1>2, <2>7, <2>8 DEF IInv
  <1> QED BY <1>3, <1>4

(* The watch goes on with the client it has, and the store is not started. *)
LEMMA WatchInv ==
    ASSUME IInv, watch' \in WatchType(watch'), watch'.client = watch.client,
           store' \in StoreType(store'),
           store'.running => store.running, store'.paused = store.paused,
           UNCHANGED <<conn, moved, lease, quiet>>
    PROVE  IInv'
  BY DEF IInv, Shape, RunInv, IdleInv, Client

(* No event of the stream, and no frame, gives `pump` another client. *)
LEMMA PumpInv ==
    ASSUME IInv,
           \/ Stream \/ \E over \in BOOLEAN : WatchFails(over)
           \/ \E status \in {"Forbidden", "Unsupported"} : WatchRefused(status)
    PROVE  IInv'
  <1>1. watch \in WatchType(watch) /\ store \in StoreType(store)
    BY DEF IInv, Shape
  <1>2. SUFFICES /\ watch' \in WatchType(watch') /\ watch'.client = watch.client
                 /\ UNCHANGED <<conn, moved, store, lease, quiet>>
    BY <1>1, <1>2, WatchInv
  <1>3. CASE WatchInit
    BY <1>1, <1>3 DEF WatchInit, Pumps, WatchType, history
  <1>4. CASE WatchLists
    BY <1>1, <1>4 DEF WatchLists, Pumps, WatchType, history
  <1>5. CASE WatchDelivers
    BY <1>1, <1>5 DEF WatchDelivers, Pumps, WatchType, history
  <1>6. CASE FrameEnds
    BY <1>1, <1>6 DEF FrameEnds, Pumps, WatchType, history
  <1>7. ASSUME NEW over \in BOOLEAN, WatchFails(over)
        PROVE  /\ watch' \in WatchType(watch') /\ watch'.client = watch.client
               /\ UNCHANGED <<conn, moved, store, lease, quiet>>
    BY <1>1, <1>7 DEF WatchFails, Pumps, WatchType, history
  <1>8. ASSUME NEW status, WatchRefused(status)
        PROVE  /\ watch' \in WatchType(watch') /\ watch'.client = watch.client
               /\ UNCHANGED <<conn, moved, store, lease, quiet>>
    BY <1>1, <1>8 DEF WatchRefused, Pumps, WatchType, history
  <1> QED BY <1>3, <1>4, <1>5, <1>6, <1>7, <1>8 DEF Stream

(* The batches that are applied may stop a store; they never start one. *)
LEMMA TakeBatchesInv ==
    ASSUME IInv, TakeBatches
    PROVE  IInv'
  <1>1. watch \in WatchType(watch) /\ store \in StoreType(store)
    BY DEF IInv, Shape
  <1>2. watch' \in WatchType(watch') /\ watch'.client = watch.client
    BY <1>1 DEF TakeBatches, WatchType
  <1> DEFINE changes == watch.sent
             objects == ObjectsAfter(store.objects, changes, Len(changes))
             status == StatusAfter(store.status, changes)
             accepted == \A c \in Range(changes) :
                             c.kind = "status" => c.status \notin Refused
  <1>3. store' = [store EXCEPT !.objects = objects, !.status = status,
                               !.running = @ /\ accepted]
    BY DEF TakeBatches, Applied
  <1>4. accepted \in BOOLEAN
    OBVIOUS
  <1> HIDE DEF objects, status, accepted
  <1>5. /\ store' \in StoreType(store') /\ store'.paused = store.paused
        /\ store'.running => store.running
    BY <1>1, <1>3, <1>4 DEF StoreType
  <1>6. UNCHANGED <<conn, moved, lease, quiet>>
    BY DEF TakeBatches
  <1> QED BY <1>2, <1>5, <1>6, WatchInv

(* A connection is given up, made, lost, found again or discovered anew:    *)
(* the store never keeps a client that another one took the place of.       *)
LEMMA ConnInv ==
    ASSUME IInv,
           \/ Attempts \/ Connects \/ PingFails \/ PingWorks
           \/ \E served \in BOOLEAN : Discovers(served)
    PROVE  IInv'
  <1>1. conn \in ConnType
    BY DEF IInv, Shape
  <1>2. CASE Attempts
    <2>1. conn' \in ConnType /\ Client' = 0
      BY <1>1, <1>2 DEF Attempts, ConnType, Client
    <2> QED BY <1>2, <2>1, ConnectionInv DEF Attempts
  <1>3. CASE Connects
    <2>1. conn' \in ConnType
      BY <1>1, <1>3 DEF Connects, ConnType
    <2>2. Client = 0
      BY <1>3 DEF Connects, Client
    <2> QED BY <1>3, <2>1, <2>2, ConnectionInv DEF Connects
  <1>4. CASE PingFails
    <2>1. conn' \in ConnType /\ Client' = 0
      BY <1>1, <1>4 DEF PingFails, ConnType, Client
    <2> QED BY <1>4, <2>1, ConnectionInv DEF PingFails
  <1>5. CASE PingWorks
    <2>1. conn' \in ConnType /\ (Client' = Client \/ Client = 0)
      BY <1>1, <1>5 DEF PingWorks, ConnType, Client
    <2> QED BY <1>5, <2>1, ConnectionInv DEF PingWorks
  <1>6. ASSUME NEW served \in BOOLEAN, Discovers(served)
        PROVE  IInv'
    <2>1. conn' \in ConnType /\ Client' = Client
      BY <1>1, <1>6 DEF Discovers, ConnType, Client
    <2> QED BY <1>6, <2>1, ConnectionInv DEF Discovers
  <1> QED BY <1>2, <1>3, <1>4, <1>5, <1>6

(* The server writes, or the entry gets another id: nothing here changes    *)
(* but what is asked of the client, which is less.                          *)
LEMMA OutsideInv ==
    ASSUME IInv, Moves \/ \E w \in R!Write : ServerWrites(w)
    PROVE  IInv'
  BY DEF IInv, Shape, RunInv, IdleInv, Client, Moves, ServerWrites, history

(* `pause` stops the watch. *)
LEMMA PauseInv ==
    ASSUME IInv, Pause
    PROVE  IInv'
  <1> DEFINE s == [store EXCEPT !.paused = TRUE]
  <1>1. s \in StoreType(s) /\ s.paused
    BY DEF IInv, Shape, StoreType
  <1>2. Stops(s, "Paused") /\ lease.open /\ UNCHANGED <<conn, moved, lease, quiet>>
    BY DEF Pause
  <1> HIDE DEF s
  <1>3. /\ store' \in StoreType(store') /\ watch' \in WatchType(watch')
        /\ store'.paused /\ ~store'.running
    BY <1>1, <1>2, StopsOK
  <1> QED BY <1>2, <1>3 DEF IInv, Shape, RunInv, IdleInv

(* `resume` asks for a new watch, which has the client of the moment. *)
LEMMA ResumeInv ==
    ASSUME IInv, Resume
    PROVE  IInv'
  <1> DEFINE s == [store EXCEPT !.paused = FALSE, !.status = "Waiting"]
  <1>1. s \in StoreType(s) /\ ~s.paused /\ ~s.running
    BY DEF IInv, Shape, RunInv, StoreType, Resume
  <1>2. /\ EnsureRunning(s) /\ lease.open /\ UNCHANGED <<conn, moved, lease, quiet>>
        /\ conn \in ConnType /\ watch \in WatchType(watch)
    BY DEF Resume, IInv, Shape, RunInv
  <1> HIDE DEF s
  <1>3. /\ store' \in StoreType(store') /\ watch' \in WatchType(watch')
        /\ ~store'.paused
        /\ store'.running => Client' # 0 /\ watch'.client = Client'
    BY <1>1, <1>2, EnsureRunningOK
  <1> QED BY <1>2, <1>3 DEF IInv, Shape, RunInv, IdleInv

(* A new store waits, and nothing watches for it. *)
LEMMA NewOK ==
    /\ New \in StoreType(New) /\ ~New.running /\ ~New.paused
    /\ Off \in WatchType(Off)
  BY DEF New, StoreType, Off, WatchType

(* A handle of the store there is ends its idle time; a new store is        *)
(* started with the client of the moment.                                   *)
LEMMA AcquireInv ==
    ASSUME IInv, Acquire
    PROVE  IInv'
  <1>1. /\ UNCHANGED <<conn, moved>> /\ quiet' = 0
        /\ lease \in LeaseType /\ watch \in WatchType(watch) /\ conn \in ConnType
    BY DEF Acquire, IInv, Shape
  <1>2. CASE lease.open
    <2>1. UNCHANGED <<store, watch>>
          /\ lease' = [lease EXCEPT !.users = @ + 1, !.idle = None]
      BY <1>2 DEF Acquire, Keeps
    <2>2. lease.users + 1 \in Nat
      BY <1>1 DEF LeaseType
    <2>3. /\ lease' \in LeaseType /\ lease'.open /\ lease'.idle = None
          /\ lease'.sweeping = lease.sweeping
      BY <1>1, <1>2, <2>1, <2>2 DEF LeaseType
    <2> QED BY <1>1, <2>1, <2>3 DEF IInv, Shape, RunInv, IdleInv, Client
  <1>3. CASE ~lease.open
    <2>1. /\ EnsureRunning(New)
          /\ lease' = [open |-> TRUE, users |-> 1, idle |-> None, sweeping |-> TRUE]
      BY <1>3 DEF Acquire
    <2>2. lease' \in LeaseType /\ lease'.open /\ lease'.idle = None
      BY <2>1 DEF LeaseType
    <2>3. /\ store' \in StoreType(store') /\ watch' \in WatchType(watch')
          /\ ~store'.paused
          /\ store'.running => Client' # 0 /\ watch'.client = Client'
      BY <1>1, <2>1, NewOK, EnsureRunningOK
    <2> QED BY <1>1, <2>2, <2>3 DEF IInv, Shape, RunInv, IdleInv
  <1> QED BY <1>2, <1>3

(* A store somebody holds is not idle, so letting go starts from nothing. *)
LEMMA ReleaseInv ==
    ASSUME IInv, Release
    PROVE  IInv'
  <1>1. /\ UNCHANGED <<conn, moved, store, watch>> /\ quiet' = 0
        /\ lease \in LeaseType /\ lease.users > 0 /\ lease.idle = None
        /\ lease' = [lease EXCEPT !.users = @ - 1]
    BY DEF Release, IInv, Shape, IdleInv
  <1>2. /\ lease' \in LeaseType /\ lease'.open = lease.open /\ lease'.idle = None
        /\ lease'.sweeping = lease.sweeping
    BY <1>1 DEF LeaseType
  <1> QED BY <1>1, <1>2 DEF IInv, Shape, RunInv, IdleInv, Client

(* A sweep: the idle time and the sweeps counted since the last handle went *)
(* grow together, and an entry that is dropped takes its watch along.       *)
LEMMA SweepInv ==
    ASSUME IInv, Sweep
    PROVE  IInv'
  <1> DEFINE idle == IF lease.idle = None THEN 0 ELSE lease.idle + 1
  <1>1. /\ UNCHANGED <<conn, moved>> /\ lease \in LeaseType /\ quiet \in Nat
        /\ quiet' = IF lease.users > 0 \/ ~lease'.open THEN 0
                    ELSE Min({quiet + 1, Grace + 1})
    BY DEF Sweep, IInv, Shape
  <1>2. /\ Min({quiet + 1, Grace + 1}) \in Nat
        /\ Min({quiet + 1, Grace + 1}) \in {quiet + 1, Grace + 1}
    BY <1>1, MinOfTwo
  <1>3. quiet' \in Nat
    BY <1>1, <1>2
  <1>4. CASE lease.users > 0
    <2>1. UNCHANGED <<store, watch>> /\ lease' = [lease EXCEPT !.idle = None]
      BY <1>4 DEF Sweep, Keeps
    <2>2. /\ lease' \in LeaseType /\ lease'.open = lease.open /\ lease'.idle = None
          /\ lease'.sweeping = lease.sweeping
      BY <1>1, <2>1 DEF LeaseType
    <2> QED BY <1>1, <1>3, <2>1, <2>2 DEF IInv, Shape, RunInv, IdleInv, Client
  <1>5. CASE ~(lease.users > 0) /\ idle >= Grace
    <2>1. /\ store' = New /\ watch' = Off
          /\ lease' = [lease EXCEPT !.open = FALSE, !.idle = None, !.sweeping = FALSE]
      BY <1>5 DEF Sweep, Drops
    <2>2. lease' \in LeaseType /\ lease'.idle = None /\ ~lease'.sweeping
      BY <1>1, <2>1 DEF LeaseType
    <2>3. /\ store' \in StoreType(store') /\ watch' \in WatchType(watch')
          /\ ~store'.running /\ ~store'.paused
      BY <2>1, NewOK
    <2> QED BY <1>1, <1>3, <2>2, <2>3 DEF IInv, Shape, RunInv, IdleInv
  <1>6. CASE ~(lease.users > 0) /\ ~(idle >= Grace)
    <2>1. UNCHANGED <<store, watch>> /\ lease' = [lease EXCEPT !.idle = idle]
      BY <1>6 DEF Sweep, Keeps
    <2>2. idle \in Nat /\ idle < Grace /\ idle < quiet + 1 /\ lease.users = 0
      BY <1>1, <1>6 DEF IInv, IdleInv, LeaseType
    <2> HIDE DEF idle
    <2>3. /\ lease' \in LeaseType /\ lease'.open = lease.open /\ lease'.idle = idle
          /\ lease'.users = 0 /\ lease'.sweeping = lease.sweeping
      BY <1>1, <2>1, <2>2 DEF LeaseType
    <2>4. IdleInv'
      <3>1. lease.open
        BY DEF Sweep, IInv, RunInv
      <3>2. quiet' \in {quiet + 1, Grace + 1}
        BY <1>1, <1>2, <2>2, <2>3, <3>1
      <3> QED BY <1>1, <2>2, <2>3, <3>2 DEF IdleInv
    <2> QED BY <1>1, <1>3, <2>1, <2>3, <2>4 DEF IInv, Shape, RunInv, Client
  <1> QED BY <1>4, <1>5, <1>6
-----------------------------------------------------------------------------
(* The store a view has just acquired waits for its cluster. *)
LEMMA InitInv == Init => IInv
  <1> SUFFICES ASSUME Init
               PROVE  IInv
    OBVIOUS
  <1>1. conn \in ConnType /\ Client = 0
    BY DEF Init, ConnType, Client
  <1>2. lease \in LeaseType /\ lease.open /\ lease.idle = None
    BY DEF Init, LeaseType
  <1> QED BY <1>1, <1>2, NewOK DEF Init, IInv, Shape, RunInv, IdleInv

(* Every step keeps the invariant. *)
LEMMA Inductive == IInv /\ [Next]_vars => IInv'
  <1> SUFFICES ASSUME IInv, [Next]_vars
               PROVE  IInv'
    OBVIOUS
  <1>1. CASE UNCHANGED vars
    BY <1>1 DEF vars, history, IInv, Shape, RunInv, IdleInv, Client
  <1>2. CASE Next
    BY <1>2, OutsideInv, PumpInv, TakeBatchesInv, ConnInv, PauseInv, ResumeInv,
       AcquireInv, ReleaseInv, SweepInv DEF Next
  <1> QED BY <1>1, <1>2

(* The inductive invariant holds in every reachable state: a store runs     *)
(* only in an open entry, unpaused and with the client of its cluster, and  *)
(* it is idle for fewer sweeps than have passed since its last handle went. *)
THEOREM Invariance == Spec => []IInv
  BY InitInv, Inductive, PTL DEF Spec

(* `ensure_running`: however connections, pings, discoveries, pauses,       *)
(* handles and errors of the watch follow one another, a store that runs    *)
(* watches with the client its cluster has now, while it keeps its id.      *)
THEOREM AlwaysUsesTheClient == Spec => []WatchUsesTheClient
  <1>1. IInv => WatchUsesTheClient
    BY DEF IInv, RunInv, WatchUsesTheClient
  <1> QED BY <1>1, Invariance, PTL

(* `sweep` drops a store only when no view has had it for all of the grace  *)
(* period, whatever it is.                                                  *)
THEOREM OnlyDroppedAfterGrace == Spec => DroppedAfterGrace
  <1>1. ASSUME IInv, [Next]_vars
        PROVE  [lease.open /\ ~lease'.open => lease.users = 0 /\ quiet >= Grace]_vars
    <2> SUFFICES ASSUME lease.open, ~lease'.open
                 PROVE  lease.users = 0 /\ quiet >= Grace
      OBVIOUS
    <2>1. lease \in LeaseType /\ quiet \in Nat /\ IdleInv
      BY <1>1 DEF IInv, Shape
    <2>2. lease' # lease
      OBVIOUS
    <2>3. ~Acquire
      <3> SUFFICES ASSUME Acquire
                   PROVE  lease'.open
        OBVIOUS
      <3> QED BY <2>1 DEF Acquire, LeaseType
    <2>4. ~Release
      BY <2>1 DEF Release, LeaseType
    <2>5. Sweep
      BY <1>1, <2>2, <2>3, <2>4 DEF vars, Next, ServerWrites, Stream, WatchInit, WatchLists,
         WatchDelivers, FrameEnds, WatchFails, WatchRefused, Pumps, TakeBatches,
         ConnectionChanged, Attempts, Connects, PingFails, PingWorks, Moves,
         Discovers, Pause, Resume
    <2> DEFINE idle == IF lease.idle = None THEN 0 ELSE lease.idle + 1
    <2>6. ~(lease.users > 0) /\ idle >= Grace
      <3>1. CASE lease.users > 0
        BY <2>1, <2>5, <3>1 DEF Sweep, LeaseType
      <3>2. CASE ~(lease.users > 0) /\ ~(idle >= Grace)
        BY <2>1, <2>5, <3>2 DEF Sweep, LeaseType
      <3> QED BY <3>1, <3>2
    <2> QED BY <2>1, <2>6 DEF IdleInv, LeaseType
  <1> QED BY <1>1, Invariance, PTL DEF Spec, DroppedAfterGrace
-----------------------------------------------------------------------------
(* What the changes on their way do to the objects. *)

(* A set of numbers up to n has a largest one. *)
LEMMA MaxOf ==
    ASSUME NEW n \in Nat, NEW S \in SUBSET (1..n), S # {}
    PROVE  /\ Max(S) \in S /\ R!Max(S) = Max(S)
           /\ \A x \in S : x <= Max(S)
  <1> DEFINE T == {n - x : x \in S}
  <1>1. T \subseteq Nat /\ T # {}
    <2>1. \A x \in S : x \in 1..n /\ n - x \in Nat
      OBVIOUS
    <2> QED BY <2>1
  <1>2. \E t \in T : \A u \in T : ~(<<u, t>> \in OpToRel(<, Nat))
    BY <1>1, NatLessThanWellFounded, WFMin, Zenon
  <1>3. \E x \in S : \A y \in S : x >= y
    <2>1. PICK t \in T : \A u \in T : ~(<<u, t>> \in OpToRel(<, Nat))
      BY <1>2, Zenon
    <2>2. \A u \in T : ~(u < t)
      BY <1>1, <2>1 DEF OpToRel
    <2>3. PICK x \in S : t = n - x
      BY <2>1, Zenon
    <2>4. ASSUME NEW y \in S
          PROVE  x >= y
      <3>1. n - y \in T /\ x \in 1..n /\ y \in 1..n
        OBVIOUS
      <3> HIDE DEF T
      <3> QED BY <2>2, <2>3, <3>1
    <2> QED BY <2>4
  <1> QED BY <1>3 DEF Max, R!Max

(* The largest is the only one that is as large as all of them. *)
LEMMA MaxIs ==
    ASSUME NEW n \in Nat, NEW S \in SUBSET (1..n), NEW m \in S, \A x \in S : x <= m
    PROVE  Max(S) = m
  <1>1. Max(S) \in S /\ m <= Max(S)
    BY MaxOf
  <1>2. Max(S) \in 1..n /\ m \in 1..n /\ Max(S) <= m
    BY <1>1
  <1> QED BY <1>1, <1>2

(* No change: nothing is different. *)
LEMMA AfterNone ==
    ASSUME NEW objects \in [Keys -> Nat], NEW from, NEW cs
    PROVE  ObjectsAfter(objects, cs, 0) = objects /\ PositionAfter(from, cs, 0) = from
  BY DEF ObjectsAfter, PositionAfter

(* Only the first n changes count. *)
LEMMA AfterPrefix ==
    ASSUME NEW objects, NEW from, NEW cs, NEW ds, NEW n \in Nat,
           \A i \in 1..n : cs[i] = ds[i]
    PROVE  /\ ObjectsAfter(objects, cs, n) = ObjectsAfter(objects, ds, n)
           /\ PositionAfter(from, cs, n) = PositionAfter(from, ds, n)
  <1>1. ASSUME NEW k \in Keys
        PROVE  ObjectsAfter(objects, cs, n)[k] = ObjectsAfter(objects, ds, n)[k]
    <2> DEFINE S == {i \in 1..n : Touches(cs[i], k)}
               T == {i \in 1..n : Touches(ds[i], k)}
    <2>1. S = T
      OBVIOUS
    <2>2. S # {} => Max(S) \in 1..n
      <3> SUFFICES ASSUME S # {}
                   PROVE  Max(S) \in 1..n
        OBVIOUS
      <3>1. S \in SUBSET (1..n)
        OBVIOUS
      <3> HIDE DEF S
      <3> QED BY <3>1, MaxOf
    <2> QED BY <2>1, <2>2 DEF ObjectsAfter
  <1>2. PositionAfter(from, cs, n) = PositionAfter(from, ds, n)
    <2> DEFINE S == {i \in 1..n : cs[i].kind # "status"}
               T == {i \in 1..n : ds[i].kind # "status"}
    <2>1. S = T
      OBVIOUS
    <2>2. S # {} => Max(S) \in 1..n
      <3> SUFFICES ASSUME S # {}
                   PROVE  Max(S) \in 1..n
        OBVIOUS
      <3>1. S \in SUBSET (1..n)
        OBVIOUS
      <3> HIDE DEF S
      <3> QED BY <3>1, MaxOf
    <2> QED BY <2>1, <2>2 DEF PositionAfter
  <1> QED BY <1>1, <1>2 DEF ObjectsAfter

(* One change more: what becomes of an object. *)
LEMMA AfterNext ==
    ASSUME NEW objects, NEW cs, NEW n \in Nat, NEW m, m = n + 1, NEW k \in Keys
    PROVE  /\ Touches(cs[m], k) =>
                ObjectsAfter(objects, cs, m)[k] = Leaves(cs[m], k)
           /\ ~Touches(cs[m], k) =>
                ObjectsAfter(objects, cs, m)[k] = ObjectsAfter(objects, cs, n)[k]
  <1> DEFINE S == {i \in 1..n : Touches(cs[i], k)}
             T == {i \in 1..m : Touches(cs[i], k)}
  <1>1. CASE Touches(cs[m], k)
    <2>1. m \in T /\ T \in SUBSET (1..m) /\ \A x \in T : x <= m
      BY <1>1
    <2>2. Max(T) = m
      <3> HIDE DEF T
      <3>1. m \in Nat
        OBVIOUS
      <3> QED BY <2>1, <3>1, MaxIs
    <2> QED BY <1>1, <2>1, <2>2 DEF ObjectsAfter
  <1>2. CASE ~Touches(cs[m], k)
    <2>1. S = T
      BY <1>2
    <2> QED BY <1>2, <2>1 DEF ObjectsAfter
  <1> QED BY <1>1, <1>2

(* One change more: where the store is. *)
LEMMA PositionNext ==
    ASSUME NEW from, NEW cs, NEW n \in Nat, NEW m, m = n + 1
    PROVE  /\ cs[m].kind # "status" => PositionAfter(from, cs, m) = cs[m].at
           /\ cs[m].kind = "status" =>
                PositionAfter(from, cs, m) = PositionAfter(from, cs, n)
  <1> DEFINE S == {i \in 1..n : cs[i].kind # "status"}
             T == {i \in 1..m : cs[i].kind # "status"}
  <1>1. CASE cs[m].kind # "status"
    <2>1. m \in T /\ T \in SUBSET (1..m) /\ \A x \in T : x <= m
      BY <1>1
    <2>2. Max(T) = m
      <3> HIDE DEF T
      <3>1. m \in Nat
        OBVIOUS
      <3> QED BY <2>1, <3>1, MaxIs
    <2> QED BY <1>1, <2>1, <2>2 DEF PositionAfter
  <1>2. CASE cs[m].kind = "status"
    <2>1. S = T
      BY <1>2
    <2> QED BY <1>2, <2>1 DEF PositionAfter
  <1> QED BY <1>1, <1>2

(* The objects after all of some changes, and where the store is then. *)
Final(objects, cs) == ObjectsAfter(objects, cs, Len(cs))

Reaches(from, cs) == PositionAfter(from, cs, Len(cs))

(* u begins with s and goes on with the first m of t. *)
Joins(s, t, m, u) ==
    /\ Len(s) \in Nat /\ m \in Nat
    /\ \A i \in 1..Len(s) : u[i] = s[i]
    /\ \A i \in 1..m : u[Len(s) + i] = t[i]

(* D has the indices A of a first part and the indices B of a second one. *)
Parts(n, m, A, B, D) ==
    /\ n \in Nat /\ m \in Nat
    /\ A \in SUBSET (1..n) /\ B \in SUBSET (1..m) /\ D \in SUBSET (1..(n + m))
    /\ \A i \in 1..n : i \in D <=> i \in A
    /\ \A i \in 1..m : n + i \in D <=> i \in B

(* The largest index of both parts. *)
LEMMA JoinedSets ==
    ASSUME NEW n, NEW m, NEW A, NEW B, NEW D, Parts(n, m, A, B, D)
    PROVE  /\ B # {} => D # {} /\ Max(B) \in 1..m /\ Max(D) = n + Max(B)
           /\ B = {} => D = A
           /\ A # {} => Max(A) \in 1..n
  <1> USE DEF Parts
  <1>1. ASSUME NEW x \in D, ~(x \in 1..n)
        PROVE  x - n \in 1..m /\ x - n \in B /\ x = n + (x - n)
    <2>1. x - n \in 1..m /\ x = n + (x - n)
      BY <1>1
    <2> QED BY <2>1
  <1>2. CASE B # {}
    <2>1. Max(B) \in B /\ \A x \in B : x <= Max(B)
      BY <1>2, MaxOf
    <2>2. Max(B) \in 1..m /\ n + Max(B) \in D
      BY <2>1
    <2>3. ASSUME NEW x \in D
          PROVE  x <= n + Max(B)
      <3>1. CASE x \in 1..n
        BY <2>2, <3>1
      <3>2. CASE ~(x \in 1..n)
        <4>1. x - n <= Max(B)
          BY <1>1, <2>1, <3>2
        <4> QED BY <1>1, <2>2, <3>2, <4>1
      <3> QED BY <3>1, <3>2
    <2>4. Max(D) = n + Max(B)
      <3>1. n + m \in Nat
        OBVIOUS
      <3> QED BY <2>2, <2>3, <3>1, MaxIs
    <2>5. A # {} => Max(A) \in 1..n
      BY MaxOf
    <2> QED BY <1>2, <2>2, <2>4, <2>5
  <1>3. CASE B = {}
    <2>1. D = A
      BY <1>1, <1>3
    <2>2. A # {} => Max(A) \in 1..n
      BY MaxOf
    <2> QED BY <1>3, <2>1, <2>2
  <1> QED BY <1>2, <1>3

(* Some changes, and then others: what becomes of an object. *)
LEMMA AfterConcat ==
    ASSUME NEW objects, NEW s, NEW t, NEW u, NEW m, Joins(s, t, m, u),
           NEW p, p = Len(s) + m, NEW was, was = Final(objects, s)
    PROVE  ObjectsAfter(was, t, m) = ObjectsAfter(objects, u, p)
  <1>1. ASSUME NEW k \in Keys
        PROVE  ObjectsAfter(was, t, m)[k] = ObjectsAfter(objects, u, p)[k]
    <2> DEFINE A == {i \in 1..Len(s) : Touches(s[i], k)}
               B == {i \in 1..m : Touches(t[i], k)}
               D == {i \in 1..(Len(s) + m) : Touches(u[i], k)}
    <2>1. /\ A \in SUBSET (1..Len(s)) /\ B \in SUBSET (1..m)
          /\ D \in SUBSET (1..(Len(s) + m))
          /\ \A i \in 1..Len(s) : i \in 1..(Len(s) + m)
          /\ \A i \in 1..m : Len(s) + i \in 1..(Len(s) + m)
      BY DEF Joins
    <2>2. /\ \A i \in 1..Len(s) : i \in D <=> i \in A
          /\ \A i \in 1..m : Len(s) + i \in D <=> i \in B
      BY <2>1 DEF Joins
    <2>3. /\ ObjectsAfter(was, t, m)[k] = IF B = {} THEN was[k] ELSE Leaves(t[Max(B)], k)
          /\ was[k] = IF A = {} THEN objects[k] ELSE Leaves(s[Max(A)], k)
          /\ ObjectsAfter(objects, u, p)[k]
               = IF D = {} THEN objects[k] ELSE Leaves(u[Max(D)], k)
      BY DEF ObjectsAfter, Final
    <2> HIDE DEF A, B, D
    <2>4. /\ B # {} => D # {} /\ Max(B) \in 1..m /\ Max(D) = Len(s) + Max(B)
          /\ B = {} => D = A
          /\ A # {} => Max(A) \in 1..Len(s)
      <3>1. Parts(Len(s), m, A, B, D)
        BY <2>1, <2>2 DEF Joins, Parts
      <3> QED BY <3>1, JoinedSets
    <2> QED BY <2>3, <2>4 DEF Joins
  <1> QED BY <1>1 DEF ObjectsAfter

(* Some changes, and then others: where the store is. *)
LEMMA PositionConcat ==
    ASSUME NEW from, NEW s, NEW t, NEW u, NEW m, Joins(s, t, m, u),
           NEW p, p = Len(s) + m, NEW at, at = Reaches(from, s)
    PROVE  PositionAfter(at, t, m) = PositionAfter(from, u, p)
  <1> DEFINE A == {i \in 1..Len(s) : s[i].kind # "status"}
             B == {i \in 1..m : t[i].kind # "status"}
             D == {i \in 1..(Len(s) + m) : u[i].kind # "status"}
  <1>1. /\ A \in SUBSET (1..Len(s)) /\ B \in SUBSET (1..m)
        /\ D \in SUBSET (1..(Len(s) + m))
        /\ \A i \in 1..Len(s) : i \in 1..(Len(s) + m)
        /\ \A i \in 1..m : Len(s) + i \in 1..(Len(s) + m)
    BY DEF Joins
  <1>2. /\ \A i \in 1..Len(s) : i \in D <=> i \in A
        /\ \A i \in 1..m : Len(s) + i \in D <=> i \in B
    BY <1>1 DEF Joins
  <1>3. /\ PositionAfter(at, t, m) = IF B = {} THEN at ELSE t[Max(B)].at
        /\ at = IF A = {} THEN from ELSE s[Max(A)].at
        /\ PositionAfter(from, u, p)
             = IF D = {} THEN from ELSE u[Max(D)].at
    BY DEF PositionAfter, Reaches
  <1> HIDE DEF A, B, D
  <1>4. /\ B # {} => D # {} /\ Max(B) \in 1..m /\ Max(D) = Len(s) + Max(B)
        /\ B = {} => D = A
        /\ A # {} => Max(A) \in 1..Len(s)
    <2>1. Parts(Len(s), m, A, B, D)
      BY <1>1, <1>2 DEF Joins, Parts
    <2> QED BY <2>1, JoinedSets
  <1> QED BY <1>3, <1>4 DEF Joins

-----------------------------------------------------------------------------
(* The states of the server. *)

(* One write more. *)
LEMMA StateNext ==
    ASSUME NEW n \in Nat, NEW m, m = n + 1, NEW k \in Keys
    PROVE  R!StateAt(m)[k] = IF log[m].key = k THEN (IF log[m].gone THEN 0 ELSE m)
                             ELSE R!StateAt(n)[k]
  <1> DEFINE S == {i \in 1..n : log[i].key = k}
             T == {i \in 1..m : log[i].key = k}
  <1>1. m \in Nat
    OBVIOUS
  <1>2. CASE log[m].key = k
    <2>1. m \in T /\ T \in SUBSET (1..m) /\ \A x \in T : x <= m
      BY <1>2
    <2>2. R!Max(T) = m
      <3> HIDE DEF T
      <3>1. R!Max(T) = Max(T)
        BY <1>1, <2>1, MaxOf
      <3> QED BY <1>1, <2>1, <3>1, MaxIs
    <2> QED BY <1>2, <2>1, <2>2 DEF R!StateAt
  <1>3. CASE log[m].key # k
    <2>1. S = T
      BY <1>3
    <2> QED BY <1>3, <2>1 DEF R!StateAt
  <1> QED BY <1>2, <1>3

(* The versions that are shown are numbers of writes. *)
LEMMA StateType ==
    ASSUME NEW n \in Nat
    PROVE  R!StateAt(n) \in [Keys -> 0..n]
  <1>1. ASSUME NEW k \in Keys
        PROVE  R!StateAt(n)[k] \in 0..n
    <2> DEFINE S == {i \in 1..n : log[i].key = k}
    <2>1. S \in SUBSET (1..n)
      OBVIOUS
    <2>2. R!StateAt(n)[k] = IF S = {} \/ log[R!Max(S)].gone THEN 0 ELSE R!Max(S)
      BY DEF R!StateAt
    <2> HIDE DEF S
    <2>3. S # {} => R!Max(S) \in 1..n
      BY <2>1, MaxOf
    <2> QED BY <2>2, <2>3
  <1> QED BY <1>1 DEF R!StateAt

(* A write that comes after n does not matter. *)
LEMMA StateSame ==
    ASSUME NEW n \in Nat, \A i \in 1..n : log'[i] = log[i]
    PROVE  R!StateAt(n)' = R!StateAt(n)
  <1>1. ASSUME NEW k \in Keys
        PROVE  R!StateAt(n)'[k] = R!StateAt(n)[k]
    <2> DEFINE S == {i \in 1..n : log[i].key = k}
               T == {i \in 1..n : log'[i].key = k}
    <2>1. S \in SUBSET (1..n) /\ S = T
      OBVIOUS
    <2>2. /\ R!StateAt(n)[k] = IF S = {} \/ log[R!Max(S)].gone THEN 0 ELSE R!Max(S)
          /\ R!StateAt(n)'[k] = IF T = {} \/ log'[R!Max(T)].gone THEN 0 ELSE R!Max(T)
      BY DEF R!StateAt
    <2> HIDE DEF S, T
    <2>3. S # {} => R!Max(S) \in 1..n
      BY <2>1, MaxOf
    <2> QED BY <2>1, <2>2, <2>3
  <1> QED BY <1>1 DEF R!StateAt

-----------------------------------------------------------------------------
(* The changes that n writes can have caused. *)
Known(n) == [kind : {"reset"}, at : 0..n] \union [kind : {"write"}, at : 1..n]
              \union [kind : {"status"}, status : Status]

(* However many of the changes are applied, the objects are those of a      *)
(* moment of the server, or none, and the moments follow one another.       *)
Past(objects, from, cs) ==
    \A m \in 0..Len(cs) :
        /\ PositionAfter(from, cs, m) \in from..Len(log)
        /\ \/ ObjectsAfter(objects, cs, m) = R!Nothing
           \/ ObjectsAfter(objects, cs, m) = R!StateAt(PositionAfter(from, cs, m))
        /\ \A l \in 0..m : PositionAfter(from, cs, l) <= PositionAfter(from, cs, m)

(* What a store that follows its server is given. *)
Given(objects, from, cs) ==
    /\ log \in Seq(R!Write) /\ objects \in [Keys -> Nat] /\ from \in 0..Len(log)
    /\ cs \in Seq(Known(Len(log)))
    /\ Past(objects, from, cs)

(* ds is cs and one more change. *)
Then(cs, c, ds) == ds = Append(cs, c)

(* One more change on its way. *)
LEMMA PastAppend ==
    ASSUME NEW objects, NEW from, NEW cs, Given(objects, from, cs),
           NEW c \in Known(Len(log)), NEW ds, Then(cs, c, ds),
           Reaches(from, ds) \in Reaches(from, cs)..Len(log),
           Final(objects, ds) \in {R!Nothing, R!StateAt(Reaches(from, ds))}
    PROVE  Given(objects, from, ds)
  <1>1. /\ Len(log) \in Nat /\ from \in Nat /\ Len(cs) \in Nat
        /\ ds \in Seq(Known(Len(log))) /\ Len(ds) = Len(cs) + 1
        /\ \A i \in 1..Len(cs) : ds[i] = cs[i]
    BY DEF Given, Then
  <1>2. ASSUME NEW m \in 0..Len(cs)
        PROVE  /\ ObjectsAfter(objects, ds, m) = ObjectsAfter(objects, cs, m)
               /\ PositionAfter(from, ds, m) = PositionAfter(from, cs, m)
    <2>1. m \in Nat /\ \A i \in 1..m : ds[i] = cs[i]
      BY <1>1
    <2> QED BY <2>1, AfterPrefix
  <1>3. /\ Past(objects, from, cs)
        /\ PositionAfter(from, cs, Len(cs)) \in from..Len(log)
        /\ \A l \in 0..Len(cs) : PositionAfter(from, cs, l) \in from..Len(log)
                 /\ PositionAfter(from, cs, l) <= PositionAfter(from, cs, Len(cs))
    BY <1>1 DEF Given, Past
  <1>4. PositionAfter(from, ds, Len(ds)) \in PositionAfter(from, cs, Len(cs))..Len(log)
    BY DEF Reaches
  <1>5. ASSUME NEW m \in 0..Len(ds)
        PROVE  /\ PositionAfter(from, ds, m) \in from..Len(log)
               /\ \/ ObjectsAfter(objects, ds, m) = R!Nothing
                  \/ ObjectsAfter(objects, ds, m) = R!StateAt(PositionAfter(from, ds, m))
               /\ \A l \in 0..m : PositionAfter(from, ds, l) <= PositionAfter(from, ds, m)
    <2>1. CASE m \in 0..Len(cs)
      <3>1. \A l \in 0..m : l \in 0..Len(cs)
        BY <1>1, <2>1
      <3> QED BY <1>2, <1>3, <2>1, <3>1 DEF Past
    <2>2. CASE m = Len(ds)
      <3>1. PositionAfter(from, ds, m) \in from..Len(log)
        BY <1>1, <1>3, <1>4, <2>2
      <3>2. ASSUME NEW l \in 0..m
            PROVE  PositionAfter(from, ds, l) <= PositionAfter(from, ds, m)
        <4>1. CASE l \in 0..Len(cs)
          <5>1. PositionAfter(from, ds, l) = PositionAfter(from, cs, l)
            BY <1>2, <4>1
          <5>2. /\ PositionAfter(from, cs, l) \in from..Len(log)
                /\ PositionAfter(from, cs, Len(cs)) \in from..Len(log)
            BY <1>3, <4>1
          <5> QED BY <1>1, <1>3, <1>4, <2>2, <4>1, <5>1, <5>2
        <4>2. CASE l = m
          BY <1>1, <3>1, <4>2
        <4> QED BY <1>1, <2>2, <4>1, <4>2
      <3> QED BY <2>2, <3>1, <3>2 DEF Final, Reaches
    <2> QED BY <1>1, <2>1, <2>2
  <1> QED BY <1>1, <1>5 DEF Given, Past

(* What the change does at the end. *)
LEMMA AppendFinal ==
    ASSUME NEW objects, NEW from, NEW cs, Given(objects, from, cs),
           NEW c \in Known(Len(log)), NEW ds, Then(cs, c, ds)
    PROVE  /\ Final(objects, ds) = [k \in Keys |->
                IF Touches(c, k) THEN Leaves(c, k) ELSE Final(objects, cs)[k]]
           /\ Reaches(from, ds) = IF c.kind # "status" THEN c.at ELSE Reaches(from, cs)
           /\ Reaches(from, cs) \in 0..Len(log)
           /\ Final(objects, cs) \in {R!Nothing, R!StateAt(Reaches(from, cs))}
           /\ Final(objects, cs) = [k \in Keys |-> Final(objects, cs)[k]]
  <1>1. /\ Len(log) \in Nat /\ from \in Nat /\ Len(cs) \in Nat
        /\ Len(ds) = Len(cs) + 1
        /\ \A i \in 1..Len(cs) : ds[i] = cs[i]
        /\ ds[Len(cs) + 1] = c
    BY DEF Given, Then
  <1>2. /\ ObjectsAfter(objects, ds, Len(cs)) = ObjectsAfter(objects, cs, Len(cs))
        /\ PositionAfter(from, ds, Len(cs)) = PositionAfter(from, cs, Len(cs))
    BY <1>1, AfterPrefix, Zenon
  <1>3. PositionAfter(from, ds, Len(ds)) =
          IF c.kind # "status" THEN c.at ELSE PositionAfter(from, ds, Len(cs))
    <2>1. PICK n \in Nat, m \in Nat : n = Len(cs) /\ m = Len(ds) /\ m = n + 1
      BY <1>1
    <2>2. /\ ds[m].kind # "status" => PositionAfter(from, ds, m) = ds[m].at
          /\ ds[m].kind = "status" =>
               PositionAfter(from, ds, m) = PositionAfter(from, ds, n)
      BY <2>1, PositionNext
    <2> QED BY <1>1, <2>1, <2>2
  <1>4. ASSUME NEW k \in Keys
        PROVE  Final(objects, ds)[k] =
                 IF Touches(c, k) THEN Leaves(c, k) ELSE Final(objects, cs)[k]
    <2>1. /\ Touches(c, k) => ObjectsAfter(objects, ds, Len(ds))[k] = Leaves(c, k)
          /\ ~Touches(c, k) => ObjectsAfter(objects, ds, Len(ds))[k]
                                 = ObjectsAfter(objects, ds, Len(cs))[k]
      <3>1. PICK n \in Nat, m \in Nat : n = Len(cs) /\ m = Len(ds) /\ m = n + 1
        BY <1>1
      <3>2. /\ Touches(ds[m], k) => ObjectsAfter(objects, ds, m)[k] = Leaves(ds[m], k)
            /\ ~Touches(ds[m], k) => ObjectsAfter(objects, ds, m)[k]
                                       = ObjectsAfter(objects, ds, n)[k]
        BY <3>1, AfterNext
      <3> QED BY <1>1, <3>1, <3>2
    <2> QED BY <1>2, <2>1 DEF Final
  <1>5. /\ Final(objects, ds) = [k \in Keys |-> Final(objects, ds)[k]]
        /\ Final(objects, cs) = [k \in Keys |-> Final(objects, cs)[k]]
    BY DEF Final, ObjectsAfter
  <1>6. /\ Reaches(from, cs) \in 0..Len(log)
        /\ Final(objects, cs) \in {R!Nothing, R!StateAt(Reaches(from, cs))}
    <2>1. Len(cs) \in 0..Len(cs)
      BY <1>1
    <2> QED BY <1>1, <2>1 DEF Given, Past, Final, Reaches
  <1>7. Reaches(from, ds) = IF c.kind # "status" THEN c.at ELSE Reaches(from, cs)
    BY <1>1, <1>2, <1>3 DEF Reaches
  <1>8. Final(objects, ds) = [k \in Keys |->
          IF Touches(c, k) THEN Leaves(c, k) ELSE Final(objects, cs)[k]]
    BY <1>4, <1>5
  <1> QED BY <1>5, <1>6, <1>7, <1>8

(* A status that does not clear leaves everything as it is. *)
LEMMA PastSays ==
    ASSUME NEW objects, NEW from, NEW cs, Given(objects, from, cs),
           NEW status \in Status \ Refused, NEW ds, Then(cs, Says(status), ds)
    PROVE  /\ Given(objects, from, ds)
           /\ Final(objects, ds) = Final(objects, cs)
           /\ Reaches(from, ds) = Reaches(from, cs)
  <1>1. PICK c : c = Says(status)
    OBVIOUS
  <1>2. /\ c \in Known(Len(log)) /\ c.kind = "status" /\ Then(cs, c, ds)
        /\ \A k \in Keys : ~Touches(c, k)
    BY <1>1 DEF Known, Says, Touches
  <1>3. /\ Final(objects, ds) = [k \in Keys |->
             IF Touches(c, k) THEN Leaves(c, k) ELSE Final(objects, cs)[k]]
        /\ Reaches(from, ds) = IF c.kind # "status" THEN c.at ELSE Reaches(from, cs)
        /\ Reaches(from, cs) \in 0..Len(log)
        /\ Final(objects, cs) \in {R!Nothing, R!StateAt(Reaches(from, cs))}
        /\ Final(objects, cs) = [k \in Keys |-> Final(objects, cs)[k]]
    BY <1>2, AppendFinal
  <1>4. Final(objects, ds) = Final(objects, cs) /\ Reaches(from, ds) = Reaches(from, cs)
    BY <1>2, <1>3
  <1>5. Reaches(from, ds) \in Reaches(from, cs)..Len(log)
    BY <1>3, <1>4 DEF Given
  <1>6. Final(objects, ds) \in {R!Nothing, R!StateAt(Reaches(from, ds))}
    BY <1>3, <1>4
  <1> QED BY <1>2, <1>4, <1>5, <1>6, PastAppend

(* A status that clears leaves nothing. *)
LEMMA PastRefused ==
    ASSUME NEW objects, NEW from, NEW cs, Given(objects, from, cs),
           NEW status \in Refused, NEW ds, Then(cs, Says(status), ds)
    PROVE  Given(objects, from, ds)
  <1>1. PICK c : c = Says(status)
    OBVIOUS
  <1>2. /\ c \in Known(Len(log)) /\ c.kind = "status" /\ Then(cs, c, ds)
        /\ \A k \in Keys : Touches(c, k) /\ Leaves(c, k) = 0
    BY <1>1 DEF Known, Says, Touches, Leaves, Refused, Status
  <1>3. /\ Final(objects, ds) = [k \in Keys |->
             IF Touches(c, k) THEN Leaves(c, k) ELSE Final(objects, cs)[k]]
        /\ Reaches(from, ds) = IF c.kind # "status" THEN c.at ELSE Reaches(from, cs)
        /\ Reaches(from, cs) \in 0..Len(log)
    BY <1>2, AppendFinal
  <1>4. Final(objects, ds) = R!Nothing /\ Reaches(from, ds) = Reaches(from, cs)
    BY <1>2, <1>3 DEF R!Nothing
  <1>5. Reaches(from, ds) \in Reaches(from, cs)..Len(log)
    BY <1>3, <1>4 DEF Given
  <1> QED BY <1>2, <1>4, <1>5, PastAppend

(* A list shows the state of the moment it was taken at. *)
LEMMA PastReset ==
    ASSUME NEW objects, NEW from, NEW cs, Given(objects, from, cs),
           NEW ds, Then(cs, Reset(Len(log)), ds)
    PROVE  /\ Given(objects, from, ds)
           /\ Final(objects, ds) = R!StateAt(Len(log))
           /\ Reaches(from, ds) = Len(log)
  <1>1. PICK c : c = Reset(Len(log))
    OBVIOUS
  <1>2. Len(log) \in Nat
    BY DEF Given
  <1>3. /\ c \in Known(Len(log)) /\ c.kind = "reset" /\ c.at = Len(log) /\ Then(cs, c, ds)
    BY <1>1, <1>2 DEF Known, Reset
  <1>4. \A k \in Keys : Touches(c, k) /\ Leaves(c, k) = R!StateAt(Len(log))[k]
    BY <1>3 DEF Touches, Leaves
  <1>5. /\ Final(objects, ds) = [k \in Keys |->
             IF Touches(c, k) THEN Leaves(c, k) ELSE Final(objects, cs)[k]]
        /\ Reaches(from, ds) = IF c.kind # "status" THEN c.at ELSE Reaches(from, cs)
        /\ Reaches(from, cs) \in 0..Len(log)
    BY <1>3, AppendFinal
  <1>6. R!StateAt(Len(log)) = [k \in Keys |-> R!StateAt(Len(log))[k]]
    BY <1>2, StateType
  <1>7. Final(objects, ds) = R!StateAt(Len(log))
    BY <1>4, <1>5, <1>6
  <1>8. Reaches(from, ds) = Len(log) /\ Reaches(from, ds) \in Reaches(from, cs)..Len(log)
    BY <1>2, <1>3, <1>5
  <1> QED BY <1>3, <1>7, <1>8, PastAppend

(* The write after the state that is reached leads to the next state. *)
LEMMA PastWrote ==
    ASSUME NEW objects, NEW from, NEW cs, Given(objects, from, cs),
           NEW n \in Nat, NEW m, m = n + 1, m <= Len(log),
           Reaches(from, cs) = n, Final(objects, cs) = R!StateAt(n),
           NEW ds, Then(cs, Wrote(m), ds)
    PROVE  /\ Given(objects, from, ds)
           /\ Final(objects, ds) = R!StateAt(m)
           /\ Reaches(from, ds) = m
  <1>1. PICK c : c = Wrote(m)
    OBVIOUS
  <1>2. Len(log) \in Nat /\ m \in 1..Len(log)
    BY DEF Given
  <1>3. /\ c \in Known(Len(log)) /\ c.kind = "write" /\ c.at = m /\ Then(cs, c, ds)
    BY <1>1, <1>2 DEF Known, Wrote
  <1>4. ASSUME NEW k \in Keys
        PROVE  (IF Touches(c, k) THEN Leaves(c, k) ELSE R!StateAt(n)[k]) = R!StateAt(m)[k]
    <2>1. /\ Touches(c, k) <=> log[m].key = k
          /\ Leaves(c, k) = IF log[m].gone THEN 0 ELSE m
      BY <1>3 DEF Touches, Leaves
    <2>2. R!StateAt(m)[k] = IF log[m].key = k THEN (IF log[m].gone THEN 0 ELSE m)
                            ELSE R!StateAt(n)[k]
      BY StateNext
    <2> QED BY <2>1, <2>2
  <1>5. /\ Final(objects, ds) = [k \in Keys |->
             IF Touches(c, k) THEN Leaves(c, k) ELSE Final(objects, cs)[k]]
        /\ Reaches(from, ds) = IF c.kind # "status" THEN c.at ELSE Reaches(from, cs)
    BY <1>3, AppendFinal
  <1>6. R!StateAt(m) = [k \in Keys |-> R!StateAt(m)[k]]
    BY DEF R!StateAt
  <1>7. Final(objects, ds) = R!StateAt(m)
    BY <1>4, <1>5, <1>6
  <1>8. Reaches(from, ds) = m /\ Reaches(from, ds) \in Reaches(from, cs)..Len(log)
    BY <1>2, <1>3, <1>5
  <1> QED BY <1>3, <1>7, <1>8, PastAppend

(* Dropping the last changes, those that were not sent, does no harm. *)
LEMMA PastDropped ==
    ASSUME NEW objects, NEW from, NEW C, NEW s \in Seq(C), NEW t \in Seq(C),
           Given(objects, from, s \o t), s \in Seq(Known(Len(log)))
    PROVE  Given(objects, from, s)
  <1>1. /\ Len(s) \in Nat /\ Len(t) \in Nat /\ Len(s \o t) = Len(s) + Len(t)
        /\ \A i \in 1..Len(s) : (s \o t)[i] = s[i]
    BY ConcatProperties
  <1>2. ASSUME NEW m \in 0..Len(s)
        PROVE  /\ m \in 0..Len(s \o t)
               /\ ObjectsAfter(objects, s, m) = ObjectsAfter(objects, s \o t, m)
               /\ PositionAfter(from, s, m) = PositionAfter(from, s \o t, m)
    <2>1. PICK u : u = s \o t
      OBVIOUS
    <2>2. m \in Nat /\ \A i \in 1..m : s[i] = u[i]
      BY <1>1, <2>1
    <2>3. /\ ObjectsAfter(objects, s, m) = ObjectsAfter(objects, u, m)
          /\ PositionAfter(from, s, m) = PositionAfter(from, u, m)
      BY <2>2, AfterPrefix
    <2> QED BY <1>1, <2>1, <2>3
  <1>3. PICK u : u = s \o t
    OBVIOUS
  <1>4. Past(objects, from, u)
    BY <1>3 DEF Given
  <1>5. ASSUME NEW m \in 0..Len(s)
        PROVE  /\ PositionAfter(from, s, m) \in from..Len(log)
               /\ \/ ObjectsAfter(objects, s, m) = R!Nothing
                  \/ ObjectsAfter(objects, s, m) = R!StateAt(PositionAfter(from, s, m))
               /\ \A l \in 0..m : PositionAfter(from, s, l) <= PositionAfter(from, s, m)
    <2>1. \A l \in 0..m : l \in 0..Len(s)
      BY <1>1
    <2>2. /\ m \in 0..Len(u) /\ ObjectsAfter(objects, s, m) = ObjectsAfter(objects, u, m)
          /\ PositionAfter(from, s, m) = PositionAfter(from, u, m)
          /\ \A l \in 0..m : PositionAfter(from, s, l) = PositionAfter(from, u, l)
      BY <1>2, <1>3, <2>1
    <2> QED BY <1>4, <2>2 DEF Past
  <1> QED BY <1>5 DEF Given, Past

(* Applying the first changes: the others go on from there. *)
LEMMA PastTaken ==
    ASSUME NEW objects, NEW from, NEW C, NEW s \in Seq(C), NEW t \in Seq(C),
           Given(objects, from, s \o t), t \in Seq(Known(Len(log)))
    PROVE  /\ Given(Final(objects, s), Reaches(from, s), t)
           /\ Final(Final(objects, s), t) = Final(objects, s \o t)
           /\ Reaches(Reaches(from, s), t) = Reaches(from, s \o t)
           /\ Reaches(from, s) \in from..Len(log)
           /\ Final(objects, s) \in {R!Nothing, R!StateAt(Reaches(from, s))}
  <1>1. /\ Len(s) \in Nat /\ Len(t) \in Nat /\ Len(s \o t) = Len(s) + Len(t)
        /\ \A i \in 1..Len(s) : (s \o t)[i] = s[i]
    BY ConcatProperties
  <1>2. PICK u : u = s \o t
    OBVIOUS
  <1>3. ASSUME NEW m \in 0..Len(t)
        PROVE  /\ Len(s) + m \in 0..Len(u)
               /\ ObjectsAfter(Final(objects, s), t, m) = ObjectsAfter(objects, u, Len(s) + m)
               /\ PositionAfter(Reaches(from, s), t, m) = PositionAfter(from, u, Len(s) + m)
    <2>1. Len(s) + m \in 0..Len(u)
      BY <1>1, <1>2
    <2>2. PICK p : p = Len(s) + m
      OBVIOUS
    <2>3. Joins(s, t, m, u)
      BY <1>1, <1>2, ConcatProperties DEF Joins
    <2>4. ObjectsAfter(Final(objects, s), t, m) = ObjectsAfter(objects, u, p)
      BY <2>2, <2>3, AfterConcat
    <2>5. PositionAfter(Reaches(from, s), t, m) = PositionAfter(from, u, p)
      BY <2>2, <2>3, PositionConcat
    <2> QED BY <2>1, <2>2, <2>4, <2>5
  <1>4. /\ Past(objects, from, u) /\ log \in Seq(R!Write) /\ from \in 0..Len(log)
        /\ Len(log) \in Nat /\ objects \in [Keys -> Nat]
    BY <1>2 DEF Given
  <1>5. /\ Final(objects, s) = ObjectsAfter(objects, u, Len(s))
        /\ Reaches(from, s) = PositionAfter(from, u, Len(s))
        /\ Len(s) \in 0..Len(u)
    <2>1. \A i \in 1..Len(s) : s[i] = u[i]
      BY <1>1, <1>2
    <2>2. /\ ObjectsAfter(objects, s, Len(s)) = ObjectsAfter(objects, u, Len(s))
          /\ PositionAfter(from, s, Len(s)) = PositionAfter(from, u, Len(s))
      BY <1>1, <2>1, AfterPrefix
    <2> QED BY <1>1, <1>2, <2>2 DEF Final, Reaches
  <1>6. /\ Reaches(from, s) \in from..Len(log)
        /\ Final(objects, s) \in {R!Nothing, R!StateAt(Reaches(from, s))}
    BY <1>4, <1>5 DEF Past
  <1>7. Reaches(from, s) \in 0..Len(log) /\ Reaches(from, s) \in Nat
    BY <1>4, <1>6
  <1>8. Final(objects, s) \in [Keys -> Nat]
    <2>1. R!Nothing \in [Keys -> Nat]
      BY DEF R!Nothing
    <2>2. R!StateAt(Reaches(from, s)) \in [Keys -> Nat]
      BY <1>7, StateType
    <2> QED BY <1>6, <2>1, <2>2
  <1>9. ASSUME NEW m \in 0..Len(t)
        PROVE  /\ PositionAfter(Reaches(from, s), t, m) \in Reaches(from, s)..Len(log)
               /\ \/ ObjectsAfter(Final(objects, s), t, m) = R!Nothing
                  \/ ObjectsAfter(Final(objects, s), t, m)
                       = R!StateAt(PositionAfter(Reaches(from, s), t, m))
               /\ \A l \in 0..m : PositionAfter(Reaches(from, s), t, l)
                                    <= PositionAfter(Reaches(from, s), t, m)
    <2>1. PICK p : p = Len(s) + m
      OBVIOUS
    <2>2. /\ p \in 0..Len(u) /\ Len(s) \in 0..p
          /\ \A l \in 0..m : l \in 0..Len(t) /\ Len(s) + l \in 0..p
      BY <1>1, <1>3, <2>1
    <2>3. /\ PositionAfter(from, u, p) \in from..Len(log)
          /\ \/ ObjectsAfter(objects, u, p) = R!Nothing
             \/ ObjectsAfter(objects, u, p) = R!StateAt(PositionAfter(from, u, p))
          /\ \A l \in 0..p : PositionAfter(from, u, l) <= PositionAfter(from, u, p)
      BY <1>4, <2>2 DEF Past
    <2>4. PositionAfter(from, u, p) \in Reaches(from, s)..Len(log)
      BY <1>4, <1>5, <1>7, <2>2, <2>3
    <2>5. /\ PositionAfter(Reaches(from, s), t, m) = PositionAfter(from, u, p)
          /\ ObjectsAfter(Final(objects, s), t, m) = ObjectsAfter(objects, u, p)
          /\ \A l \in 0..m : PositionAfter(Reaches(from, s), t, l)
                               = PositionAfter(from, u, Len(s) + l)
      BY <1>3, <2>1, <2>2
    <2> QED BY <2>2, <2>3, <2>4, <2>5
  <1>10. Given(Final(objects, s), Reaches(from, s), t)
    BY <1>4, <1>7, <1>8, <1>9 DEF Given, Past
  <1>11. Len(t) \in 0..Len(t)
    BY <1>1
  <1>12. /\ Final(Final(objects, s), t) = Final(objects, u)
         /\ Reaches(Reaches(from, s), t) = Reaches(from, u)
    BY <1>1, <1>2, <1>3, <1>11 DEF Final, Reaches
  <1> QED BY <1>2, <1>6, <1>10, <1>12

(* Nothing is on its way. *)
LEMMA PastNone ==
    ASSUME NEW objects, NEW from, log \in Seq(R!Write), from \in 0..Len(log),
           objects \in {R!Nothing, R!StateAt(from)}
    PROVE  Given(objects, from, <<>>)
  <1>1. from \in Nat /\ Len(log) \in Nat
    OBVIOUS
  <1>2. objects \in [Keys -> Nat]
    <2>1. R!Nothing \in [Keys -> Nat]
      BY DEF R!Nothing
    <2>2. R!StateAt(from) \in [Keys -> Nat]
      BY <1>1, StateType
    <2> QED BY <2>1, <2>2
  <1>3. PICK cs : cs = <<>>
    OBVIOUS
  <1>4. ObjectsAfter(objects, cs, 0) = objects /\ PositionAfter(from, cs, 0) = from
    BY <1>2, AfterNone
  <1>5. Past(objects, from, cs)
    <2>1. Len(cs) = 0 /\ 0..Len(cs) = {0} /\ 0..0 = {0}
      BY <1>3
    <2> QED BY <1>1, <1>4, <2>1 DEF Past
  <1>6. cs \in Seq(Known(Len(log)))
    BY <1>3
  <1> QED BY <1>2, <1>3, <1>5, <1>6 DEF Given

(* The objects there are come from a state of the server. *)
LEMMA PastStart ==
    ASSUME NEW objects, NEW from, NEW cs, Given(objects, from, cs)
    PROVE  /\ log \in Seq(R!Write) /\ from \in 0..Len(log)
           /\ objects \in {R!Nothing, R!StateAt(from)}
  <1>1. ObjectsAfter(objects, cs, 0) = objects /\ PositionAfter(from, cs, 0) = from
    BY AfterNone DEF Given
  <1>2. 0 \in 0..Len(cs)
    BY DEF Given
  <1> QED BY <1>1, <1>2 DEF Given, Past

(* The server writes: what is known stays as it was. *)
LEMMA PastGrows ==
    ASSUME NEW objects, NEW from, NEW cs, Given(objects, from, cs),
           NEW w \in R!Write, log' = Append(log, w)
    PROVE  /\ Given(objects, from, cs)'
           /\ Final(objects, cs)' = Final(objects, cs)
           /\ \A n \in 0..Len(log) : R!StateAt(n)' = R!StateAt(n)
           /\ Len(log') = Len(log) + 1 /\ Known(Len(log)) \subseteq Known(Len(log'))
  <1>1. /\ Len(log) \in Nat /\ log' \in Seq(R!Write) /\ Len(log') = Len(log) + 1
        /\ \A i \in 1..Len(log) : log'[i] = log[i]
        /\ objects \in [Keys -> Nat] /\ from \in 0..Len(log)
        /\ cs \in Seq(Known(Len(log))) /\ Len(cs) \in Nat
    BY DEF Given
  <1>2. ASSUME NEW n \in 0..Len(log)
        PROVE  R!StateAt(n)' = R!StateAt(n)
    <2>1. n \in Nat /\ \A i \in 1..n : log'[i] = log[i]
      BY <1>1
    <2> QED BY <2>1, StateSame
  <1>3. Known(Len(log)) \subseteq Known(Len(log'))
    <2>1. 0..Len(log) \subseteq 0..Len(log') /\ 1..Len(log) \subseteq 1..Len(log')
      BY <1>1
    <2> QED BY <2>1 DEF Known
  <1>4. ASSUME NEW c \in Known(Len(log)), NEW k \in Keys
        PROVE  (Touches(c, k)' <=> Touches(c, k)) /\ Leaves(c, k)' = Leaves(c, k)
    <2>1. CASE c \in [kind : {"reset"}, at : 0..Len(log)]
      BY <1>2, <2>1 DEF Touches, Leaves
    <2>2. CASE c \in [kind : {"write"}, at : 1..Len(log)]
      BY <1>1, <2>2 DEF Touches, Leaves
    <2>3. CASE c \in [kind : {"status"}, status : Status]
      BY <2>3 DEF Touches, Leaves
    <2> QED BY <2>1, <2>2, <2>3 DEF Known
  <1>5. ASSUME NEW m \in 0..Len(cs)
        PROVE  ObjectsAfter(objects, cs, m)' = ObjectsAfter(objects, cs, m)
    <2>1. ASSUME NEW k \in Keys
          PROVE  ObjectsAfter(objects, cs, m)'[k] = ObjectsAfter(objects, cs, m)[k]
      <3>0. PICK S, T : /\ S = {i \in 1..m : Touches(cs[i], k)}
                        /\ T = {i \in 1..m : Touches(cs[i], k)'}
        OBVIOUS
      <3>1. \A i \in 1..m : cs[i] \in Known(Len(log))
        BY <1>1
      <3>2. S = T /\ S \in SUBSET (1..m) /\ m \in Nat
        BY <1>1, <1>4, <3>0, <3>1
      <3>3. /\ ObjectsAfter(objects, cs, m)[k]
                 = IF S = {} THEN objects[k] ELSE Leaves(cs[Max(S)], k)
            /\ ObjectsAfter(objects, cs, m)'[k]
                 = IF T = {} THEN objects[k] ELSE Leaves(cs[Max(T)], k)'
        BY <3>0 DEF ObjectsAfter
      <3>4. S # {} => Max(S) \in 1..m
        BY <3>2, MaxOf
      <3>5. S # {} => cs[Max(S)] \in Known(Len(log))
        BY <3>1, <3>4
      <3>6. CASE S = {}
        BY <3>2, <3>3, <3>6
      <3>7. CASE S # {}
        <4>1. PICK c \in Known(Len(log)) : c = cs[Max(S)]
          BY <3>5, <3>7
        <4>2. ObjectsAfter(objects, cs, m)[k] = Leaves(c, k)
          BY <3>3, <3>7, <4>1
        <4>3. Leaves(c, k)' = Leaves(c, k)
          BY <1>4
        <4>4. ObjectsAfter(objects, cs, m)'[k] = Leaves(c, k)'
          BY <3>2, <3>3, <3>7, <4>1
        <4> QED BY <4>2, <4>3, <4>4
      <3> QED BY <3>6, <3>7
    <2> QED BY <2>1 DEF ObjectsAfter
  <1>6. Past(objects, from, cs)'
    <2>1. Past(objects, from, cs)
      BY DEF Given
    <2>2. ASSUME NEW m \in 0..Len(cs)
          PROVE  /\ PositionAfter(from, cs, m) \in from..Len(log')
                 /\ \/ ObjectsAfter(objects, cs, m)' = R!Nothing
                    \/ ObjectsAfter(objects, cs, m)' = R!StateAt(PositionAfter(from, cs, m))'
                 /\ \A l \in 0..m : PositionAfter(from, cs, l) <= PositionAfter(from, cs, m)
      <3>1. PICK n : n = PositionAfter(from, cs, m)
        OBVIOUS
      <3>2. /\ n \in from..Len(log)
            /\ \/ ObjectsAfter(objects, cs, m) = R!Nothing
               \/ ObjectsAfter(objects, cs, m) = R!StateAt(n)
            /\ \A l \in 0..m : PositionAfter(from, cs, l) <= n
        BY <2>1, <3>1 DEF Past
      <3>3. n \in 0..Len(log) /\ n \in from..Len(log')
        BY <1>1, <3>2
      <3>4. R!StateAt(n)' = R!StateAt(n)
        BY <1>2, <3>3
      <3>5. ObjectsAfter(objects, cs, m)' = ObjectsAfter(objects, cs, m)
        BY <1>5
      <3> QED BY <3>1, <3>2, <3>3, <3>4, <3>5
    <2> QED BY <2>2 DEF Past, R!Nothing
  <1>7. Given(objects, from, cs)'
    <2>1. cs \in Seq(Known(Len(log')))
      BY <1>1, <1>3, SeqMonotonic
    <2>2. from \in 0..Len(log')
      BY <1>1
    <2> QED BY <1>1, <1>6, <2>1, <2>2 DEF Given
  <1>8. Final(objects, cs)' = Final(objects, cs)
    <2>1. Len(cs) \in 0..Len(cs)
      BY <1>1
    <2> QED BY <1>5, <2>1 DEF Final
  <1> QED BY <1>1, <1>2, <1>3, <1>7, <1>8

-----------------------------------------------------------------------------
(* All that is on its way to the store. *)
Changes == watch.sent \o watch.pending

(* The changes on their way lead through states of the server, and a stream *)
(* that watches is where they lead to.  A closed entry has no watch.        *)
PastInv ==
    /\ watch.sent \in Seq(Known(Len(log))) /\ watch.pending \in Seq(Known(Len(log)))
    /\ Given(store.objects, position, Changes)
    /\ watch.stream = "watching" =>
          /\ Reaches(position, Changes) = watch.at
          /\ Final(store.objects, Changes) = R!StateAt(watch.at)
    /\ ~lease.open => watch = Off

(* Appending to what is pending appends to all that is on its way. *)
LEMMA ConcatAppend ==
    ASSUME NEW C, NEW s \in Seq(C), NEW t \in Seq(C), NEW c \in C
    PROVE  /\ Append(t, c) \in Seq(C) /\ Then(s \o t, c, s \o Append(t, c))
           /\ Append(s \o t, c) \in Seq(C) /\ Append(s \o t, c) = s \o Append(t, c)
  <1>1. /\ s \o t \in Seq(C) /\ Append(t, c) \in Seq(C) /\ Append(s \o t, c) \in Seq(C)
        /\ s \o Append(t, c) \in Seq(C)
    OBVIOUS
  <1>2. Append(s \o t, c) = s \o Append(t, c)
    <2>1. Len(Append(s \o t, c)) = Len(s \o Append(t, c))
      BY <1>1
    <2>2. \A i \in 1..Len(Append(s \o t, c)) :
             Append(s \o t, c)[i] = (s \o Append(t, c))[i]
      BY <1>1
    <2> QED BY <1>1, <2>1, <2>2, SeqEqual
  <1> QED BY <1>1, <1>2 DEF Then

(* The server does not write: what changes lead to is what they led to. *)
LEMMA SameLog ==
    ASSUME log' = log, NEW o, NEW f, NEW cs
    PROVE  /\ Given(o, f, cs) => Given(o, f, cs)'
           /\ Final(o, cs)' = Final(o, cs)
           /\ \A n : R!StateAt(n)' = R!StateAt(n)
  <1>1. \A n : R!StateAt(n)' = R!StateAt(n)
    BY DEF R!StateAt
  <1>2. ASSUME NEW c, NEW k
        PROVE  (Touches(c, k)' <=> Touches(c, k)) /\ Leaves(c, k)' = Leaves(c, k)
    BY <1>1 DEF Touches, Leaves
  <1>3. ASSUME NEW m
        PROVE  ObjectsAfter(o, cs, m)' = ObjectsAfter(o, cs, m)
    BY <1>2 DEF ObjectsAfter
  <1>4. Final(o, cs)' = Final(o, cs)
    BY <1>3 DEF Final
  <1>5. Past(o, f, cs) => Past(o, f, cs)'
    BY <1>1, <1>3 DEF Past, R!Nothing
  <1>6. Given(o, f, cs) => Given(o, f, cs)'
    BY <1>5 DEF Given
  <1> QED BY <1>1, <1>4, <1>6

(* Without a change on its way the store may show what it shows, or nothing. *)
LEMMA QuietPast ==
    ASSUME PastInv, UNCHANGED <<log, position>>,
           \/ watch' = watch /\ store'.objects = store.objects
           \/ /\ watch'.sent = <<>> /\ watch'.pending = <<>>
              /\ watch'.stream # "watching"
              /\ store'.objects \in {store.objects, R!Nothing},
           ~lease'.open => watch' = Off
    PROVE  PastInv' /\ [R!Next]_(R!vars)
  <1>1. /\ log \in Seq(R!Write) /\ position \in 0..Len(log)
        /\ store.objects \in {R!Nothing, R!StateAt(position)}
    BY PastStart DEF PastInv
  <1>2. CASE watch' = watch /\ store'.objects = store.objects
    <2>1. PICK o, f, cs : o = store.objects /\ f = position /\ cs = Changes
      OBVIOUS
    <2>2. o = store'.objects /\ f = position' /\ cs = Changes'
      BY <1>2, <2>1 DEF Changes
    <2>3. Given(o, f, cs)' /\ Final(o, cs)' = Final(o, cs)
      BY <2>1, SameLog DEF PastInv
    <2>4. R!StateAt(watch.at)' = R!StateAt(watch.at)
      BY <1>2 DEF R!StateAt
    <2>5. PastInv'
      BY <1>2, <2>1, <2>2, <2>3, <2>4 DEF PastInv
    <2> QED BY <1>2, <2>5 DEF R!vars
  <1>3. CASE /\ watch'.sent = <<>> /\ watch'.pending = <<>>
             /\ watch'.stream # "watching"
             /\ store'.objects \in {store.objects, R!Nothing}
    <2>1. R!StateAt(position)' = R!StateAt(position)
      BY DEF R!StateAt
    <2>2. store'.objects \in {R!Nothing, R!StateAt(position)'}
      BY <1>1, <1>3, <2>1
    <2>3. PICK o, f : o = store'.objects /\ f = position'
      OBVIOUS
    <2>4. Given(o, f, <<>>)
      BY <1>1, <1>3, <2>3, PastNone
    <2>5. Given(o, f, <<>>)'
      BY <2>4, SameLog
    <2>6. Changes' = <<>>
      BY <1>3 DEF Changes
    <2>7. Given(store.objects, position, Changes)'
      BY <2>3, <2>5, <2>6
    <2>8. PastInv'
      BY <1>3, <2>7 DEF PastInv
    <2>9. position \in position..Len(log)
      BY <1>1
    <2>10. [R!Next]_(R!vars)
      BY <1>3, <2>9 DEF R!vars, R!Next, R!Forgets
    <2> QED BY <2>8, <2>10
  <1> QED BY <1>2, <1>3

(* The stream moves on: the store does not show it yet. *)
LEMMA PumpPast ==
    ASSUME PastInv, UNCHANGED <<log, position, store, lease>>, lease.open,
           NEW cs, cs = Changes', Given(store.objects, position, cs),
           watch'.sent \in Seq(Known(Len(log))), watch'.pending \in Seq(Known(Len(log))),
           watch'.stream = "watching" =>
              /\ Reaches(position, cs) = watch'.at
              /\ Final(store.objects, cs) = R!StateAt(watch'.at)
    PROVE  PastInv' /\ [R!Next]_(R!vars)
  <1>1. PICK o, f, n : o = store.objects /\ f = position /\ n = watch'.at
    OBVIOUS
  <1>2. /\ Given(o, f, cs)' /\ Final(o, cs)' = Final(o, cs)
        /\ R!StateAt(n)' = R!StateAt(n)
    BY <1>1, SameLog
  <1>3. o = store'.objects /\ f = position'
    BY <1>1
  <1>4. PastInv'
    BY <1>1, <1>2, <1>3 DEF PastInv
  <1> QED BY <1>4 DEF R!vars

(* What a closed entry lacks: a watch that could go on. *)
LEMMA WatchedIsOpen ==
    ASSUME PastInv, watch.stream # "off" \/ watch.pending # <<>>
    PROVE  lease.open
  BY DEF PastInv, Off

(* The status that tells of a recovery changes nothing. *)
LEMMA RecoveredPast ==
    ASSUME PastInv, watch \in WatchType(watch)
    PROVE  /\ Recovered \in Seq(Known(Len(log)))
           /\ Given(store.objects, position, watch.sent \o Recovered)
           /\ Final(store.objects, watch.sent \o Recovered) = Final(store.objects, Changes)
           /\ Reaches(position, watch.sent \o Recovered) = Reaches(position, Changes)
  <1>1. CASE ~watch.failing
    BY <1>1 DEF Recovered, PastInv, Changes
  <1>2. CASE watch.failing
    <2>1. Says("Ready") \in Known(Len(log)) /\ "Ready" \in Status \ Refused
      BY DEF Says, Known, Status, Refused
    <2>2. /\ Recovered \in Seq(Known(Len(log)))
          /\ Then(Changes, Says("Ready"), watch.sent \o Recovered)
      BY <1>2, <2>1, ConcatAppend DEF Recovered, PastInv, Changes
    <2> QED BY <2>1, <2>2, PastSays DEF PastInv
  <1> QED BY <1>1, <1>2

(* `Event::Init` *)
LEMMA WatchInitPast ==
    ASSUME Shape, PastInv, WatchInit
    PROVE  PastInv' /\ [R!Next]_(R!vars)
  <1>1. watch \in WatchType(watch) /\ UNCHANGED <<log, position, store, lease>>
    BY DEF Shape, WatchInit, Pumps, history
  <1>2. lease.open
    BY WatchedIsOpen DEF WatchInit
  <1>3. watch'.sent = watch.sent /\ watch'.pending = Recovered /\ watch'.stream = "listing"
    BY <1>1 DEF WatchInit, Pumps, WatchType
  <1>4. Changes' = watch.sent \o Recovered
    BY <1>3 DEF Changes
  <1> QED BY <1>1, <1>2, <1>3, <1>4, RecoveredPast, PumpPast DEF PastInv

(* A list takes the place of what was not sent. *)
LEMMA WatchListsPast ==
    ASSUME Shape, PastInv, WatchLists
    PROVE  PastInv' /\ [R!Next]_(R!vars)
  <1>1. watch \in WatchType(watch) /\ UNCHANGED <<log, position, store, lease>>
    BY DEF Shape, WatchLists, Pumps, history
  <1>2. lease.open
    BY WatchedIsOpen DEF WatchLists
  <1>3. PICK c : c = Reset(Len(log))
    OBVIOUS
  <1>4. /\ watch'.sent = watch.sent /\ watch'.pending = <<c>>
        /\ watch'.stream = "watching" /\ watch'.at = Len(log)
    BY <1>1, <1>3 DEF WatchLists, Pumps, WatchType
  <1>5. /\ watch.sent \in Seq(Known(Len(log))) /\ watch.pending \in Seq(Known(Len(log)))
        /\ Given(store.objects, position, watch.sent \o watch.pending)
    BY DEF PastInv, Changes
  <1>6. Given(store.objects, position, watch.sent)
    BY <1>5, PastDropped
  <1>7. Len(log) \in Nat
    BY <1>6 DEF Given
  <1>8. c \in Known(Len(log))
    BY <1>3, <1>7 DEF Reset, Known
  <1>9. Changes' = watch.sent \o <<c>> /\ Then(watch.sent, c, watch.sent \o <<c>>)
    BY <1>4, <1>5, <1>8 DEF Changes, Then
  <1>10. /\ Given(store.objects, position, watch.sent \o <<c>>)
         /\ Final(store.objects, watch.sent \o <<c>>) = R!StateAt(Len(log))
         /\ Reaches(position, watch.sent \o <<c>>) = Len(log)
    BY <1>3, <1>6, <1>9, PastReset
  <1>11. <<c>> \in Seq(Known(Len(log)))
    BY <1>8
  <1> QED BY <1>1, <1>2, <1>4, <1>5, <1>9, <1>10, <1>11, PumpPast

(* The write after the one the stream is at. *)
LEMMA WatchDeliversPast ==
    ASSUME Shape, PastInv, WatchDelivers
    PROVE  PastInv' /\ [R!Next]_(R!vars)
  <1>1. watch \in WatchType(watch) /\ UNCHANGED <<log, position, store, lease>>
    BY DEF Shape, WatchDelivers, Pumps, history
  <1>2. lease.open
    BY WatchedIsOpen DEF WatchDelivers
  <1>3. PICK n, m : n = watch.at /\ m = watch.at + 1
    OBVIOUS
  <1>4. /\ watch'.sent = watch.sent /\ watch'.pending = Append(Recovered, Wrote(m))
        /\ watch'.stream = "watching" /\ watch'.at = m
    BY <1>1, <1>3 DEF WatchDelivers, Pumps, WatchType
  <1>5. /\ Recovered \in Seq(Known(Len(log))) /\ watch.sent \in Seq(Known(Len(log)))
        /\ Given(store.objects, position, watch.sent \o Recovered)
        /\ Final(store.objects, watch.sent \o Recovered) = R!StateAt(n)
        /\ Reaches(position, watch.sent \o Recovered) = n
    BY <1>1, <1>3, RecoveredPast DEF PastInv, WatchDelivers
  <1>6. Len(log) \in Nat /\ n \in 0..Len(log)
    <2>1. PICK cs : cs = watch.sent \o Recovered
      OBVIOUS
    <2>2. Len(log) \in Nat /\ Len(cs) \in 0..Len(cs) /\ position \in 0..Len(log)
      BY <1>5, <2>1 DEF Given
    <2>3. n \in position..Len(log)
      BY <1>5, <2>1, <2>2 DEF Given, Past, Reaches
    <2> QED BY <2>2, <2>3
  <1>7. n \in Nat /\ m = n + 1 /\ m <= Len(log) /\ m \in 1..Len(log)
    BY <1>3, <1>6 DEF WatchDelivers
  <1>8. Wrote(m) \in Known(Len(log))
    BY <1>7 DEF Wrote, Known
  <1>9. /\ Changes' = watch.sent \o Append(Recovered, Wrote(m))
        /\ Append(Recovered, Wrote(m)) \in Seq(Known(Len(log)))
        /\ Then(watch.sent \o Recovered, Wrote(m), watch.sent \o Append(Recovered, Wrote(m)))
    BY <1>4, <1>5, <1>8, ConcatAppend DEF Changes
  <1>10. PICK ds : ds = watch.sent \o Append(Recovered, Wrote(m))
    OBVIOUS
  <1>11. /\ Given(store.objects, position, ds)
         /\ Final(store.objects, ds) = R!StateAt(m)
         /\ Reaches(position, ds) = m
    BY <1>5, <1>7, <1>9, <1>10, PastWrote
  <1> QED BY <1>1, <1>2, <1>4, <1>5, <1>9, <1>10, <1>11, PumpPast

(* An error is told at most once in a row, and changes nothing. *)
LEMMA WatchFailsPast ==
    ASSUME Shape, PastInv, NEW over \in BOOLEAN, WatchFails(over)
    PROVE  PastInv' /\ [R!Next]_(R!vars)
  <1>1. watch \in WatchType(watch) /\ UNCHANGED <<log, position, store, lease>>
    BY DEF Shape, WatchFails, Pumps, history
  <1>2. lease.open
    BY WatchedIsOpen DEF WatchFails
  <1>3. PICK pending : pending = IF watch.failing THEN watch.pending
                                 ELSE Append(watch.pending, Says("Error"))
    OBVIOUS
  <1>4. /\ watch'.sent = watch.sent /\ watch'.pending = pending
        /\ watch'.at = watch.at
        /\ watch'.stream = "watching" => watch.stream = "watching"
    BY <1>1, <1>3 DEF WatchFails, Pumps, WatchType
  <1>5. /\ pending \in Seq(Known(Len(log)))
        /\ Given(store.objects, position, watch.sent \o pending)
        /\ Final(store.objects, watch.sent \o pending) = Final(store.objects, Changes)
        /\ Reaches(position, watch.sent \o pending) = Reaches(position, Changes)
    <2>1. CASE watch.failing
      BY <1>3, <2>1 DEF PastInv, Changes
    <2>2. CASE ~watch.failing
      <3>1. Says("Error") \in Known(Len(log)) /\ "Error" \in Status \ Refused
        BY DEF Says, Known, Status, Refused
      <3>2. /\ pending \in Seq(Known(Len(log)))
            /\ Then(Changes, Says("Error"), watch.sent \o pending)
        BY <1>3, <2>2, <3>1, ConcatAppend DEF PastInv, Changes
      <3> QED BY <3>1, <3>2, PastSays DEF PastInv
    <2> QED BY <2>1, <2>2
  <1>6. Changes' = watch.sent \o pending
    BY <1>4 DEF Changes
  <1> QED BY <1>1, <1>2, <1>4, <1>5, <1>6, PumpPast DEF PastInv

(* A refusal is the last that is sent. *)
LEMMA WatchRefusedPast ==
    ASSUME Shape, PastInv, NEW status \in {"Forbidden", "Unsupported"},
           WatchRefused(status)
    PROVE  PastInv' /\ [R!Next]_(R!vars)
  <1>1. watch \in WatchType(watch) /\ UNCHANGED <<log, position, store, lease>>
    BY DEF Shape, WatchRefused, Pumps, history
  <1>2. lease.open
    BY WatchedIsOpen DEF WatchRefused
  <1>3. PICK ds : ds = Append(Changes, Says(status))
    OBVIOUS
  <1>4. watch'.sent = ds /\ watch'.pending = <<>> /\ watch'.stream = "ended"
    BY <1>1, <1>3 DEF WatchRefused, Pumps, WatchType, Changes
  <1>5. Says(status) \in Known(Len(log)) /\ status \in Refused
    BY DEF Says, Known, Status, Refused
  <1>6. Changes \in Seq(Known(Len(log)))
    BY DEF PastInv, Given
  <1>7. ds \in Seq(Known(Len(log))) /\ Then(Changes, Says(status), ds)
    BY <1>3, <1>5, <1>6 DEF Then
  <1>8. Given(store.objects, position, ds)
    BY <1>5, <1>7, PastRefused DEF PastInv
  <1>9. Changes' = ds
    BY <1>4, <1>7 DEF Changes
  <1>10. <<>> \in Seq(Known(Len(log)))
    OBVIOUS
  <1> QED BY <1>1, <1>2, <1>4, <1>7, <1>8, <1>9, <1>10, PumpPast

(* Sending changes neither what there is nor its order. *)
LEMMA FrameEndsPast ==
    ASSUME Shape, PastInv, FrameEnds
    PROVE  PastInv' /\ [R!Next]_(R!vars)
  <1>1. watch \in WatchType(watch) /\ UNCHANGED <<log, position, store, lease>>
    BY DEF Shape, FrameEnds, Pumps, history
  <1>2. lease.open
    BY WatchedIsOpen DEF FrameEnds
  <1>3. /\ watch'.sent = Changes /\ watch'.pending = <<>>
        /\ watch'.stream = watch.stream /\ watch'.at = watch.at
    BY <1>1 DEF FrameEnds, Pumps, WatchType, Changes
  <1>4. Changes \in Seq(Known(Len(log))) /\ <<>> \in Seq(Known(Len(log)))
    BY DEF PastInv, Given
  <1>5. Changes' = Changes
    <2>1. PICK cs : cs = Changes
      OBVIOUS
    <2>2. cs \o <<>> = cs
      BY <1>4, <2>1, ConcatEmptySeq
    <2> QED BY <1>3, <2>1, <2>2 DEF Changes
  <1> QED BY <1>1, <1>2, <1>3, <1>4, <1>5, PumpPast DEF PastInv

(* The host applies what was sent: the store goes on to a later state, or   *)
(* it shows nothing any more.                                               *)
LEMMA TakeBatchesPast ==
    ASSUME Shape, PastInv, TakeBatches
    PROVE  PastInv' /\ [R!Next]_(R!vars)
  <1>1. /\ watch \in WatchType(watch) /\ store \in StoreType(store)
        /\ UNCHANGED <<log, lease>>
    BY DEF Shape, TakeBatches
  <1>2. /\ watch'.sent = <<>> /\ watch'.pending = watch.pending
        /\ watch'.stream = watch.stream /\ watch'.at = watch.at
    BY <1>1 DEF TakeBatches, WatchType
  <1>3. PICK o, f, n : /\ o = Final(store.objects, watch.sent)
                       /\ f = Reaches(position, watch.sent) /\ n = watch.at
    OBVIOUS
  <1>4. store'.objects = o /\ position' = f
    BY <1>1, <1>3 DEF TakeBatches, Applied, StoreType, Final, Reaches
  <1>5. /\ watch.sent \in Seq(Known(Len(log))) /\ watch.pending \in Seq(Known(Len(log)))
        /\ Given(store.objects, position, watch.sent \o watch.pending)
    BY DEF PastInv, Changes
  <1>6. PICK cs : cs = watch.pending
    OBVIOUS
  <1>7. /\ Given(o, f, cs)
        /\ Final(o, cs) = Final(store.objects, Changes)
        /\ Reaches(f, cs) = Reaches(position, Changes)
        /\ f \in position..Len(log)
        /\ o \in {R!Nothing, R!StateAt(f)}
    BY <1>3, <1>5, <1>6, PastTaken DEF Changes
  <1>8. Changes' = cs
    BY <1>2, <1>5, <1>6 DEF Changes
  <1>9. /\ Given(o, f, cs)' /\ Final(o, cs)' = Final(o, cs)
        /\ R!StateAt(n)' = R!StateAt(n)
    BY <1>1, <1>7, SameLog
  <1>10. lease.open
    BY DEF PastInv, Off, TakeBatches
  <1>11. PastInv'
    <2>1. Given(store.objects, position, Changes)'
      BY <1>4, <1>8, <1>9
    <2>2. watch'.stream = "watching" =>
             Reaches(f, cs) = watch'.at /\ Final(o, cs)' = R!StateAt(n)'
      BY <1>2, <1>3, <1>7, <1>9 DEF PastInv
    <2>3. watch'.sent \in Seq(Known(Len(log')))
      BY <1>2
    <2> QED BY <1>1, <1>2, <1>3, <1>4, <1>5, <1>8, <1>10, <2>1, <2>2, <2>3 DEF PastInv
  <1>12. [R!Next]_(R!vars)
    <2>1. /\ position \in 0..Len(log) /\ Len(log) \in Nat
      BY <1>5 DEF Given
    <2>2. f \in 0..Len(log) /\ f >= position
      BY <1>7, <2>1
    <2>3. CASE o = R!Nothing
      BY <1>1, <1>4, <1>7, <2>3 DEF R!Next, R!Forgets
    <2>4. CASE o = R!StateAt(f)
      BY <1>1, <1>4, <2>2, <2>4 DEF R!Next, R!Follows
    <2> QED BY <1>7, <2>3, <2>4
  <1> QED BY <1>11, <1>12

(* The server writes: the store does not show it yet. *)
LEMMA ServerWritesPast ==
    ASSUME PastInv, NEW w \in R!Write, ServerWrites(w)
    PROVE  PastInv' /\ [R!Next]_(R!vars)
  <1>1. UNCHANGED <<store, watch, lease, position>> /\ log' = Append(log, w)
    BY DEF ServerWrites, history
  <1>2. PICK o, f, cs, n : /\ o = store.objects /\ f = position /\ cs = Changes
                           /\ n = watch.at
    OBVIOUS
  <1>3. o = store'.objects /\ f = position' /\ cs = Changes' /\ n = watch'.at
    BY <1>1, <1>2 DEF Changes
  <1>4. Given(o, f, cs)
    BY <1>2 DEF PastInv
  <1>5. /\ Given(o, f, cs)' /\ Final(o, cs)' = Final(o, cs)
        /\ \A l \in 0..Len(log) : R!StateAt(l)' = R!StateAt(l)
        /\ Known(Len(log)) \subseteq Known(Len(log'))
    BY <1>1, <1>4, PastGrows
  <1>6. /\ watch'.sent \in Seq(Known(Len(log'))) /\ watch'.pending \in Seq(Known(Len(log')))
    BY <1>1, <1>5, SeqMonotonic DEF PastInv
  <1>7. ASSUME watch.stream = "watching"
        PROVE  Reaches(f, cs) = n /\ Final(o, cs)' = R!StateAt(n)'
    <2>1. Reaches(f, cs) = n /\ Final(o, cs) = R!StateAt(n)
      BY <1>2, <1>7 DEF PastInv
    <2>2. Len(log) \in Nat /\ Len(cs) \in 0..Len(cs) /\ f \in 0..Len(log)
      BY <1>4 DEF Given
    <2>3. n \in f..Len(log)
      BY <1>4, <2>1, <2>2 DEF Given, Past, Reaches
    <2>4. n \in 0..Len(log)
      BY <2>2, <2>3
    <2> QED BY <1>5, <2>1, <2>4
  <1>8. PastInv'
    BY <1>1, <1>3, <1>5, <1>6, <1>7 DEF PastInv
  <1>9. [R!Next]_(R!vars)
    BY <1>1 DEF ServerWrites, R!Next, R!Writes
  <1> QED BY <1>8, <1>9

(* A watch that starts or stops has nothing on its way. *)
LEMMA FreshWatch ==
    /\ Off.sent = <<>> /\ Off.pending = <<>> /\ Off.stream # "watching"
    /\ \A client : /\ Running(client).sent = <<>> /\ Running(client).pending = <<>>
                   /\ Running(client).stream # "watching"
  BY DEF Off, Running

(* `ensure_running` keeps the objects. *)
LEMMA EnsureRunningPast ==
    ASSUME PastInv, UNCHANGED <<log, position>>, NEW s, s \in StoreType(s),
           EnsureRunning(s), lease'.open,
           \/ s.objects = store.objects
           \/ s.objects = R!Nothing /\ watch = Off
    PROVE  PastInv' /\ [R!Next]_(R!vars)
  <1>1. CASE Keeps(s)
    BY <1>1, QuietPast, FreshWatch DEF Keeps
  <1>2. ASSUME NEW status, Stops(s, status)
        PROVE  PastInv' /\ [R!Next]_(R!vars)
    <2>1. store'.objects = s.objects /\ watch' = Off
      BY <1>2 DEF Stops, StoreType
    <2> QED BY <2>1, QuietPast, FreshWatch
  <1>3. CASE /\ store' = [s EXCEPT !.running = TRUE, !.status = "Loading"]
             /\ watch' = Running(Client')
    <2>1. store'.objects = s.objects
      BY <1>3 DEF StoreType
    <2> QED BY <1>3, <2>1, QuietPast, FreshWatch
  <1>4. CASE s.paused
    BY <1>1, <1>4 DEF EnsureRunning
  <1>5. CASE ~s.paused /\ Client' = 0
    BY <1>1, <1>2, <1>5 DEF EnsureRunning
  <1>6. CASE ~s.paused /\ Client' # 0
    BY <1>1, <1>2, <1>3, <1>6 DEF EnsureRunning
  <1> QED BY <1>4, <1>5, <1>6

(* The connection changes: the objects stay until something is applied. *)
LEMMA ConnectionPast ==
    ASSUME Shape, PastInv, NEW rediscovered \in BOOLEAN, ConnectionChanged(rediscovered)
    PROVE  PastInv' /\ [R!Next]_(R!vars)
  <1>1. UNCHANGED <<log, position, lease>> /\ store \in StoreType(store)
    BY DEF ConnectionChanged, Shape
  <1>2. CASE moved \/ ~lease.open
    BY <1>1, <1>2, QuietPast DEF ConnectionChanged, Keeps, PastInv
  <1>3. CASE ~moved /\ lease.open
    <2>1. PICK s : s = IF rediscovered /\ store.status = "Unsupported"
                       THEN [store EXCEPT !.running = FALSE] ELSE store
      OBVIOUS
    <2>2. EnsureRunning(s)
      BY <1>3, <2>1 DEF ConnectionChanged
    <2>3. s \in StoreType(s) /\ s.objects = store.objects
      BY <1>1, <2>1 DEF StoreType
    <2> QED BY <1>1, <1>3, <2>2, <2>3, EnsureRunningPast
  <1> QED BY <1>2, <1>3

(* `pause` and `resume` keep the objects. *)
LEMMA PausePast ==
    ASSUME Shape, RunInv, PastInv, Pause \/ Resume
    PROVE  PastInv' /\ [R!Next]_(R!vars)
  <1>1. UNCHANGED <<log, position, lease>> /\ store \in StoreType(store) /\ lease.open
    BY DEF Shape, RunInv, Pause, Resume
  <1>2. CASE Pause
    <2>1. store'.objects = store.objects /\ watch' = Off
      BY <1>1, <1>2 DEF Pause, Stops, StoreType
    <2> QED BY <1>1, <2>1, QuietPast, FreshWatch
  <1>3. CASE Resume
    <2>1. PICK s : s = [store EXCEPT !.paused = FALSE, !.status = "Waiting"]
      OBVIOUS
    <2>2. EnsureRunning(s) /\ s \in StoreType(s) /\ s.objects = store.objects
      BY <1>1, <1>3, <2>1 DEF Resume, StoreType
    <2> QED BY <1>1, <2>2, EnsureRunningPast
  <1> QED BY <1>2, <1>3

(* A new store shows nothing; handles come and go without being seen. *)
LEMMA LeasePast ==
    ASSUME Shape, PastInv, Acquire \/ Release \/ Sweep
    PROVE  PastInv' /\ [R!Next]_(R!vars)
  <1>1. UNCHANGED <<log, position>> /\ lease \in LeaseType
    BY DEF Shape, Acquire, Release, Sweep
  <1>2. CASE Acquire
    <2>1. CASE lease.open
      <3>1. UNCHANGED <<store, watch>> /\ lease'.open
        BY <1>1, <1>2, <2>1 DEF Acquire, Keeps, LeaseType
      <3> QED BY <1>1, <3>1, QuietPast
    <2>2. CASE ~lease.open
      <3>1. EnsureRunning(New) /\ lease'.open /\ watch = Off
        BY <1>2, <2>2 DEF Acquire, PastInv
      <3>2. New.objects = R!Nothing
        BY DEF New
      <3> QED BY <1>1, <3>1, <3>2, NewOK, EnsureRunningPast
    <2> QED BY <2>1, <2>2
  <1>3. CASE Release
    <2>1. UNCHANGED <<store, watch>> /\ lease'.open = lease.open
      BY <1>1, <1>3 DEF Release, LeaseType
    <2> QED BY <1>1, <2>1, QuietPast DEF PastInv
  <1>4. CASE Sweep
    <2>1. CASE UNCHANGED <<store, watch>> /\ lease'.open = lease.open
      BY <1>1, <2>1, QuietPast DEF PastInv
    <2>2. CASE Drops
      <3>1. watch' = Off /\ store'.objects = R!Nothing
        BY <2>2 DEF Drops, New
      <3> QED BY <1>1, <3>1, QuietPast, FreshWatch
    <2>3. \/ UNCHANGED <<store, watch>> /\ lease'.open = lease.open
          \/ Drops
      BY <1>1, <1>4 DEF Sweep, Keeps, LeaseType
    <2> QED BY <2>1, <2>2, <2>3
  <1> QED BY <1>2, <1>3, <1>4

(* Every step keeps what is on its way in order, and is a step of Replica   *)
(* or changes nothing of it.                                                *)
LEMMA InductivePast ==
    ASSUME IInv, PastInv, [Next]_vars
    PROVE  PastInv' /\ [R!Next]_(R!vars)
  <1>1. Shape /\ RunInv
    BY DEF IInv
  <1>2. CASE UNCHANGED vars
    BY <1>2, QuietPast DEF vars, history, PastInv
  <1>3. CASE Moves
    BY <1>3, QuietPast DEF Moves, history, PastInv
  <1>4. CASE Attempts \/ Connects \/ PingFails \/ PingWorks
             \/ \E served \in BOOLEAN : Discovers(served)
    BY <1>1, <1>4, ConnectionPast DEF Attempts, Connects, PingFails, PingWorks, Discovers
  <1>5. CASE Stream
    BY <1>1, <1>5, WatchInitPast, WatchListsPast, WatchDeliversPast, FrameEndsPast
       DEF Stream
  <1>6. CASE Next
    BY <1>1, <1>3, <1>4, <1>5, <1>6, ServerWritesPast, WatchFailsPast, WatchRefusedPast,
       TakeBatchesPast, PausePast, LeasePast DEF Next
  <1> QED BY <1>2, <1>6

(* Nothing was written and nothing is on its way. *)
LEMMA InitPast == Init => PastInv /\ R!Init
  <1> SUFFICES ASSUME Init
               PROVE  PastInv /\ R!Init
    OBVIOUS
  <1>1. /\ log = <<>> /\ position = 0 /\ store.objects = R!Nothing /\ lease.open
        /\ watch.sent = <<>> /\ watch.pending = <<>> /\ watch.stream # "watching"
    BY FreshWatch DEF Init, New
  <1>2. log \in Seq(R!Write) /\ Len(log) = 0
    BY <1>1
  <1>3. Changes = <<>>
    BY <1>1 DEF Changes
  <1>4. Given(store.objects, position, <<>>)
    BY <1>1, <1>2, PastNone
  <1> QED BY <1>1, <1>3, <1>4 DEF PastInv, R!Init

(* The store implements Replica: whatever errors, refusals, reconnects,     *)
(* pauses and drops come between the stream, `pump` and the host, what it   *)
(* shows is nothing or the objects of one moment of the server, and the     *)
(* moments never go back.                                                   *)
THEOREM AlwaysShowsThePast == Spec => ShowsThePast
  <1>1. Init => R!Init
    BY InitPast
  <1>2. Init => PastInv
    BY InitPast
  <1>3. IInv /\ PastInv /\ [Next]_vars => PastInv' /\ [R!Next]_(R!vars)
    BY InductivePast
  <1> QED BY <1>1, <1>2, <1>3, Invariance, PTL DEF Spec, ShowsThePast, R!Spec

-----------------------------------------------------------------------------
(* The other thing that is followed over reconnects: the logs of a pod      *)
(* (module LogStreams).                                                     *)
HIDE StoreAssumption

CONSTANTS TailLines, Merge(_), MaxLines, MaxTime, MaxRuns, MaxBreaks
VARIABLES now, pod, task, merge, breaks

L == INSTANCE LogStreams

-----------------------------------------------------------------------------
(* The types of lines and tasks. *)
LineType == [run : Nat, index : Nat, ts : Nat, of : L!Containers, strayed : BOOLEAN]

TaskType == [phase : L!Phases, first : BOOLEAN, retry : BOOLEAN, gone : BOOLEAN,
             ended : BOOLEAN, instance : Nat \union {None}, last : Nat \union {None},
             atLast : Nat, run : Nat, pos : Nat, seen : Nat]

(* The logs of a container's n runs are in the order of time, and no two    *)
(* runs have an instant in common.                                          *)
InTime(ls, n, time) ==
    /\ n \in Nat /\ n >= 1 /\ time \in Nat /\ Len(ls) = n /\ ls \in Seq(Seq(Nat))
    /\ \A r \in 1..n : \A i \in 1..Len(ls[r]) :
          /\ ls[r][i] <= time
          /\ r < n => ls[r][i] < time
          /\ \A j \in 1..Len(ls[r]) : i <= j => ls[r][i] <= ls[r][j]
          /\ \A q \in 1..n : r < q => \A j \in 1..Len(ls[q]) : ls[r][i] < ls[q][j]

(* The lines that were shown or wait for the merge are lines of the logs. *)
AreLines(c, view, ls, n) ==
    /\ view \in Seq(LineType)
    /\ \A i \in 1..Len(view) :
          /\ view[i].of = c
          /\ view[i].run \in 1..n /\ view[i].index \in 1..Len(ls[view[i].run])
          /\ view[i].ts = ls[view[i].run][view[i].index]

LoneLine(ls, line) == Lone(ls[line.run], line.index)

InOrder(view, ls) == \A j \in 1..Len(view) : \A i \in 1..(j - 1) :
    \/ Earlier(view[i], view[j]) \/ view[i].strayed \/ view[j].strayed
    \/ ~LoneLine(ls, view[i]) \/ ~LoneLine(ls, view[j])

Has(view, n, k) == \E i \in 1..Len(view) : view[i].run = n /\ view[i].index = k

Gapless(view, ls) == \A j \in 1..Len(view) : \A i \in 1..(j - 1) :
    view[i].run = view[j].run /\ ~view[i].strayed =>
        \A k \in (view[i].index + 1)..(view[j].index - 1) :
            Lone(ls[view[i].run], k) => Has(view, view[i].run, k)

(* A line of run n, of the pod the task follows. *)
Own(line, n) == line.run = n /\ ~line.strayed

(* Of run n, whose log it is, the task has shown what is not later than     *)
(* `last`, from the first line it has shown.                                *)
UpToLast(view, n, rows, t) == \A i \in 1..Len(view) : Own(view[i], n) =>
    /\ t.last # None /\ view[i].ts <= t.last
    /\ \A k \in 1..Len(rows) :
          view[i].index < k /\ rows[k] <= t.last /\ Lone(rows, k) => Has(view, n, k)

(* The same of what a connection has passed. *)
UpToPos(view, n, rows, t) == t.phase = "streaming" /\ t.run = n =>
    /\ t.pos >= 1 /\ t.pos <= Len(rows) + 1
    /\ t.seen > 0 => \E q \in 1..Len(rows) : q < t.pos /\ rows[q] = t.last
    /\ \A i \in 1..Len(view) : Own(view[i], n) => \A k \in 1..Len(rows) :
          view[i].index < k /\ k < t.pos /\ Lone(rows, k) => Has(view, n, k)

(* `Resume` has the time of a line. *)
Resumes(ls, n, t) ==
    /\ t.last # None => /\ t.atLast >= 1
                        /\ \E r \in 1..n : \E q \in 1..Len(ls[r]) : ls[r][q] = t.last
    /\ t.first => t.last = None /\ t.phase # "streaming"
    /\ t.run <= n

(* A task whose pod was replaced has shown nothing of the new one as its    *)
(* own.                                                                     *)
Strays(t, uid) == t.gone \/ t.instance \notin {None, uid}

OfPod(view, n, t, uid, there) ==
    /\ uid \in Nat /\ there \in BOOLEAN
    /\ t.instance # None => t.instance <= uid
    /\ Strays(t, uid) /\ there => \A i \in 1..Len(view) : ~Own(view[i], n)

Begins(view, t) == t.phase = "fetching" => t = L!NewTask /\ view = <<>>

FollowsLog(c, view, ls, n, t, time, uid, there) ==
    /\ t \in TaskType
    /\ InTime(ls, n, time) /\ AreLines(c, view, ls, n)
    /\ InOrder(view, ls) /\ Gapless(view, ls)
    /\ UpToLast(view, n, ls[n], t) /\ UpToPos(view, n, ls[n], t)
    /\ Resumes(ls, n, t) /\ OfPod(view, n, t, uid, there) /\ Begins(view, t)

(* What the view has of a container, or gets with the merge. *)
View(c) == IF merge.flushed THEN shown[c] ELSE merge.got[c]

-----------------------------------------------------------------------------
(* A container or its pod starts over. *)
LEMMA NewRun ==
    ASSUME NEW c, NEW view, NEW ls, NEW n, NEW t, NEW time, NEW uid, NEW there,
           FollowsLog(c, view, ls, n, t, time, uid, there),
           NEW u \in Nat, u >= uid, NEW th \in BOOLEAN
    PROVE  FollowsLog(c, view, Append(ls, <<>>), n + 1, t, time + 1, u, th)
  <1>1. /\ ls \in Seq(Seq(Nat)) /\ n \in Nat /\ n >= 1 /\ time \in Nat /\ Len(ls) = n
        /\ t \in TaskType
    BY DEF FollowsLog, InTime
  <1>2. PICK ms \in Seq(Seq(Nat)) :
             /\ ms = Append(ls, <<>>) /\ Len(ms) = n + 1 /\ ms[n + 1] = <<>>
             /\ \A r \in 1..n : ms[r] = ls[r]
    <2> DEFINE ms == Append(ls, <<>>)
    <2>1. /\ ms \in Seq(Seq(Nat)) /\ Len(ms) = n + 1 /\ ms[n + 1] = <<>>
          /\ \A r \in 1..n : ms[r] = ls[r]
      BY <1>1
    <2> QED BY <2>1
  <1>3. InTime(ms, n + 1, time + 1)
    <2>1. \A r \in 1..n : \A i \in 1..Len(ls[r]) : ls[r][i] \in Nat
      BY <1>1, ElementOfSeq
    <2>2. \A r \in 1..(n + 1) : \A i \in 1..Len(ms[r]) :
             r \in 1..n /\ i \in 1..Len(ls[r]) /\ ms[r] = ls[r]
      BY <1>1, <1>2
    <2>3. ASSUME NEW r \in 1..(n + 1), NEW i \in 1..Len(ms[r])
          PROVE  /\ ms[r][i] <= time + 1 /\ ms[r][i] < time + 1
                 /\ \A j \in 1..Len(ms[r]) : i <= j => ms[r][i] <= ms[r][j]
                 /\ \A q \in 1..(n + 1) : r < q =>
                        \A j \in 1..Len(ms[q]) : ms[r][i] < ms[q][j]
      <3>1. r \in 1..n /\ i \in 1..Len(ls[r]) /\ ms[r] = ls[r] /\ ls[r][i] \in Nat
        BY <2>1, <2>2
      <3>2. ms[r][i] <= time
        BY <3>1 DEF FollowsLog, InTime
      <3>3. \A j \in 1..Len(ms[r]) : i <= j => ms[r][i] <= ms[r][j]
        BY <3>1 DEF FollowsLog, InTime
      <3>4. ASSUME NEW q \in 1..(n + 1), r < q, NEW j \in 1..Len(ms[q])
            PROVE  ms[r][i] < ms[q][j]
        BY <2>2, <3>1, <3>4 DEF FollowsLog, InTime
      <3>5. ms[r][i] <= time + 1 /\ ms[r][i] < time + 1
        <4>1. PICK x \in Nat : x = ms[r][i]
          BY <3>1
        <4>2. time \in Nat /\ x <= time
          BY <1>1, <3>2, <4>1
        <4>3. x <= time + 1 /\ x < time + 1
          BY <4>2
        <4> QED BY <4>1, <4>3
      <3> QED BY <3>3, <3>4, <3>5
    <2> QED BY <1>1, <1>2, <2>3 DEF InTime
  <1>4. AreLines(c, view, ms, n + 1)
    BY <1>1, <1>2 DEF FollowsLog, AreLines
  <1>5. \A i \in 1..Len(view) : ms[view[i].run] = ls[view[i].run] /\ view[i].run \in 1..n
    BY <1>2 DEF FollowsLog, AreLines
  <1>6. InOrder(view, ms)
    <2>1. \A i \in 1..Len(view) : LoneLine(ms, view[i]) = LoneLine(ls, view[i])
      BY <1>5 DEF LoneLine
    <2> QED BY <2>1 DEF FollowsLog, InOrder
  <1>7. Gapless(view, ms)
    BY <1>5 DEF FollowsLog, Gapless
  <1>8. \A i \in 1..Len(view) : ~Own(view[i], n + 1)
    BY <1>1, <1>5 DEF Own
  <1>9. UpToLast(view, n + 1, <<>>, t) /\ OfPod(view, n + 1, t, u, th)
    BY <1>1, <1>8 DEF UpToLast, OfPod, FollowsLog, TaskType
  <1>10. t.run <= n /\ t.run \in Nat
    BY <1>1 DEF FollowsLog, Resumes, TaskType
  <1>11. UpToPos(view, n + 1, <<>>, t)
    BY <1>1, <1>10 DEF UpToPos
  <1>12. Resumes(ms, n + 1, t)
    <2>1. t.last # None => t.atLast >= 1
      BY DEF FollowsLog, Resumes
    <2>2. t.first => t.last = None /\ t.phase # "streaming"
      BY DEF FollowsLog, Resumes
    <2>3. ASSUME t.last # None
          PROVE  \E r \in 1..(n + 1) : \E q \in 1..Len(ms[r]) : ms[r][q] = t.last
      <3>1. PICK r \in 1..n : \E q \in 1..Len(ls[r]) : ls[r][q] = t.last
        BY <2>3 DEF FollowsLog, Resumes
      <3>2. r \in 1..(n + 1) /\ ms[r] = ls[r]
        BY <1>1, <1>2
      <3> QED BY <3>1, <3>2
    <2> QED BY <1>1, <1>10, <2>1, <2>2, <2>3 DEF Resumes
  <1> QED BY <1>1, <1>2, <1>3, <1>4, <1>6, <1>7, <1>9, <1>11, <1>12 DEF FollowsLog

(* A container writes. *)
Written(ls, n, ts, ms) == ms = [ls EXCEPT ![n] = Append(ls[n], ts)]

(* What is known of its lines is known of the log with the new one: if that *)
(* has the time of the last one shown, it is not the only one.              *)
LEMMA NewLine ==
    ASSUME NEW c, NEW view, NEW ls, NEW n, NEW t, NEW time, NEW uid, NEW there,
           FollowsLog(c, view, ls, n, t, time, uid, there), None \notin Nat,
           NEW ts \in Nat, ts >= time,
           NEW ms, Written(ls, n, ts, ms)
    PROVE  FollowsLog(c, view, ms, n, t, ts, uid, there)
  <1>1. /\ ls \in Seq(Seq(Nat)) /\ n \in Nat /\ n >= 1 /\ time \in Nat /\ Len(ls) = n
        /\ t \in TaskType
    BY DEF FollowsLog, InTime
  <1>2. /\ ms \in Seq(Seq(Nat)) /\ Len(ms) = n /\ ms[n] = Append(ls[n], ts)
        /\ \A r \in 1..n : r # n => ms[r] = ls[r]
    <2>1. ls[n] \in Seq(Nat) /\ n \in 1..Len(ls)
      BY <1>1, ElementOfSeq
    <2>2. Append(ls[n], ts) \in Seq(Nat)
      BY <2>1
    <2> QED BY <1>1, <2>1, <2>2, ExceptSeq DEF Written
  <1>3. PICK rows \in Seq(Nat) : rows = ls[n]
    BY <1>1, ElementOfSeq
  <1>4. PICK m \in Nat : m = Len(rows)
    BY LenProperties
  <1>5. PICK new \in Seq(Nat) : /\ new = ms[n] /\ Len(new) = m + 1 /\ new[m + 1] = ts
                                /\ \A i \in 1..m : new[i] = rows[i]
    <2> DEFINE new == Append(rows, ts)
    <2>1. /\ new \in Seq(Nat) /\ Len(new) = m + 1 /\ new[m + 1] = ts
          /\ \A i \in 1..m : new[i] = rows[i]
      BY <1>3, <1>4, AppendProperties
    <2> QED BY <1>2, <1>3, <2>1
  <1>6. \A r \in 1..n : \A i \in 1..Len(ls[r]) :
           i \in 1..Len(ms[r]) /\ ms[r][i] = ls[r][i] /\ ls[r][i] \in Nat
    <2> TAKE r \in 1..n
    <2> TAKE i \in 1..Len(ls[r])
    <2>1. CASE r = n
      <3>1. ls[r] = rows /\ ms[r] = new
        BY <1>3, <1>5, <2>1
      <3>2. i \in 1..m
        BY <1>4, <3>1
      <3>3. rows[i] \in Nat
        BY <1>4, <3>2, ElementOfSeq
      <3>4. i \in 1..(m + 1)
        BY <3>2
      <3> QED BY <1>5, <3>1, <3>2, <3>3, <3>4
    <2>2. CASE r # n
      BY <1>1, <1>2, <2>2, ElementOfSeq
    <2> QED BY <2>1, <2>2
  <1>7. \A r \in 1..n : \A i \in 1..Len(ls[r]) : Lone(ms[r], i) => Lone(ls[r], i)
    <2> SUFFICES ASSUME NEW r \in 1..n, NEW i \in 1..Len(ls[r]), Lone(ms[r], i),
                        NEW j \in DOMAIN ls[r], j # i
                 PROVE  ls[r][j] # ls[r][i]
      BY DEF Lone
    <2>1. /\ ls[r] \in Seq(Nat) /\ ms[r] \in Seq(Nat) /\ DOMAIN ls[r] = 1..Len(ls[r])
          /\ DOMAIN ms[r] = 1..Len(ms[r])
      BY <1>1, <1>2, ElementOfSeq, LenProperties
    <2> QED BY <1>6, <2>1 DEF Lone
  <1>8. \A r \in 1..n : \A i \in 1..Len(ms[r]) :
           \/ i \in 1..Len(ls[r]) /\ ms[r][i] = ls[r][i]
           \/ r = n /\ i = m + 1 /\ ms[r][i] = ts
    <2> TAKE r \in 1..n
    <2> TAKE i \in 1..Len(ms[r])
    <2>1. CASE r = n
      <3>1. ls[r] = rows /\ ms[r] = new
        BY <1>3, <1>5, <2>1
      <3>2. i \in 1..(m + 1)
        BY <1>5, <3>1
      <3>3. CASE i \in 1..m
        BY <1>4, <1>5, <3>1, <3>3
      <3>4. CASE i = m + 1
        BY <1>5, <2>1, <3>1, <3>4
      <3> QED BY <3>2, <3>3, <3>4
    <2>2. CASE r # n
      BY <1>1, <1>2, <2>2
    <2> QED BY <2>1, <2>2
  <1>9. InTime(ms, n, ts)
    <2>1. ASSUME NEW r \in 1..n, NEW i \in 1..Len(ms[r])
          PROVE  /\ ms[r][i] <= ts
                 /\ r < n => ms[r][i] < ts
                 /\ \A j \in 1..Len(ms[r]) : i <= j => ms[r][i] <= ms[r][j]
                 /\ \A q \in 1..n : r < q => \A j \in 1..Len(ms[q]) : ms[r][i] < ms[q][j]
      <3>1. CASE i \in 1..Len(ls[r]) /\ ms[r][i] = ls[r][i]
        <4>1. ls[r][i] \in Nat /\ ls[r][i] <= time /\ (r < n => ls[r][i] < time)
          BY <1>6, <3>1 DEF FollowsLog, InTime
        <4>2. ASSUME NEW j \in 1..Len(ms[r]), i <= j
              PROVE  ms[r][i] <= ms[r][j]
          <5>1. CASE j \in 1..Len(ls[r]) /\ ms[r][j] = ls[r][j]
            BY <3>1, <4>2, <5>1 DEF FollowsLog, InTime
          <5>2. CASE ms[r][j] = ts
            BY <1>1, <3>1, <4>1, <5>2
          <5> QED BY <1>8, <5>1, <5>2
        <4>3. ASSUME NEW q \in 1..n, r < q, NEW j \in 1..Len(ms[q])
              PROVE  ms[r][i] < ms[q][j]
          <5>1. CASE j \in 1..Len(ls[q]) /\ ms[q][j] = ls[q][j]
            BY <3>1, <4>3, <5>1 DEF FollowsLog, InTime
          <5>2. CASE ms[q][j] = ts
            BY <1>1, <3>1, <4>1, <4>3, <5>2
          <5> QED BY <1>8, <5>1, <5>2
        <4> QED BY <1>1, <3>1, <4>1, <4>2, <4>3
      <3>2. CASE r = n /\ i = m + 1 /\ ms[r][i] = ts
        <4>1. \A j \in 1..Len(ms[r]) : i <= j => j = i
          BY <1>5, <3>2
        <4> QED BY <1>1, <3>2, <4>1
      <3> QED BY <1>8, <3>1, <3>2
    <2> QED BY <1>1, <1>2, <2>1 DEF InTime
  <1>10. AreLines(c, view, ms, n)
    BY <1>6 DEF FollowsLog, AreLines
  <1>11. InOrder(view, ms)
    <2>1. \A i \in 1..Len(view) : LoneLine(ms, view[i]) => LoneLine(ls, view[i])
      BY <1>7 DEF LoneLine, FollowsLog, AreLines
    <2> QED BY <2>1 DEF FollowsLog, InOrder
  <1>12. Gapless(view, ms)
    <2> SUFFICES ASSUME NEW j \in 1..Len(view), NEW i \in 1..(j - 1),
                        view[i].run = view[j].run, ~view[i].strayed,
                        NEW k \in (view[i].index + 1)..(view[j].index - 1),
                        Lone(ms[view[i].run], k)
                 PROVE  Has(view, view[i].run, k)
      BY DEF Gapless
    <2>1. /\ view[i].run \in 1..n /\ view[i].index \in Nat
          /\ view[j].index \in 1..Len(ls[view[j].run])
      <3>1. Len(view) \in Nat
        BY LenProperties DEF FollowsLog, AreLines
      <3>2. i \in 1..Len(view)
        BY <3>1
      <3>3. AreLines(c, view, ls, n)
        BY DEF FollowsLog
      <3>4. /\ view[i].run \in 1..n /\ view[i].index \in 1..Len(ls[view[i].run])
            /\ view[j].index \in 1..Len(ls[view[j].run])
        BY <3>2, <3>3 DEF AreLines
      <3> QED BY <3>4
    <2>2. k \in 1..Len(ls[view[i].run])
      <3>1. Len(ls[view[i].run]) \in Nat
        BY <1>1, <2>1, ElementOfSeq, LenProperties
      <3> QED BY <2>1, <3>1
    <2> QED BY <1>7, <2>1, <2>2 DEF FollowsLog, Gapless
  <1>13. \A k \in 1..(m + 1) : Lone(new, k) =>
            \/ k \in 1..m /\ Lone(rows, k) /\ new[k] = rows[k]
            \/ k = m + 1 /\ new[k] = ts /\ \A q \in 1..m : rows[q] # ts
    <2> TAKE k \in 1..(m + 1)
    <2> HAVE Lone(new, k)
    <2>1. CASE k \in 1..m
      BY <1>1, <1>3, <1>4, <1>5, <1>7, <2>1
    <2>2. CASE k = m + 1
      <3>1. \A q \in 1..m : q \in DOMAIN new /\ q # k /\ new[q] = rows[q]
        BY <1>5, <2>2, LenProperties
      <3> QED BY <1>5, <2>2, <3>1 DEF Lone
    <2> QED BY <2>1, <2>2
  <1>14. UpToLast(view, n, new, t)
    <2> SUFFICES ASSUME NEW i \in 1..Len(view), Own(view[i], n)
                 PROVE  /\ t.last # None /\ view[i].ts <= t.last
                        /\ \A k \in 1..(m + 1) :
                             view[i].index < k /\ new[k] <= t.last /\ Lone(new, k)
                             => Has(view, n, k)
      BY <1>5 DEF UpToLast
    <2>1. /\ t.last # None /\ view[i].ts <= t.last
          /\ \A k \in 1..m : view[i].index < k /\ rows[k] <= t.last /\ Lone(rows, k)
                 => Has(view, n, k)
      BY <1>3, <1>4 DEF FollowsLog, UpToLast
    <2>2. PICK r \in 1..n : \E q \in 1..Len(ls[r]) : ls[r][q] = t.last
      BY <2>1 DEF FollowsLog, Resumes
    <2>3. PICK q \in 1..Len(ls[r]) : ls[r][q] = t.last
      BY <2>2
    <2>4. /\ view[i].run = n /\ view[i].index \in 1..Len(ls[n])
          /\ view[i].ts = ls[n][view[i].index]
      BY DEF FollowsLog, AreLines, Own
    <2>5. r = n
      <3> SUFFICES ASSUME r < n PROVE FALSE
        BY <1>1
      <3>1. n \in 1..n
        BY <1>1
      <3>2. InTime(ls, n, time)
        BY DEF FollowsLog
      <3>3. ls[r][q] < ls[n][view[i].index]
        BY <2>3, <2>4, <3>1, <3>2 DEF InTime
      <3>4. ls[r][q] \in Nat /\ ls[n][view[i].index] \in Nat
        BY <1>6, <2>3, <2>4, <3>1
      <3> QED BY <2>1, <2>3, <2>4, <3>3, <3>4
    <2>6. q \in 1..m /\ rows[q] = t.last /\ rows[q] \in Nat /\ rows[q] <= ts
      <3>1. ls[n][q] <= time /\ ls[n][q] \in Nat
        BY <1>6, <2>2, <2>3, <2>5 DEF FollowsLog, InTime
      <3> QED BY <1>1, <1>3, <1>4, <2>3, <2>5, <3>1
    <2>7. ASSUME NEW k \in 1..(m + 1), view[i].index < k, new[k] <= t.last, Lone(new, k)
          PROVE  Has(view, n, k)
      <3>1. CASE k \in 1..m /\ Lone(rows, k) /\ new[k] = rows[k]
        BY <2>1, <2>7, <3>1
      <3>2. CASE k = m + 1 /\ new[k] = ts /\ \A x \in 1..m : rows[x] # ts
        <4>1. ts <= rows[q] /\ rows[q] # ts
          BY <2>6, <2>7, <3>2
        <4> QED BY <2>6, <4>1
      <3> QED BY <1>13, <2>7, <3>1, <3>2
    <2> QED BY <2>1, <2>7
  <1>15. UpToPos(view, n, new, t)
    <2> SUFFICES ASSUME t.phase = "streaming", t.run = n
                 PROVE  /\ t.pos >= 1 /\ t.pos <= m + 1 + 1
                        /\ t.seen > 0 => \E q \in 1..(m + 1) : q < t.pos /\ new[q] = t.last
                        /\ \A i \in 1..Len(view) : Own(view[i], n) => \A k \in 1..(m + 1) :
                             view[i].index < k /\ k < t.pos /\ Lone(new, k)
                                 => Has(view, n, k)
      BY <1>5 DEF UpToPos
    <2>1. /\ t.pos \in Nat /\ t.pos >= 1 /\ t.pos <= m + 1
          /\ t.seen > 0 => \E q \in 1..m : q < t.pos /\ rows[q] = t.last
          /\ \A i \in 1..Len(view) : Own(view[i], n) => \A k \in 1..m :
                view[i].index < k /\ k < t.pos /\ Lone(rows, k) => Has(view, n, k)
      BY <1>1, <1>3, <1>4 DEF FollowsLog, UpToPos, TaskType
    <2>2. ASSUME t.seen > 0
          PROVE  \E q \in 1..(m + 1) : q < t.pos /\ new[q] = t.last
      <3>1. PICK q \in 1..m : q < t.pos /\ rows[q] = t.last
        BY <2>1, <2>2
      <3>2. q \in 1..(m + 1) /\ new[q] = rows[q]
        BY <1>5
      <3> QED BY <3>1, <3>2
    <2>3. \A i \in 1..Len(view) : Own(view[i], n) => \A k \in 1..(m + 1) :
             view[i].index < k /\ k < t.pos /\ Lone(new, k) => Has(view, n, k)
      <3> SUFFICES ASSUME NEW i \in 1..Len(view), Own(view[i], n), NEW k \in 1..(m + 1),
                          view[i].index < k, k < t.pos, Lone(new, k)
                   PROVE  Has(view, n, k)
        OBVIOUS
      <3>1. k \in 1..m
        BY <2>1
      <3>2. Lone(rows, k)
        BY <1>13, <3>1
      <3> QED BY <2>1, <3>1, <3>2
    <2>4. t.pos <= m + 1 + 1
      BY <2>1
    <2> QED BY <2>1, <2>2, <2>3, <2>4, Zenon
  <1>16. Resumes(ms, n, t)
    BY <1>6 DEF FollowsLog, Resumes
  <1> QED BY <1>1, <1>5, <1>9, <1>10, <1>11, <1>12, <1>14, <1>15, <1>16 DEF FollowsLog

(* The pod is deleted. *)
LEMMA PodGoes ==
    ASSUME NEW c, NEW view, NEW ls, NEW n, NEW t, NEW time, NEW uid, NEW there,
           FollowsLog(c, view, ls, n, t, time, uid, there)
    PROVE  FollowsLog(c, view, ls, n, t, time, uid, FALSE)
  BY DEF FollowsLog, OfPod

(* A task that does not stream, and knows what it knew. *)
LEMMA NotStreaming ==
    ASSUME NEW c, NEW view, NEW ls, NEW n, NEW t, NEW time, NEW uid, NEW there,
           FollowsLog(c, view, ls, n, t, time, uid, there),
           NEW u \in TaskType, u.phase \notin {"streaming", "fetching"},
           u.last = t.last, u.atLast = t.atLast, u.first => t.first,
           u.run <= n, u.gone = t.gone, u.instance = t.instance
    PROVE  FollowsLog(c, view, ls, n, u, time, uid, there)
  <1>1. UpToLast(view, n, ls[n], u)
    BY DEF FollowsLog, UpToLast
  <1>2. UpToPos(view, n, ls[n], u) /\ Begins(view, u)
    BY DEF UpToPos, Begins
  <1>3. Resumes(ls, n, u)
    BY DEF FollowsLog, Resumes
  <1>4. OfPod(view, n, u, uid, there)
    BY DEF FollowsLog, OfPod, Strays
  <1> QED BY <1>1, <1>2, <1>3, <1>4 DEF FollowsLog

(* A task finds that its pod is gone. *)
LEMMA FindsNone ==
    ASSUME NEW c, NEW view, NEW ls, NEW n, NEW t, NEW time, NEW uid,
           FollowsLog(c, view, ls, n, t, time, uid, FALSE),
           NEW u \in TaskType, u.phase = "looking",
           u.last = t.last, u.atLast = t.atLast, u.first = t.first,
           u.run = t.run, u.instance = t.instance
    PROVE  FollowsLog(c, view, ls, n, u, time, uid, FALSE)
  <1>1. UpToLast(view, n, ls[n], u)
    BY DEF FollowsLog, UpToLast
  <1>2. UpToPos(view, n, ls[n], u) /\ Begins(view, u)
    BY DEF UpToPos, Begins
  <1>3. Resumes(ls, n, u)
    BY DEF FollowsLog, Resumes
  <1>4. OfPod(view, n, u, uid, FALSE)
    BY DEF FollowsLog, OfPod
  <1> QED BY <1>1, <1>2, <1>3, <1>4 DEF FollowsLog

(* It finds the pod it knows, or one it did not know of yet. *)
LEMMA FindsPod ==
    ASSUME NEW c, NEW view, NEW ls, NEW n, NEW t, NEW time, NEW uid, NEW there,
           FollowsLog(c, view, ls, n, t, time, uid, there), ~Strays(t, uid),
           NEW u \in TaskType, u.phase \notin {"streaming", "fetching"},
           u.last = t.last, u.atLast = t.atLast, u.first = t.first,
           u.run = t.run, ~u.gone, u.instance = uid
    PROVE  FollowsLog(c, view, ls, n, u, time, uid, there)
  <1>1. UpToLast(view, n, ls[n], u)
    BY DEF FollowsLog, UpToLast
  <1>2. UpToPos(view, n, ls[n], u) /\ Begins(view, u)
    BY DEF UpToPos, Begins
  <1>3. Resumes(ls, n, u)
    BY DEF FollowsLog, Resumes
  <1>4. OfPod(view, n, u, uid, there)
    BY DEF FollowsLog, OfPod, Strays
  <1> QED BY <1>1, <1>2, <1>3, <1>4 DEF FollowsLog

(* It finds another pod in its place, and starts over with it. *)
LEMMA FindsAnother ==
    ASSUME NEW c, NEW view, NEW ls, NEW n, NEW t, NEW time, NEW uid,
           FollowsLog(c, view, ls, n, t, time, uid, TRUE), Strays(t, uid),
           NEW u \in TaskType, u.phase \notin {"streaming", "fetching"},
           u.last = None, u.run = t.run, ~u.gone, u.instance = uid
    PROVE  FollowsLog(c, view, ls, n, u, time, uid, TRUE)
  <1>1. \A i \in 1..Len(view) : ~Own(view[i], n)
    BY DEF FollowsLog, OfPod
  <1>2. UpToLast(view, n, ls[n], u)
    BY <1>1 DEF UpToLast
  <1>3. UpToPos(view, n, ls[n], u) /\ Begins(view, u)
    BY DEF UpToPos, Begins
  <1>4. Resumes(ls, n, u)
    BY DEF FollowsLog, Resumes
  <1>5. OfPod(view, n, u, uid, TRUE)
    BY DEF FollowsLog, OfPod, Strays
  <1> QED BY <1>2, <1>3, <1>4, <1>5 DEF FollowsLog

(* It connects: what the connection passes over is before `last`, or there  *)
(* is nothing yet that it could have left out.                              *)
LEMMA ConnectsLog ==
    ASSUME NEW c, NEW view, NEW ls, NEW n, NEW t, NEW time, NEW uid, NEW there,
           FollowsLog(c, view, ls, n, t, time, uid, there),
           NEW u \in TaskType, u.phase = "streaming", ~u.first,
           u.last = t.last, u.atLast = t.atLast, u.run = n, u.seen = 0,
           u.gone = t.gone, u.instance = t.instance,
           u.pos >= 1, u.pos <= Len(ls[n]) + 1,
           t.last # None => \A k \in 1..Len(ls[n]) : k < u.pos => ls[n][k] <= t.last
    PROVE  FollowsLog(c, view, ls, n, u, time, uid, there)
  <1>1. UpToLast(view, n, ls[n], t)
    BY DEF FollowsLog
  <1>2. UpToLast(view, n, ls[n], u)
    BY <1>1 DEF UpToLast
  <1>3. UpToPos(view, n, ls[n], u)
    <2>1. \A i \in 1..Len(view) : Own(view[i], n) => \A k \in 1..Len(ls[n]) :
             view[i].index < k /\ k < u.pos /\ Lone(ls[n], k) => Has(view, n, k)
      BY <1>1 DEF UpToLast
    <2>2. ~(u.seen > 0)
      OBVIOUS
    <2> QED BY <2>1, <2>2 DEF UpToPos
  <1>4. Resumes(ls, n, u)
    <2>1. n <= n
      BY DEF FollowsLog, InTime
    <2> QED BY <2>1 DEF FollowsLog, Resumes
  <1>5. OfPod(view, n, u, uid, there) /\ Begins(view, u)
    BY DEF FollowsLog, OfPod, Strays, Begins
  <1> QED BY <1>2, <1>3, <1>4, <1>5 DEF FollowsLog

(* A line is passed over: it is not later than `last`. *)
LEMMA PassesOver ==
    ASSUME NEW c, NEW view, NEW ls, NEW n, NEW t, NEW time, NEW uid, NEW there,
           FollowsLog(c, view, ls, n, t, time, uid, there),
           t.phase = "streaming", t.run = n, t.pos <= Len(ls[n]),
           ls[n][t.pos] <= t.last,
           NEW u \in TaskType, u.phase = "streaming", u.first = t.first,
           u.last = t.last, u.atLast = t.atLast, u.run = n, u.pos = t.pos + 1,
           u.seen > 0 => t.seen > 0 \/ ls[n][t.pos] = t.last,
           u.gone = t.gone, u.instance = t.instance
    PROVE  FollowsLog(c, view, ls, n, u, time, uid, there)
  <1>1. PICK p \in Nat : p = t.pos /\ p >= 1
    BY DEF FollowsLog, TaskType, UpToPos
  <1>2. PICK rows : rows = ls[n]
    OBVIOUS
  <1>3. PICK m \in Nat : m = Len(rows)
    <2>1. rows \in Seq(Nat)
      BY <1>2, ElementOfSeq DEF FollowsLog, InTime
    <2> QED BY <2>1, LenProperties
  <1>4. p \in 1..m /\ u.pos = p + 1
    BY <1>1, <1>2, <1>3
  <1>5. UpToLast(view, n, rows, t) /\ UpToPos(view, n, rows, t)
    BY <1>2 DEF FollowsLog
  <1>6. UpToLast(view, n, rows, u)
    BY <1>5 DEF UpToLast
  <1>7. UpToPos(view, n, rows, u)
    <2>1. ASSUME u.seen > 0
          PROVE  \E q \in 1..m : q < p + 1 /\ rows[q] = t.last
      <3>1. CASE t.seen > 0
        <4>1. PICK q \in 1..m : q < p /\ rows[q] = t.last
          BY <1>1, <1>3, <1>5, <3>1 DEF UpToPos
        <4>2. q < p + 1
          BY <4>1
        <4> QED BY <4>1, <4>2
      <3>2. CASE ls[n][t.pos] = t.last
        <4>1. p \in 1..m /\ p < p + 1 /\ rows[p] = t.last
          BY <1>1, <1>2, <1>4, <3>2
        <4> QED BY <4>1
      <3> QED BY <2>1, <3>1, <3>2
    <2>2. ASSUME NEW i \in 1..Len(view), Own(view[i], n), NEW k \in 1..m,
                 view[i].index < k, k < p + 1, Lone(rows, k)
          PROVE  Has(view, n, k)
      <3>1. CASE k < p
        BY <1>1, <1>3, <1>5, <2>2, <3>1 DEF UpToPos
      <3>2. CASE k = p
        BY <1>1, <1>2, <1>3, <1>5, <2>2, <3>2 DEF UpToLast
      <3> QED BY <2>2, <3>1, <3>2
    <2> QED BY <1>3, <1>4, <2>1, <2>2 DEF UpToPos
  <1>8. Resumes(ls, n, u)
    BY DEF FollowsLog, Resumes
  <1>9. OfPod(view, n, u, uid, there) /\ Begins(view, u)
    BY DEF FollowsLog, OfPod, Strays, Begins
  <1> QED BY <1>2, <1>6, <1>7, <1>8, <1>9 DEF FollowsLog

(* What one more line does to a view of m lines. *)
Adds(view, m, line, more) ==
    /\ view \in Seq(LineType) /\ m = Len(view) /\ line \in LineType
    /\ more = Append(view, line)

(* The lines stay where they are, and the line is there too. *)
LEMMA OneMore ==
    ASSUME NEW view, NEW m, NEW line, NEW more, Adds(view, m, line, more)
    PROVE  /\ more \in Seq(LineType) /\ m \in Nat /\ Len(more) = m + 1
           /\ more[m + 1] = line /\ \A i \in 1..m : more[i] = view[i]
           /\ \A n, k : Has(view, n, k) => Has(more, n, k)
           /\ Has(more, line.run, line.index)
  <1>1. /\ more \in Seq(LineType) /\ m \in Nat /\ Len(more) = m + 1
        /\ more[m + 1] = line /\ \A i \in 1..m : more[i] = view[i]
    BY AppendProperties, LenProperties DEF Adds
  <1>2. ASSUME NEW n, NEW k, Has(view, n, k)
        PROVE  Has(more, n, k)
    <2>1. PICK i \in 1..m : view[i].run = n /\ view[i].index = k
      BY <1>2 DEF Has, Adds
    <2>2. i \in 1..(m + 1) /\ more[i] = view[i]
      BY <1>1
    <2> QED BY <1>1, <2>1, <2>2 DEF Has
  <1>3. Has(more, line.run, line.index)
    <2>1. m + 1 \in 1..(m + 1)
      BY <1>1
    <2> QED BY <1>1, <2>1 DEF Has
  <1> QED BY <1>1, <1>2, <1>3

(* A line that is shown is the next one of the run. *)
NextLine(c, n, p, ts, strays, line) ==
    /\ line \in LineType /\ line.run = n /\ line.index = p /\ line.ts = ts
    /\ line.of = c /\ line.strayed = strays

(* A line is shown: it is later than `last`, or not the only one of its     *)
(* instant.                                                                 *)
LEMMA Shows ==
    ASSUME NEW c, NEW view, NEW ls, NEW n, NEW t, NEW time, NEW uid, NEW there,
           FollowsLog(c, view, ls, n, t, time, uid, there), None \notin Nat, there,
           t.phase = "streaming", t.run = n, t.pos <= Len(ls[n]),
           t.last # None => \/ ls[n][t.pos] > t.last
                            \/ ls[n][t.pos] = t.last /\ t.seen >= t.atLast,
           NEW line, NextLine(c, n, t.pos, ls[n][t.pos], Strays(t, uid), line),
           NEW u \in TaskType, u.phase = "streaming", u.first = t.first,
           u.last = ls[n][t.pos], u.atLast >= 1, u.run = n, u.pos = t.pos + 1,
           u.gone = t.gone, u.instance = t.instance
    PROVE  FollowsLog(c, Append(view, line), ls, n, u, time, uid, there)
  <1>1. PICK p \in Nat : p = t.pos /\ p >= 1
    BY DEF FollowsLog, TaskType, UpToPos
  <1>2. PICK rows \in Seq(Nat) : rows = ls[n]
    BY ElementOfSeq DEF FollowsLog, InTime
  <1>3. PICK len \in Nat : len = Len(rows)
    BY LenProperties
  <1>4. p \in 1..len /\ u.pos = p + 1
    BY <1>1, <1>2, <1>3
  <1>5. PICK ts \in Nat : ts = rows[p]
    BY <1>3, <1>4, ElementOfSeq
  <1>6. u.last = ts /\ NextLine(c, n, p, ts, Strays(t, uid), line)
    BY <1>1, <1>2, <1>5
  <1>7. view \in Seq(LineType) /\ line \in LineType
    BY <1>6 DEF FollowsLog, AreLines, NextLine
  <1>8. PICK m : m = Len(view)
    OBVIOUS
  <1>9. PICK more : more = Append(view, line)
    OBVIOUS
  <1>10. /\ more \in Seq(LineType) /\ m \in Nat /\ Len(more) = m + 1
         /\ more[m + 1] = line /\ \A i \in 1..m : more[i] = view[i]
         /\ \A r, k : Has(view, r, k) => Has(more, r, k)
         /\ Has(more, n, p)
    <2>1. line.run = n /\ line.index = p
      BY <1>6 DEF NextLine
    <2>2. /\ more \in Seq(LineType) /\ m \in Nat /\ Len(more) = m + 1
          /\ more[m + 1] = line /\ \A i \in 1..m : more[i] = view[i]
          /\ \A r, k : Has(view, r, k) => Has(more, r, k)
          /\ Has(more, line.run, line.index)
      <3>1. Adds(view, m, line, more)
        BY <1>7, <1>8, <1>9 DEF Adds
      <3> QED BY <3>1, OneMore
    <2> QED BY <2>1, <2>2
  <1>11. UpToLast(view, n, rows, t) /\ UpToPos(view, n, rows, t)
    BY <1>2 DEF FollowsLog
  <1>12. \A k \in 1..len :
            rows[k] \in Nat /\ (k < p => rows[k] <= ts) /\ (k > p => rows[k] >= ts)
    <2>1. \A k \in 1..len : rows[k] \in Nat
      BY <1>3, ElementOfSeq
    <2>2. InTime(ls, n, time) /\ n \in 1..n
      BY DEF FollowsLog, InTime
    <2>3. \A i, j \in 1..len : i <= j => rows[i] <= rows[j]
      BY <1>2, <1>3, <2>2 DEF InTime
    <2> QED BY <1>4, <1>5, <2>1, <2>3
  <1>13. \A k \in 1..len : k # p /\ rows[k] = ts => ~Lone(rows, k) /\ ~Lone(rows, p)
    <2>1. DOMAIN rows = 1..len
      BY <1>3, LenProperties
    <2> QED BY <1>4, <1>5, <2>1 DEF Lone
  <1>14. \A i \in 1..m : /\ view[i].run \in 1..n /\ view[i].of = c
                         /\ view[i].index \in 1..Len(ls[view[i].run])
                         /\ view[i].ts = ls[view[i].run][view[i].index]
                         /\ view[i].strayed \in BOOLEAN
    <2>1. \A i \in 1..m : view[i] \in LineType
      BY <1>7, <1>8, ElementOfSeq
    <2> QED BY <1>8, <2>1 DEF FollowsLog, AreLines, LineType
  <1>15. \A i \in 1..(m + 1) : i \in 1..m \/ i = m + 1
    BY <1>10
  <1>16. AreLines(c, more, ls, n)
    <2>1. n \in 1..n
      BY DEF FollowsLog, InTime
    <2>2. line.of = c /\ line.run = n /\ line.index = p /\ line.ts = ls[n][p]
      BY <1>2, <1>5, <1>6 DEF NextLine
    <2>3. p \in 1..Len(ls[n])
      BY <1>2, <1>3, <1>4
    <2> QED BY <1>10, <1>14, <1>15, <2>1, <2>2, <2>3 DEF AreLines
  <1>17. ASSUME NEW i \in 1..m, Own(view[i], n)
         PROVE  /\ t.last # None /\ t.last \in Nat /\ view[i].ts <= t.last /\ t.last <= ts
                /\ view[i].ts \in Nat /\ view[i].index \in 1..len
                /\ view[i].ts = rows[view[i].index]
    <2>1. t.last # None /\ view[i].ts <= t.last
      BY <1>8, <1>11, <1>17 DEF UpToLast
    <2>2. t.last \in Nat
      BY <2>1 DEF FollowsLog, TaskType
    <2>3. view[i].index \in 1..len /\ view[i].ts = rows[view[i].index]
      BY <1>2, <1>3, <1>14, <1>17 DEF Own
    <2>4. t.last <= ts
      BY <1>1, <1>2, <1>5, <2>1, <2>2
    <2> QED BY <1>12, <2>1, <2>2, <2>3, <2>4
  <1>18. InOrder(more, ls)
    <2> SUFFICES ASSUME NEW j \in 1..(m + 1), NEW i \in 1..(j - 1),
                        ~more[i].strayed, ~more[j].strayed,
                        LoneLine(ls, more[i]), LoneLine(ls, more[j])
                 PROVE  Earlier(more[i], more[j])
      BY <1>10 DEF InOrder
    <2>1. CASE j \in 1..m
      <3>1. i \in 1..m /\ more[i] = view[i] /\ more[j] = view[j]
        BY <1>10, <2>1
      <3>2. InOrder(view, ls)
        BY DEF FollowsLog
      <3> QED BY <1>8, <2>1, <3>1, <3>2 DEF InOrder
    <2>2. CASE j = m + 1
      <3>1. i \in 1..m /\ more[i] = view[i] /\ more[j] = line
        BY <1>10, <2>2
      <3>2. line.run = n /\ line.index = p
        BY <1>6 DEF NextLine
      <3>3. CASE view[i].run # n
        <4>1. view[i].run \in 1..n /\ n \in Nat
          BY <1>14, <3>1 DEF FollowsLog, InTime
        <4> QED BY <3>1, <3>2, <3>3, <4>1 DEF Earlier
      <3>4. CASE view[i].run = n
        <4>1. Own(view[i], n)
          BY <3>1, <3>4 DEF Own
        <4>2. /\ t.last # None /\ t.last \in Nat /\ view[i].ts <= t.last /\ t.last <= ts
              /\ view[i].ts \in Nat /\ view[i].index \in 1..len
              /\ view[i].ts = rows[view[i].index]
          BY <1>17, <3>1, <4>1
        <4>3. Lone(rows, view[i].index) /\ Lone(rows, p)
          BY <1>2, <3>1, <3>2, <3>4 DEF LoneLine
        <4>4. CASE view[i].ts < ts
          <5>1. view[i].index < p
            <6>1. PICK x \in 1..len : x = view[i].index
              BY <4>2
            <6>2. rows[x] \in Nat /\ rows[x] < ts
              BY <4>2, <4>4, <6>1
            <6>3. x > p => rows[x] >= ts
              BY <1>12
            <6>4. x # p
              BY <1>5, <6>2
            <6>5. ~(x > p)
              BY <6>2, <6>3
            <6>6. x < p
              BY <1>4, <6>4, <6>5
            <6> QED BY <6>1, <6>6
          <5> QED BY <3>1, <3>2, <3>4, <5>1 DEF Earlier
        <4>5. CASE view[i].ts = ts
          <5>1. t.last = ts /\ t.seen >= t.atLast
            BY <1>1, <1>2, <1>5, <4>2, <4>5
          <5>2. t.seen > 0
            BY <4>2, <5>1 DEF FollowsLog, Resumes, TaskType
          <5>3. PICK q \in 1..len : q < p /\ rows[q] = t.last
            BY <1>1, <1>3, <1>11, <5>2 DEF UpToPos
          <5> QED BY <1>13, <4>3, <5>1, <5>3
        <4> QED BY <4>2, <4>4, <4>5
      <3> QED BY <3>3, <3>4
    <2> QED BY <1>15, <2>1, <2>2
  <1>19. Gapless(more, ls)
    <2> SUFFICES ASSUME NEW j \in 1..(m + 1), NEW i \in 1..(j - 1),
                        more[i].run = more[j].run, ~more[i].strayed,
                        NEW k \in (more[i].index + 1)..(more[j].index - 1),
                        Lone(ls[more[i].run], k)
                 PROVE  Has(more, more[i].run, k)
      BY <1>10 DEF Gapless
    <2>1. CASE j \in 1..m
      <3>1. i \in 1..m /\ more[i] = view[i] /\ more[j] = view[j]
        BY <1>10, <2>1
      <3>2. Gapless(view, ls)
        BY DEF FollowsLog
      <3>3. Has(view, view[i].run, k)
        BY <1>8, <2>1, <3>1, <3>2 DEF Gapless
      <3> QED BY <1>10, <3>1, <3>3
    <2>2. CASE j = m + 1
      <3>1. i \in 1..m /\ more[i] = view[i] /\ more[j] = line
        BY <1>10, <2>2
      <3>2. line.run = n /\ line.index = p
        BY <1>6 DEF NextLine
      <3>3. Own(view[i], n)
        BY <3>1, <3>2 DEF Own
      <3>4. view[i].index \in 1..len
        BY <1>17, <3>1, <3>3
      <3>5. k \in 1..len /\ k < p /\ view[i].index < k /\ Lone(rows, k)
        BY <1>2, <1>4, <3>1, <3>2, <3>4
      <3>6. Has(view, n, k)
        BY <1>1, <1>3, <1>8, <1>11, <3>1, <3>3, <3>5 DEF UpToPos
      <3> QED BY <1>10, <3>1, <3>2, <3>6
    <2> QED BY <1>15, <2>1, <2>2
  <1>20. ASSUME NEW i \in 1..(m + 1), Own(more[i], n), NEW k \in 1..len,
                more[i].index < k, k < p + 1 \/ rows[k] <= ts, Lone(rows, k)
         PROVE  Has(more, n, k)
    <2>1. CASE k = p
      BY <1>10, <2>1
    <2>2. CASE k > p
      BY <1>12, <1>13, <1>20, <2>2
    <2>3. CASE k < p
      <3>1. i \in 1..m
        BY <1>6, <1>10, <1>15, <1>20, <2>3 DEF NextLine
      <3> QED BY <1>1, <1>3, <1>8, <1>10, <1>11, <1>20, <2>3, <3>1 DEF UpToPos
    <2> QED BY <2>1, <2>2, <2>3
  <1>21. UpToLast(more, n, rows, u)
    <2>1. ts # None
      OBVIOUS
    <2>2. ASSUME NEW i \in 1..(m + 1), Own(more[i], n)
          PROVE  more[i].ts <= ts
      <3>1. CASE i \in 1..m
        <4>1. more[i] = view[i] /\ Own(view[i], n)
          BY <1>10, <2>2, <3>1
        <4>2. view[i].ts \in Nat /\ t.last \in Nat /\ view[i].ts <= t.last /\ t.last <= ts
          BY <1>17, <3>1, <4>1
        <4> QED BY <4>1, <4>2
      <3>2. CASE i = m + 1
        BY <1>6, <1>10, <3>2 DEF NextLine
      <3> QED BY <1>15, <3>1, <3>2
    <2> QED BY <1>3, <1>6, <1>10, <1>20, <2>1, <2>2 DEF UpToLast
  <1>22. UpToPos(more, n, rows, u)
    <2>1. p \in 1..len /\ p < p + 1 /\ rows[p] = u.last
      BY <1>4, <1>5, <1>6
    <2>2. p + 1 >= 1 /\ p + 1 <= len + 1
      BY <1>4
    <2> QED BY <1>3, <1>4, <1>10, <1>20, <2>1, <2>2 DEF UpToPos
  <1>23. Resumes(ls, n, u)
    <2>1. n \in 1..n /\ n <= n
      BY DEF FollowsLog, InTime
    <2>2. p \in 1..Len(ls[n]) /\ ls[n][p] = u.last
      BY <1>2, <1>3, <1>4, <1>5, <1>6
    <2>3. ~u.first
      BY DEF FollowsLog, Resumes
    <2> QED BY <2>1, <2>2, <2>3 DEF Resumes
  <1>24. OfPod(more, n, u, uid, there)
    <2>1. ASSUME Strays(t, uid), NEW i \in 1..(m + 1)
          PROVE  ~Own(more[i], n)
      <3>1. CASE i \in 1..m
        BY <1>8, <1>10, <2>1, <3>1 DEF FollowsLog, OfPod
      <3>2. CASE i = m + 1
        BY <1>6, <1>10, <2>1, <3>2 DEF NextLine, Own
      <3> QED BY <1>15, <3>1, <3>2
    <2>2. Strays(u, uid) = Strays(t, uid)
      BY DEF Strays
    <2> QED BY <1>10, <2>1, <2>2 DEF FollowsLog, OfPod
  <1> QED BY <1>2, <1>9, <1>16, <1>18, <1>19, <1>21, <1>22, <1>23, <1>24
      DEF FollowsLog, Begins

(* The lines of a backlog, from line f of the log. *)
FetchedLines(c, n, f, rows, lines) ==
    /\ lines \in Seq(LineType) /\ Len(lines) = Len(rows) - f + 1
    /\ \A i \in 1..Len(lines) :
          /\ lines[i].run = n /\ lines[i].index = f + i - 1
          /\ lines[i].ts = rows[f + i - 1] /\ lines[i].of = c /\ ~lines[i].strayed

(* The backlog is fetched. *)
LEMMA Fetches ==
    ASSUME NEW c, NEW view, NEW ls, NEW n, NEW t, NEW time, NEW uid, NEW there,
           FollowsLog(c, view, ls, n, t, time, uid, there), None \notin Nat,
           NEW f \in Nat, f >= 1, f <= Len(ls[n]),
           NEW lines, FetchedLines(c, n, f, ls[n], lines),
           NEW u \in TaskType, u.phase = "waiting", ~u.first,
           u.last = ls[n][Len(ls[n])], u.atLast >= 1, u.run <= n,
           ~u.gone, u.instance = None
    PROVE  FollowsLog(c, lines, ls, n, u, time, uid, there)
  <1>1. InTime(ls, n, time) /\ n \in 1..n /\ n \in Nat
    BY DEF FollowsLog, InTime
  <1>2. PICK rows \in Seq(Nat) : rows = ls[n]
    BY <1>1, ElementOfSeq DEF InTime
  <1>3. PICK len \in Nat : len = Len(rows)
    BY LenProperties
  <1>4. PICK m \in Nat : m = len - f + 1 /\ m >= 1 /\ f <= len
    <2>1. f <= len
      BY <1>2, <1>3
    <2>2. len - f + 1 \in Nat /\ len - f + 1 >= 1
      BY <2>1
    <2> QED BY <2>1, <2>2
  <1>5. /\ lines \in Seq(LineType) /\ Len(lines) = m
        /\ \A i \in 1..m :
              /\ lines[i].run = n /\ lines[i].index = f + i - 1
              /\ lines[i].ts = rows[f + i - 1] /\ lines[i].of = c /\ ~lines[i].strayed
    BY <1>2, <1>3, <1>4 DEF FetchedLines
  <1>6. \A k \in 1..len : rows[k] \in Nat /\ rows[k] <= rows[len]
    <2>1. \A k \in 1..len : rows[k] \in Nat
      BY <1>3, ElementOfSeq
    <2>2. \A i, j \in 1..len : i <= j => rows[i] <= rows[j]
      BY <1>1, <1>2, <1>3 DEF InTime
    <2>3. len \in 1..len
      BY <1>4
    <2> QED BY <2>1, <2>2, <2>3
  <1>7. \A i \in 1..m : f + i - 1 \in 1..len
    BY <1>4
  <1>8. \A k \in f..len : Has(lines, n, k)
    <2> TAKE k \in f..len
    <2>1. k - f + 1 \in 1..m /\ f + (k - f + 1) - 1 = k
      BY <1>4
    <2> QED BY <1>5, <2>1 DEF Has
  <1>9. AreLines(c, lines, ls, n)
    BY <1>1, <1>2, <1>3, <1>5, <1>7 DEF AreLines
  <1>10. InOrder(lines, ls)
    <2> SUFFICES ASSUME NEW j \in 1..m, NEW i \in 1..(j - 1)
                 PROVE  Earlier(lines[i], lines[j])
      BY <1>5 DEF InOrder
    <2>1. i \in 1..m /\ f + i - 1 < f + j - 1
      OBVIOUS
    <2> QED BY <1>5, <2>1 DEF Earlier
  <1>11. Gapless(lines, ls)
    <2> SUFFICES ASSUME NEW j \in 1..m, NEW i \in 1..(j - 1),
                        NEW k \in (lines[i].index + 1)..(lines[j].index - 1)
                 PROVE  Has(lines, lines[i].run, k)
      BY <1>5 DEF Gapless
    <2>1. i \in 1..m
      OBVIOUS
    <2>2. k \in (f + i - 1 + 1)..(f + j - 1 - 1)
      BY <1>5, <2>1
    <2>3. k \in f..len
      BY <1>4, <2>1, <2>2
    <2> QED BY <1>5, <1>8, <2>1, <2>3
  <1>12. UpToLast(lines, n, rows, u)
    <2> SUFFICES ASSUME NEW i \in 1..m
                 PROVE  /\ u.last # None /\ lines[i].ts <= u.last
                        /\ \A k \in 1..len : lines[i].index < k => Has(lines, n, k)
      BY <1>3, <1>5 DEF UpToLast
    <2>1. u.last = rows[len] /\ rows[len] # None
      BY <1>2, <1>3, <1>4, <1>6
    <2>2. lines[i].ts <= rows[len]
      BY <1>5, <1>6, <1>7
    <2>3. ASSUME NEW k \in 1..len, lines[i].index < k
          PROVE  Has(lines, n, k)
      <3>1. f + i - 1 < k
        BY <1>5, <2>3
      <3>2. k \in f..len
        BY <3>1
      <3> QED BY <1>8, <3>2
    <2> QED BY <2>1, <2>2, <2>3
  <1>13. UpToPos(lines, n, rows, u) /\ Begins(lines, u)
    BY DEF UpToPos, Begins
  <1>14. Resumes(ls, n, u)
    <2>1. len \in 1..Len(ls[n]) /\ ls[n][len] = u.last
      BY <1>2, <1>3, <1>4
    <2> QED BY <1>1, <2>1 DEF Resumes
  <1>15. OfPod(lines, n, u, uid, there)
    BY DEF FollowsLog, OfPod, Strays
  <1> QED BY <1>2, <1>9, <1>10, <1>11, <1>12, <1>13, <1>14, <1>15 DEF FollowsLog

(* Time goes by, for the containers that do not write too. *)
LEMMA TimeGoes ==
    ASSUME NEW c, NEW view, NEW ls, NEW n, NEW t, NEW time, NEW uid, NEW there,
           FollowsLog(c, view, ls, n, t, time, uid, there),
           NEW later \in Nat, later >= time
    PROVE  FollowsLog(c, view, ls, n, t, later, uid, there)
  <1>1. InTime(ls, n, time)
    BY DEF FollowsLog
  <1>2. \A r \in 1..n : \A i \in 1..Len(ls[r]) : ls[r][i] \in Nat
    BY <1>1, ElementOfSeq DEF InTime
  <1>3. \A r \in 1..n : \A i \in 1..Len(ls[r]) :
          ls[r][i] <= later /\ (r < n => ls[r][i] < later)
    BY <1>1, <1>2 DEF InTime
  <1>4. InTime(ls, n, later)
    BY <1>1, <1>3 DEF InTime
  <1> QED BY <1>4 DEF FollowsLog

(* LogStreams counts as this module does. *)
LEMMA SameCardinality == ASSUME NEW S PROVE L!Cardinality(S) = Cardinality(S)
  BY DEF L!Cardinality, Cardinality

(* Where a request since a time begins: only whole seconds before that one  *)
(* are left out.                                                            *)
LEMMA SinceFromOK ==
    ASSUME NEW c, NEW ts \in Nat, NEW rows \in Seq(Nat), rows = L!Log(c),
           \A i, j \in 1..Len(rows) : i <= j => rows[i] <= rows[j]
    PROVE  /\ L!SinceFrom(c, ts) \in Nat /\ L!SinceFrom(c, ts) >= 1
           /\ L!SinceFrom(c, ts) <= Len(rows) + 1
           /\ \A k \in 1..Len(rows) : k < L!SinceFrom(c, ts) => rows[k] <= ts
  <1> DEFINE S == {i \in DOMAIN L!Log(c) : L!Second(L!Log(c)[i]) < L!Second(ts)}
  <1>1. PICK len \in Nat : len = Len(rows) /\ DOMAIN rows = 1..len
    BY LenProperties
  <1>2. L!SinceFrom(c, ts) = Cardinality(S) + 1
    BY SameCardinality DEF L!SinceFrom
  <1>3. S \subseteq 1..len
    BY <1>1
  <1>4. \A k \in 1..len : rows[k] \in Nat
    BY <1>1, ElementOfSeq
  <1>5. \A a, b \in Nat : a <= b => L!Second(a) <= L!Second(b)
    BY DEF L!Second
  <1>6. \A a \in Nat : L!Second(a) \in Int
    BY DEF L!Second
  <1>7. \A b \in 0..len : S \subseteq 1..b => Cardinality(S) \in Nat /\ Cardinality(S) <= b
    <2> TAKE b \in 0..len
    <2> HAVE S \subseteq 1..b
    <2>1. IsFiniteSet(1..b) /\ Cardinality(1..b) = b
      BY FS_Interval
    <2> HIDE DEF S
    <2>2. IsFiniteSet(S) /\ Cardinality(S) <= Cardinality(1..b)
      BY <2>1, FS_Subset
    <2> QED BY <2>1, <2>2, FS_CardinalityType
  <1>8. ASSUME NEW k \in 1..len, ~(rows[k] <= ts)
        PROVE  S \subseteq 1..(k - 1)
    <2> SUFFICES ASSUME NEW i \in S, i >= k PROVE FALSE
      BY <1>1
    <2>1. i \in 1..len /\ L!Second(rows[i]) < L!Second(ts)
      BY <1>1
    <2>2. ts <= rows[i]
      BY <1>1, <1>4, <1>8, <2>1
    <2>3. rows[i] \in Nat
      BY <1>4, <2>1
    <2> QED BY <1>5, <1>6, <2>1, <2>2, <2>3
  <1> HIDE DEF S
  <1>9. Cardinality(S) \in Nat /\ Cardinality(S) <= len
    <2>1. len \in 0..len
      OBVIOUS
    <2> QED BY <1>3, <1>7, <2>1
  <1>10. ASSUME NEW k \in 1..len, k < Cardinality(S) + 1
         PROVE  rows[k] <= ts
    <2> SUFFICES ASSUME ~(rows[k] <= ts) PROVE FALSE
      OBVIOUS
    <2>1. S \subseteq 1..(k - 1) /\ k - 1 \in 0..len
      BY <1>8
    <2>2. Cardinality(S) <= k - 1
      BY <1>7, <2>1
    <2> QED BY <1>9, <1>10, <2>2
  <1> QED BY <1>1, <1>2, <1>9, <1>10

(* Every container is followed; until the merge has run there is nothing in *)
(* the view.                                                                *)
PodType == [uid : Nat, there : BOOLEAN, has : SUBSET L!Containers, started : BOOLEAN,
            finished : BOOLEAN]

Follows(c) ==
    FollowsLog(c, View(c), logs[c], Len(logs[c]), task[c], now, pod.uid, pod.there)

Merged(c) == ~merge.flushed =>
    shown[c] = <<>> /\ task[c].phase \in {"fetching", "waiting"}

LogShape ==
    /\ pod \in PodType
    /\ merge \in [got : {merge.got}, flushed : BOOLEAN]
    /\ merge.got = [c \in L!Containers |-> merge.got[c]]
    /\ task = [c \in L!Containers |-> task[c]]
    /\ logs = [c \in L!Containers |-> logs[c]]
    /\ shown = [c \in L!Containers |-> shown[c]]

LogInv == LogShape /\ \A c \in L!Containers : Follows(c) /\ Merged(c)

(* A step of a task that neither shows nor fetches a line. *)
LEMMA TaskStep ==
    ASSUME LogInv, NEW c \in L!Containers, NEW u, L!Becomes(c, u),
           UNCHANGED <<now, pod, logs, merge, shown>>,
           FollowsLog(c, View(c), logs[c], Len(logs[c]), u, now, pod.uid, pod.there),
           ~merge.flushed => u.phase \in {"fetching", "waiting"}
    PROVE  LogInv'
  <1>1. task' = [d \in L!Containers |-> IF d = c THEN u ELSE task[d]]
    BY DEF L!Becomes, LogInv, LogShape
  <1>2. LogShape'
    BY <1>1 DEF LogInv, LogShape
  <1>3. \A d : View(d)' = View(d)
    BY DEF View
  <1>4. ASSUME NEW d \in L!Containers
        PROVE  (Follows(d) /\ Merged(d))'
    <2>1. Follows(d) /\ Merged(d)
      BY DEF LogInv
    <2>2. CASE d = c
      BY <1>1, <1>3, <2>1, <2>2 DEF Follows, Merged
    <2>3. CASE d # c
      BY <1>1, <1>3, <2>1, <2>3 DEF Follows, Merged
    <2> QED BY <2>2, <2>3
  <1> QED BY <1>2, <1>4 DEF LogInv

(* `container_task` waits for the merge. *)
LEMMA WaitedLogs ==
    ASSUME LogInv, NEW c \in L!Containers, L!Waited(c)
    PROVE  LogInv'
  <1> DEFINE u == [task[c] EXCEPT !.phase = "looking"]
  <1>1. Follows(c) /\ Merged(c) /\ task[c] \in TaskType /\ task[c].run <= Len(logs[c])
    BY DEF LogInv, Follows, FollowsLog, Resumes
  <1>2. /\ u \in TaskType /\ u.phase = "looking" /\ u.last = task[c].last
        /\ u.atLast = task[c].atLast /\ u.first = task[c].first /\ u.run = task[c].run
        /\ u.gone = task[c].gone /\ u.instance = task[c].instance
    BY <1>1 DEF TaskType, L!Phases
  <1>3. L!Becomes(c, u) /\ UNCHANGED <<now, pod, logs, merge, shown>> /\ merge.flushed
    BY DEF L!Waited, L!clusterVars
  <1> HIDE DEF u
  <1>4. FollowsLog(c, View(c), logs[c], Len(logs[c]), u, now, pod.uid, pod.there)
    BY <1>1, <1>2, NotStreaming DEF Follows
  <1> QED BY <1>2, <1>3, <1>4, TaskStep

(* A lookup fails. *)
LEMMA LookFailsLogs ==
    ASSUME LogInv, NEW c \in L!Containers, L!LookFails(c)
    PROVE  LogInv'
  <1> DEFINE u == [task[c] EXCEPT !.phase = "connecting"]
  <1>1. Follows(c) /\ Merged(c) /\ task[c] \in TaskType /\ task[c].run <= Len(logs[c])
    BY DEF LogInv, Follows, FollowsLog, Resumes
  <1>2. /\ u \in TaskType /\ u.phase = "connecting" /\ u.last = task[c].last
        /\ u.atLast = task[c].atLast /\ u.first = task[c].first /\ u.run = task[c].run
        /\ u.gone = task[c].gone /\ u.instance = task[c].instance
    BY <1>1 DEF TaskType, L!Phases
  <1>3. L!Becomes(c, u) /\ UNCHANGED <<now, pod, logs, merge, shown>> /\ merge.flushed
    BY <1>1 DEF L!LookFails, L!clusterVars, Merged
  <1> HIDE DEF u
  <1>4. FollowsLog(c, View(c), logs[c], Len(logs[c]), u, now, pod.uid, pod.there)
    BY <1>1, <1>2, NotStreaming DEF Follows
  <1> QED BY <1>2, <1>3, <1>4, TaskStep

(* A connection is over, or could not be made. *)
LEMMA DisconnectedOK ==
    ASSUME LogInv, NEW c \in L!Containers,
           task[c].phase \in {"connecting", "streaming"},
           L!Becomes(c, L!Disconnected(task[c])),
           UNCHANGED <<now, pod, logs, merge, shown>>
    PROVE  LogInv'
  <1>1. PICK u : u = L!Disconnected(task[c])
    OBVIOUS
  <1>2. Follows(c) /\ Merged(c) /\ task[c] \in TaskType /\ Len(logs[c]) \in Nat
    BY DEF LogInv, Follows, FollowsLog, InTime
  <1>3. /\ u \in TaskType /\ u.phase = "looking" /\ u.last = task[c].last
        /\ u.atLast = task[c].atLast /\ ~u.first /\ u.run = 0
        /\ u.gone = task[c].gone /\ u.instance = task[c].instance
    BY <1>1, <1>2 DEF TaskType, L!Phases, L!Disconnected
  <1>4. FollowsLog(c, View(c), logs[c], Len(logs[c]), u, now, pod.uid, pod.there)
    <2>1. u.run <= Len(logs[c])
      BY <1>2, <1>3
    <2> QED BY <1>2, <1>3, <2>1, NotStreaming DEF Follows
  <1>5. L!Becomes(c, u) /\ merge.flushed
    BY <1>1, <1>2 DEF Merged
  <1> QED BY <1>4, <1>5, TaskStep

(* `container_task` looks where its container is. *)
LEMMA LookLogs ==
    ASSUME LogInv, None \notin Nat, NEW c \in L!Containers, L!Look(c)
    PROVE  LogInv'
  <1> DEFINE t == task[c]
             replaced == t.gone \/ (t.instance # None /\ t.instance # pod.uid)
             known == [(IF replaced THEN L!Joined(t) ELSE t) EXCEPT !.instance = pod.uid]
             ends == pod.finished /\ (known.ended \/ known.retry \/ ~known.first)
  <1>1. Follows(c) /\ Merged(c) /\ t \in TaskType /\ t.run <= Len(logs[c])
    BY DEF LogInv, Follows, FollowsLog, Resumes
  <1>2. /\ pod \in PodType /\ pod.uid \in Nat /\ pod.there \in BOOLEAN
        /\ t.phase = "looking" /\ merge.flushed
        /\ UNCHANGED <<now, pod, logs, merge, shown>>
    BY <1>1 DEF LogInv, LogShape, PodType, L!Look, Merged, L!clusterVars
  <1>3. replaced <=> Strays(t, pod.uid)
    BY DEF Strays
  <1>4. /\ known \in TaskType /\ known.phase = "looking" /\ known.instance = pod.uid
        /\ known.run = t.run /\ ~known.gone
        /\ replaced => known.last = None
        /\ ~replaced => /\ known.last = t.last /\ known.atLast = t.atLast
                        /\ known.first = t.first
    <2>1. CASE replaced
      BY <1>1, <1>2, <2>1 DEF TaskType, L!Joined
    <2>2. CASE ~replaced
      BY <1>1, <1>2, <2>2 DEF TaskType
    <2> QED BY <2>1, <2>2
  <1>5. L!Becomes(c, IF ~pod.there THEN [t EXCEPT !.gone = TRUE]
                     ELSE IF replaced /\ c \notin pod.has THEN [t EXCEPT !.phase = "over"]
                     ELSE IF ends THEN [known EXCEPT !.ended = TRUE]
                     ELSE IF ~pod.started THEN known
                     ELSE [known EXCEPT !.phase = "connecting"])
    BY DEF L!Look
  <1>6. CASE ~pod.there
    <2> DEFINE u == [t EXCEPT !.gone = TRUE]
    <2>1. /\ u \in TaskType /\ u.phase = "looking" /\ u.last = t.last /\ u.run = t.run
          /\ u.atLast = t.atLast /\ u.first = t.first /\ u.instance = t.instance
      BY <1>1, <1>2 DEF TaskType
    <2>2. L!Becomes(c, u)
      BY <1>5, <1>6
    <2>3. pod.there = FALSE
      BY <1>2, <1>6
    <2> HIDE DEF u
    <2>4. FollowsLog(c, View(c), logs[c], Len(logs[c]), u, now, pod.uid, pod.there)
      BY <1>1, <2>1, <2>3, FindsNone DEF Follows
    <2> QED BY <1>2, <2>2, <2>4, TaskStep
  <1>7. CASE pod.there /\ replaced /\ c \notin pod.has
    <2> DEFINE u == [t EXCEPT !.phase = "over"]
    <2>1. /\ u \in TaskType /\ u.phase = "over" /\ u.last = t.last /\ u.run = t.run
          /\ u.atLast = t.atLast /\ u.first = t.first /\ u.gone = t.gone
          /\ u.instance = t.instance
      BY <1>1, <1>2 DEF TaskType, L!Phases
    <2>2. L!Becomes(c, u)
      BY <1>5, <1>7
    <2> HIDE DEF u
    <2>3. FollowsLog(c, View(c), logs[c], Len(logs[c]), u, now, pod.uid, pod.there)
      BY <1>1, <2>1, NotStreaming DEF Follows
    <2> QED BY <1>2, <2>2, <2>3, TaskStep
  <1>8. CASE pod.there /\ ~(replaced /\ c \notin pod.has)
    <2>1. PICK u : /\ L!Becomes(c, u) /\ u \in TaskType
                   /\ u.phase \notin {"streaming", "fetching"}
                   /\ u.instance = known.instance /\ u.run = known.run /\ ~u.gone
                   /\ u.last = known.last /\ u.atLast = known.atLast
                   /\ u.first = known.first
      <3> HIDE DEF known, ends
      <3> DEFINE v == [known EXCEPT !.ended = TRUE]
                 w == [known EXCEPT !.phase = "connecting"]
      <3>1. /\ v \in TaskType /\ v.phase \notin {"streaming", "fetching"}
            /\ v.instance = known.instance /\ v.run = known.run /\ ~v.gone
            /\ v.last = known.last /\ v.atLast = known.atLast
            /\ v.first = known.first
        BY <1>4 DEF TaskType
      <3>2. /\ w \in TaskType /\ w.phase \notin {"streaming", "fetching"}
            /\ w.instance = known.instance /\ w.run = known.run /\ ~w.gone
            /\ w.last = known.last /\ w.atLast = known.atLast
            /\ w.first = known.first
        BY <1>4 DEF TaskType, L!Phases
      <3>3. L!Becomes(c, v) \/ L!Becomes(c, known) \/ L!Becomes(c, w)
        BY <1>5, <1>8
      <3> HIDE DEF v, w
      <3> QED BY <1>4, <3>1, <3>2, <3>3
    <2> HIDE DEF known
    <2>2. CASE replaced
      <3>1. pod.there = TRUE
        BY <1>2, <1>8
      <3>2. FollowsLog(c, View(c), logs[c], Len(logs[c]), u, now, pod.uid, pod.there)
        BY <1>1, <1>3, <1>4, <2>1, <2>2, <3>1, FindsAnother DEF Follows
      <3> QED BY <1>2, <2>1, <3>2, TaskStep
    <2>3. CASE ~replaced
      <3>1. FollowsLog(c, View(c), logs[c], Len(logs[c]), u, now, pod.uid, pod.there)
        BY <1>1, <1>3, <1>4, <2>1, <2>3, FindsPod DEF Follows
      <3> QED BY <1>2, <2>1, <3>1, TaskStep
    <2> QED BY <2>2, <2>3
  <1> QED BY <1>6, <1>7, <1>8

(* What is known of the log of a container's current run. *)
LEMMA CurrentLog ==
    ASSUME LogInv, NEW c \in L!Containers
    PROVE  /\ L!Log(c) = logs[c][Len(logs[c])] /\ L!Log(c) \in Seq(Nat)
           /\ \A i, j \in 1..Len(L!Log(c)) : i <= j => L!Log(c)[i] <= L!Log(c)[j]
  <1>1. InTime(logs[c], Len(logs[c]), now)
    BY DEF LogInv, Follows, FollowsLog
  <1>2. PICK n : n = Len(logs[c])
    OBVIOUS
  <1>3. n \in 1..n /\ logs[c] \in Seq(Seq(Nat))
    BY <1>1, <1>2 DEF InTime
  <1>4. L!Log(c) = logs[c][n]
    BY <1>2 DEF L!Log, L!Run
  <1>5. logs[c][n] \in Seq(Nat)
    BY <1>2, <1>3, ElementOfSeq
  <1> QED BY <1>1, <1>2, <1>3, <1>4, <1>5 DEF InTime

(* `log_stream`: the task connects, or cannot. *)
LEMMA ConnectLogs ==
    ASSUME LogInv, L!Parameters, NEW c \in L!Containers, L!Connect(c)
    PROVE  LogInv'
  <1>1. /\ task[c].phase = "connecting" /\ UNCHANGED <<now, pod, logs, merge, shown>>
        /\ Follows(c) /\ Merged(c) /\ task[c] \in TaskType
    BY DEF L!Connect, L!clusterVars, LogInv, Follows, FollowsLog
  <1>2. CASE ~L!Reachable(c)
    BY <1>1, <1>2, DisconnectedOK DEF L!Connect
  <1>3. CASE L!Reachable(c)
    <2> DEFINE At(p) == [task[c] EXCEPT !.phase = "streaming", !.first = FALSE,
                                        !.run = L!Run(c), !.pos = p, !.seen = 0]
    <2>1. PICK rows \in Seq(Nat) :
             /\ rows = L!Log(c) /\ rows = logs[c][Len(logs[c])]
             /\ \A i, j \in 1..Len(rows) : i <= j => rows[i] <= rows[j]
      BY CurrentLog
    <2>2. PICK len \in Nat : len = Len(rows)
      BY LenProperties
    <2>3. PICK p \in Nat :
             /\ L!Becomes(c, At(p)) /\ p >= 1 /\ p <= len + 1
             /\ task[c].last # None =>
                   \A k \in 1..len : k < p => rows[k] <= task[c].last
      <3>1. CASE task[c].first \/ task[c].last = None
        <4>1. task[c].last = None
          BY <1>1, <3>1 DEF Follows, FollowsLog, Resumes
        <4>2. L!TailFrom(c) \in Nat /\ L!TailFrom(c) >= 1 /\ L!TailFrom(c) <= len + 1
          <5>1. TailLines \in Nat /\ TailLines >= 1
            BY DEF L!Parameters
          <5>2. L!TailFrom(c) = IF len > TailLines THEN len - TailLines + 1 ELSE 1
            BY <2>1, <2>2 DEF L!TailFrom
          <5> QED BY <5>1, <5>2
        <4>3. L!Becomes(c, At(L!TailFrom(c)))
          BY <1>3, <3>1 DEF L!Connect
        <4> HIDE DEF At
        <4> QED BY <4>1, <4>2, <4>3
      <3>2. CASE ~(task[c].first \/ task[c].last = None)
        <4>1. task[c].last \in Nat
          BY <1>1, <3>2 DEF TaskType
        <4>2. /\ L!SinceFrom(c, task[c].last) \in Nat /\ L!SinceFrom(c, task[c].last) >= 1
              /\ L!SinceFrom(c, task[c].last) <= len + 1
              /\ \A k \in 1..len : k < L!SinceFrom(c, task[c].last) => rows[k] <= task[c].last
          BY <2>1, <2>2, <4>1, SinceFromOK
        <4>3. L!Becomes(c, At(L!SinceFrom(c, task[c].last)))
          BY <1>3, <3>2 DEF L!Connect
        <4> HIDE DEF At
        <4> QED BY <4>2, <4>3
      <3> QED BY <3>1, <3>2
    <2>4. PICK n \in Nat : n = Len(logs[c]) /\ n = L!Run(c)
      BY <1>1 DEF Follows, FollowsLog, InTime, L!Run
    <2>5. PICK v : v = At(p)
      OBVIOUS
    <2>6. L!Becomes(c, v)
      BY <2>3, <2>5
    <2>7. /\ v \in TaskType /\ v.phase = "streaming" /\ ~v.first
          /\ v.last = task[c].last /\ v.atLast = task[c].atLast /\ v.run = n
          /\ v.seen = 0 /\ v.gone = task[c].gone /\ v.instance = task[c].instance
          /\ v.pos = p
      BY <1>1, <2>4, <2>5 DEF TaskType, L!Phases
    <2> HIDE DEF At
    <2>8. FollowsLog(c, View(c), logs[c], Len(logs[c]), v, now, pod.uid, pod.there)
      <3>1. logs[c][n] = rows /\ Len(logs[c][n]) = len
        BY <2>1, <2>2, <2>4
      <3>2. FollowsLog(c, View(c), logs[c], n, task[c], now, pod.uid, pod.there)
        BY <1>1, <2>4 DEF Follows
      <3>3. v.pos >= 1 /\ v.pos <= Len(logs[c][n]) + 1
        BY <2>3, <2>7, <3>1
      <3>4. task[c].last # None => \A k \in 1..Len(logs[c][n]) :
               k < v.pos => logs[c][n][k] <= task[c].last
        BY <2>3, <2>7, <3>1
      <3>5. FollowsLog(c, View(c), logs[c], n, v, now, pod.uid, pod.there)
        BY <2>7, <3>2, <3>3, <3>4, ConnectsLog
      <3> QED BY <2>4, <3>5
    <2>9. merge.flushed
      BY <1>1 DEF Merged
    <2> QED BY <1>1, <2>6, <2>8, <2>9, TaskStep
  <1> QED BY <1>2, <1>3

(* A step of a task after the merge that shows lines. *)
LEMMA ShowStep ==
    ASSUME LogInv, NEW c \in L!Containers, NEW u, NEW more, L!Becomes(c, u),
           shown' = [shown EXCEPT ![c] = more], merge.flushed,
           UNCHANGED <<now, pod, logs, merge>>,
           FollowsLog(c, more, logs[c], Len(logs[c]), u, now, pod.uid, pod.there)
    PROVE  LogInv'
  <1>1. /\ task' = [d \in L!Containers |-> IF d = c THEN u ELSE task[d]]
        /\ shown' = [d \in L!Containers |-> IF d = c THEN more ELSE shown[d]]
    BY DEF L!Becomes, LogInv, LogShape
  <1>2. LogShape'
    BY <1>1 DEF LogInv, LogShape
  <1>3. ASSUME NEW d \in L!Containers
        PROVE  (Follows(d) /\ Merged(d))'
    <2>1. Follows(d)
      BY DEF LogInv
    <2>2. View(d)' = (IF d = c THEN more ELSE View(d))
      BY <1>1 DEF View
    <2>3. Merged(d)'
      BY DEF Merged
    <2>4. CASE d = c
      BY <1>1, <2>2, <2>3, <2>4 DEF Follows
    <2>5. CASE d # c
      BY <1>1, <2>1, <2>2, <2>3, <2>5 DEF Follows
    <2> QED BY <2>4, <2>5
  <1> QED BY <1>2, <1>3 DEF LogInv

(* A line arrives. *)
LEMMA ReadLogs ==
    ASSUME LogInv, None \notin Nat, NEW c \in L!Containers, L!Read(c)
    PROVE  LogInv'
  <1> DEFINE t == task[c]
             passed == [t EXCEPT !.pos = @ + 1]
  <1>1. PICK n \in Nat : n = Len(logs[c]) /\ n = L!Run(c)
    BY DEF LogInv, Follows, FollowsLog, InTime, L!Run
  <1>2. PICK rows \in Seq(Nat) : rows = L!Log(c) /\ rows = logs[c][n]
    BY <1>1, CurrentLog
  <1>3. PICK len \in Nat : len = Len(rows)
    BY LenProperties
  <1>4. /\ t.phase = "streaming" /\ pod.there /\ t.run = n /\ t.pos <= len
        /\ UNCHANGED <<now, pod, logs, merge>>
    BY <1>1, <1>2, <1>3 DEF L!Read, L!Open, L!clusterVars
  <1>5. /\ t \in TaskType /\ Merged(c)
        /\ FollowsLog(c, View(c), logs[c], n, t, now, pod.uid, pod.there)
    BY <1>1 DEF LogInv, Follows, FollowsLog
  <1>6. merge.flushed /\ View(c) = shown[c]
    BY <1>4, <1>5 DEF Merged, View
  <1>7. t.pos \in Nat /\ t.pos >= 1
    BY <1>1, <1>4, <1>5 DEF TaskType, FollowsLog, UpToPos
  <1>8. PICK p \in 1..len : p = t.pos
    BY <1>4, <1>7
  <1>9. PICK ts \in Nat : ts = rows[p]
    BY <1>3, ElementOfSeq
  <1>10. PICK line : line = L!Line(c, p)
    OBVIOUS
  <1>11. NextLine(c, n, p, ts, Strays(t, pod.uid), line)
    <2>1. line = [run |-> n, index |-> p, ts |-> ts, of |-> c,
                  strayed |-> t.gone \/ t.instance \notin {None, pod.uid}]
      BY <1>1, <1>2, <1>9, <1>10 DEF L!Line
    <2>2. Strays(t, pod.uid) \in BOOLEAN
      BY <1>5 DEF Strays, TaskType
    <2>3. Strays(t, pod.uid) = (t.gone \/ t.instance \notin {None, pod.uid})
      BY DEF Strays
    <2> QED BY <2>1, <2>2, <2>3 DEF NextLine, LineType
  <1>12. line.ts = ts
    BY <1>11 DEF NextLine
  <1>13. /\ passed \in TaskType /\ passed.phase = "streaming" /\ passed.pos = p + 1
         /\ passed.first = t.first /\ passed.last = t.last /\ passed.atLast = t.atLast
         /\ passed.run = n /\ passed.seen = t.seen /\ passed.gone = t.gone
         /\ passed.instance = t.instance
    <2>1. PICK q \in Nat : q = p + 1
      OBVIOUS
    <2>2. passed = [t EXCEPT !.pos = q]
      BY <1>8, <2>1
    <2> HIDE DEF passed
    <2> QED BY <1>4, <1>5, <2>1, <2>2 DEF TaskType
  <1>14. t.last \in Nat \union {None} /\ t.seen \in Nat /\ t.atLast \in Nat
    BY <1>5 DEF TaskType
  <1>15. logs[c][n][t.pos] = ts /\ t.pos <= Len(logs[c][n])
    BY <1>2, <1>3, <1>8, <1>9
  <1>16. CASE L!IsDuplicate(t, ts)
    <2>1. t.last # None /\ ts <= t.last /\ t.last \in Nat
      BY <1>14, <1>16 DEF L!IsDuplicate
    <2>2. /\ L!Becomes(c, IF ts = t.last THEN [passed EXCEPT !.seen = @ + 1] ELSE passed)
          /\ UNCHANGED shown
      BY <1>8, <1>10, <1>12, <1>16 DEF L!Read
    <2>3. PICK u : /\ L!Becomes(c, u) /\ u \in TaskType /\ u.phase = "streaming"
                   /\ u.first = t.first /\ u.last = t.last /\ u.atLast = t.atLast
                   /\ u.run = n /\ u.pos = p + 1 /\ u.gone = t.gone
                   /\ u.instance = t.instance
                   /\ u.seen > 0 => t.seen > 0 \/ ts = t.last
      <3> HIDE DEF passed
      <3>1. CASE ts = t.last
        <4> DEFINE u == [passed EXCEPT !.seen = @ + 1]
        <4>3. PICK s \in Nat : u = [passed EXCEPT !.seen = s]
          <5>1. passed.seen + 1 \in Nat
            BY <1>13, <1>14 DEF TaskType
          <5>2. u = [passed EXCEPT !.seen = passed.seen + 1]
            OBVIOUS
          <5> HIDE DEF u
          <5> QED BY <5>1, <5>2
        <4>1. /\ u \in TaskType /\ u.phase = "streaming"
              /\ u.first = t.first /\ u.last = t.last /\ u.atLast = t.atLast
              /\ u.run = n /\ u.pos = p + 1 /\ u.gone = t.gone
              /\ u.instance = t.instance
          <5> HIDE DEF u
          <5> QED BY <1>13, <4>3 DEF TaskType
        <4>2. L!Becomes(c, u)
          BY <2>2, <3>1
        <4> HIDE DEF u
        <4> QED BY <3>1, <4>1, <4>2
      <3>2. CASE ts # t.last
        <4>1. L!Becomes(c, passed)
          BY <2>2, <3>2
        <4> QED BY <1>13, <4>1
      <3> QED BY <3>1, <3>2
    <2>4. FollowsLog(c, View(c), logs[c], n, u, now, pod.uid, pod.there)
      <3>1. u.pos = t.pos + 1
        BY <1>8, <2>3
      <3> QED BY <1>4, <1>5, <1>15, <2>1, <2>3, <3>1, PassesOver
    <2> QED BY <1>1, <1>4, <1>6, <2>2, <2>3, <2>4, TaskStep
  <1>17. CASE ~L!IsDuplicate(t, ts)
    <2>1. t.last # None => ts > t.last \/ (ts = t.last /\ t.seen >= t.atLast)
      BY <1>14, <1>17 DEF L!IsDuplicate
    <2>2. /\ L!Becomes(c, L!Record(passed, ts))
          /\ shown' = [shown EXCEPT ![c] = Append(shown[c], line)]
      BY <1>8, <1>10, <1>12, <1>17 DEF L!Read
    <2>3. PICK u : u = L!Record(passed, ts)
      OBVIOUS
    <2> HIDE DEF passed
    <2>4. /\ u \in TaskType /\ u.phase = "streaming" /\ u.first = t.first /\ u.last = ts
          /\ u.atLast >= 1 /\ u.run = n /\ u.pos = p + 1 /\ u.gone = t.gone
          /\ u.instance = t.instance
      <3>1. CASE t.last = ts
        <4>1. PICK k \in Nat : k >= 1 /\ u = [passed EXCEPT !.atLast = k]
          <5>1. u = [passed EXCEPT !.atLast = passed.atLast + 1]
            BY <1>13, <2>3, <3>1 DEF L!Record
          <5>2. passed.atLast + 1 \in Nat /\ passed.atLast + 1 >= 1
            BY <1>13, <1>14
          <5> QED BY <5>1, <5>2
        <4> QED BY <1>13, <3>1, <4>1 DEF TaskType
      <3>2. CASE t.last # ts
        <4>1. u = [passed EXCEPT !.last = ts, !.atLast = 1]
          BY <1>13, <1>14, <2>1, <2>3, <3>2 DEF L!Record
        <4>2. PICK k \in Nat : k >= 1 /\ u = [passed EXCEPT !.last = ts, !.atLast = k]
          <5>1. 1 \in Nat /\ 1 >= 1
            OBVIOUS
          <5> QED BY <4>1, <5>1, Zenon
        <4>3. ts \in Nat
          BY <1>9
        <4> QED BY <1>13, <4>2, <4>3 DEF TaskType
      <3> QED BY <3>1, <3>2
    <2>5. FollowsLog(c, Append(View(c), line), logs[c], n, u, now, pod.uid, pod.there)
      <3>1. u.pos = t.pos + 1 /\ NextLine(c, n, t.pos, ts, Strays(t, pod.uid), line)
        BY <1>8, <1>11, <2>4
      <3> QED BY <1>4, <1>5, <1>15, <2>1, <2>4, <3>1, Shows
    <2> QED BY <1>1, <1>4, <1>6, <2>2, <2>3, <2>5, ShowStep
  <1> QED BY <1>16, <1>17

(* A step of a task that hands a backlog to the merge. *)
LEMMA HandOver ==
    ASSUME LogInv, NEW c \in L!Containers, NEW u, NEW lines, L!Becomes(c, u),
           merge' = [merge EXCEPT !.got[c] = lines], ~merge.flushed,
           UNCHANGED <<now, pod, logs, shown>>, u.phase = "waiting",
           FollowsLog(c, lines, logs[c], Len(logs[c]), u, now, pod.uid, pod.there)
    PROVE  LogInv'
  <1>1. task' = [d \in L!Containers |-> IF d = c THEN u ELSE task[d]]
    BY DEF L!Becomes, LogInv, LogShape
  <1>2. /\ merge'.got = [d \in L!Containers |-> IF d = c THEN lines ELSE merge.got[d]]
        /\ merge'.flushed = FALSE /\ merge' \in [got : {merge'.got}, flushed : BOOLEAN]
    <2>1. merge \in [got : {merge.got}, flushed : BOOLEAN] /\ merge.flushed = FALSE
      BY DEF LogInv, LogShape
    <2>2. merge.got = [d \in L!Containers |-> merge.got[d]]
      BY DEF LogInv, LogShape
    <2>3. merge' = [got |-> [merge.got EXCEPT ![c] = lines], flushed |-> FALSE]
      BY <2>1
    <2>4. [merge.got EXCEPT ![c] = lines]
             = [d \in L!Containers |-> IF d = c THEN lines ELSE merge.got[d]]
      BY <2>2
    <2>5. PICK g : /\ g = [d \in L!Containers |-> IF d = c THEN lines ELSE merge.got[d]]
                   /\ merge' = [got |-> g, flushed |-> FALSE]
      BY <2>3, <2>4
    <2>6. merge'.got = g /\ merge'.flushed = FALSE
      BY <2>5
    <2>7. merge' \in [got : {merge'.got}, flushed : BOOLEAN]
      BY <2>5, <2>6
    <2> QED BY <2>5, <2>6, <2>7
  <1>3. LogShape'
    BY <1>1, <1>2 DEF LogInv, LogShape
  <1>4. ASSUME NEW d \in L!Containers
        PROVE  (Follows(d) /\ Merged(d))'
    <2>1. Follows(d) /\ Merged(d)
      BY DEF LogInv
    <2>2. View(d)' = (IF d = c THEN lines ELSE View(d))
      BY <1>2 DEF View
    <2>3. Merged(d)'
      BY <1>1, <1>2, <2>1 DEF Merged
    <2>4. CASE d = c
      BY <1>1, <2>2, <2>3, <2>4 DEF Follows
    <2>5. CASE d # c
      BY <1>1, <2>1, <2>2, <2>3, <2>5 DEF Follows
    <2> QED BY <2>4, <2>5
  <1> QED BY <1>3, <1>4 DEF LogInv

(* `tail_lines`: where the backlog of a log begins. *)
LEMMA TailFromOK ==
    ASSUME L!Parameters, NEW c, NEW len \in Nat, len = Len(L!Log(c))
    PROVE  /\ L!TailFrom(c) \in Nat /\ L!TailFrom(c) >= 1 /\ L!TailFrom(c) <= len + 1
           /\ len >= 1 => L!TailFrom(c) <= len
  <1>1. TailLines \in Nat /\ TailLines >= 1
    BY DEF L!Parameters
  <1>2. L!TailFrom(c) = IF len > TailLines THEN len - TailLines + 1 ELSE 1
    BY DEF L!TailFrom
  <1> QED BY <1>1, <1>2

(* `record` of a backlog that has lines. *)
LEMMA RecordAllOK ==
    ASSUME NEW t \in TaskType, NEW lines \in Seq(LineType), Len(lines) >= 1
    PROVE  \E k \in Nat : k >= 1 /\
              L!RecordAll(t, lines) = [t EXCEPT !.last = lines[Len(lines)].ts, !.atLast = k]
  <1>1. PICK len \in Nat : len = Len(lines) /\ DOMAIN lines = 1..len /\ len >= 1
    BY LenProperties
  <1>2. PICK last : last = lines[Len(lines)].ts
    OBVIOUS
  <1> DEFINE S == {i \in DOMAIN lines : lines[i].ts = last}
  <1>3. IsFiniteSet(1..len) /\ S \in SUBSET (1..len) /\ len \in S
    BY <1>1, <1>2, FS_Interval
  <1>4. IsFiniteSet(S)
    BY <1>3, FS_Subset
  <1>5. Cardinality(S) \in Nat /\ Cardinality(S) # 0
    BY <1>3, <1>4, FS_CardinalityType, FS_EmptySet
  <1>6. lines # <<>>
    BY <1>1
  <1>7. L!RecordAll(t, lines) = [t EXCEPT !.last = last, !.atLast = L!Cardinality(S)]
    BY <1>2, <1>6 DEF L!RecordAll
  <1>8. PICK k : k = Cardinality(S)
    OBVIOUS
  <1>9. L!RecordAll(t, lines) = [t EXCEPT !.last = last, !.atLast = k]
    BY <1>7, <1>8, SameCardinality
  <1>10. k \in Nat /\ k >= 1
    BY <1>5, <1>8
  <1>11. L!RecordAll(t, lines) = [t EXCEPT !.last = lines[Len(lines)].ts, !.atLast = k]
    BY <1>2, <1>9
  <1> QED BY <1>10, <1>11, Zenon

(* What a task that has fetched nothing yet knows. *)
LEMMA FetchingTask ==
    ASSUME LogInv, NEW c \in L!Containers, task[c].phase = "fetching"
    PROVE  /\ task[c] = L!NewTask /\ task[c] \in TaskType /\ View(c) = <<>>
           /\ shown[c] = <<>>
           /\ FollowsLog(c, <<>>, logs[c], Len(logs[c]), task[c], now, pod.uid, pod.there)
  <1>1. Follows(c) /\ Merged(c)
    BY DEF LogInv
  <1>2. task[c] = L!NewTask /\ View(c) = <<>> /\ task[c] \in TaskType
    BY <1>1 DEF Follows, FollowsLog, Begins
  <1>3. shown[c] = <<>>
    BY <1>1, <1>2 DEF Merged, View
  <1> QED BY <1>1, <1>2, <1>3 DEF Follows

(* The backlog of a container, and its task once it has fetched it. *)
IsBacklog(c, lines) ==
    lines = [i \in 1..(Len(L!Log(c)) - L!TailFrom(c) + 1) |->
                L!Line(c, L!TailFrom(c) + i - 1)]

HasFetched(c, lines, u) ==
    u = [L!RecordAll(task[c], lines) EXCEPT !.phase = "waiting", !.first = FALSE]

(* The backlog of a container that can be reached and has lines. *)
LEMMA Backlog ==
    ASSUME LogInv, L!Parameters, NEW c \in L!Containers, task[c].phase = "fetching",
           L!Log(c) # <<>>, NEW lines, IsBacklog(c, lines),
           NEW u, HasFetched(c, lines, u)
    PROVE  /\ u.phase = "waiting" /\ lines \in Seq(LineType)
           /\ FollowsLog(c, lines, logs[c], Len(logs[c]), u, now, pod.uid, pod.there)
  <1>1. PICK n \in Nat : n = Len(logs[c]) /\ n = L!Run(c)
    BY DEF LogInv, Follows, FollowsLog, InTime, L!Run
  <1>2. PICK rows \in Seq(Nat) : rows = L!Log(c) /\ rows = logs[c][n]
    BY <1>1, CurrentLog
  <1>3. PICK len \in Nat : len = Len(rows) /\ len >= 1
    BY <1>2, LenProperties, EmptySeq
  <1>4. PICK f \in 1..len : f = L!TailFrom(c)
    <2>1. L!TailFrom(c) \in Nat /\ L!TailFrom(c) >= 1 /\ L!TailFrom(c) <= len
      BY <1>2, <1>3, TailFromOK
    <2> QED BY <2>1
  <1>5. PICK m \in Nat : m = len - f + 1 /\ m >= 1
    BY <1>4
  <1>6. lines = [i \in 1..m |-> L!Line(c, f + i - 1)]
    BY <1>2, <1>3, <1>4, <1>5 DEF IsBacklog
  <1>7. /\ task[c].gone = FALSE /\ task[c].instance = None /\ task[c] \in TaskType
        /\ task[c].run = 0
    BY FetchingTask DEF L!NewTask
  <1>8. \A i \in 1..m : L!Line(c, f + i - 1) =
           [run |-> n, index |-> f + i - 1, ts |-> rows[f + i - 1], of |-> c,
            strayed |-> FALSE]
    BY <1>1, <1>2, <1>7 DEF L!Line
  <1>9. \A i \in 1..m : f + i - 1 \in Nat /\ rows[f + i - 1] \in Nat
    <2> TAKE i \in 1..m
    <2>1. f + i - 1 \in 1..len
      <3>1. f \in Nat /\ f >= 1 /\ f <= len /\ i \in Nat /\ i >= 1 /\ i <= m
        BY <1>4, <1>5
      <3> QED BY <1>5, <3>1
    <2> QED BY <1>3, <2>1, ElementOfSeq
  <1>10. \A i \in 1..m :
           /\ lines[i] \in LineType
           /\ lines[i].run = n /\ lines[i].index = f + i - 1
           /\ lines[i].ts = rows[f + i - 1] /\ lines[i].of = c /\ ~lines[i].strayed
    <2> TAKE i \in 1..m
    <2>1. PICK j \in Nat : j = f + i - 1 /\ rows[j] \in Nat
      BY <1>9
    <2>2. lines[i] = [run |-> n, index |-> j, ts |-> rows[j], of |-> c, strayed |-> FALSE]
      BY <1>6, <1>8, <2>1
    <2>3. lines[i] \in LineType
      BY <2>1, <2>2 DEF LineType
    <2> QED BY <2>1, <2>2, <2>3
  <1>11. lines \in Seq(LineType) /\ Len(lines) = m
    <2>1. lines \in [1..m -> LineType]
      BY <1>6, <1>10
    <2> QED BY <2>1, IsASeq, LenProperties
  <1>12. FetchedLines(c, n, f, rows, lines)
    BY <1>3, <1>5, <1>10, <1>11 DEF FetchedLines
  <1>13. lines[Len(lines)].ts = rows[len]
    <2>1. f + m - 1 = len /\ m \in 1..m
      BY <1>4, <1>5
    <2> QED BY <1>10, <1>11, <2>1
  <1>14. PICK k \in Nat : k >= 1 /\
            L!RecordAll(task[c], lines) = [task[c] EXCEPT !.last = rows[len], !.atLast = k]
    <2>1. \E k \in Nat : k >= 1 /\ L!RecordAll(task[c], lines)
                 = [task[c] EXCEPT !.last = lines[Len(lines)].ts, !.atLast = k]
      <3>1. Len(lines) >= 1 /\ lines \in Seq(LineType) /\ task[c] \in TaskType
        BY <1>5, <1>7, <1>11
      <3> QED BY <3>1, RecordAllOK, Zenon
    <2> QED BY <1>13, <2>1, Zenon
  <1>15. PICK ts \in Nat : ts = rows[len]
    BY <1>3, ElementOfSeq
  <1>16. u = [task[c] EXCEPT !.last = ts, !.atLast = k, !.phase = "waiting",
                             !.first = FALSE]
    BY <1>7, <1>14, <1>15 DEF TaskType, HasFetched
  <1>17. /\ u \in TaskType /\ u.phase = "waiting" /\ ~u.first /\ u.last = ts
         /\ u.atLast >= 1 /\ u.run = 0 /\ ~u.gone /\ u.instance = None
    BY <1>7, <1>14, <1>16 DEF TaskType, L!Phases
  <1>18. FollowsLog(c, <<>>, logs[c], n, task[c], now, pod.uid, pod.there)
    BY <1>1, FetchingTask
  <1>19. /\ f \in Nat /\ f >= 1 /\ f <= Len(logs[c][n]) /\ u.run <= n
         /\ u.last = logs[c][n][Len(logs[c][n])] /\ None \notin Nat
         /\ FetchedLines(c, n, f, logs[c][n], lines)
    BY <1>2, <1>3, <1>4, <1>12, <1>15, <1>17 DEF L!Parameters
  <1>20. FollowsLog(c, lines, logs[c], n, u, now, pod.uid, pod.there)
    BY <1>17, <1>18, <1>19, Fetches
  <1> QED BY <1>1, <1>11, <1>17, <1>20

(* `container_task` fetches the backlog. *)
LEMMA FetchLogs ==
    ASSUME LogInv, L!Parameters, NEW c \in L!Containers, NEW fails, L!Fetch(c, fails)
    PROVE  LogInv'
  <1>1. PICK lines, u :
           /\ IF fails \/ ~L!Reachable(c) THEN lines = <<>> ELSE IsBacklog(c, lines)
           /\ HasFetched(c, lines, u)
           /\ L!Becomes(c, u)
           /\ IF merge.flushed
              THEN shown' = [shown EXCEPT ![c] = shown[c] \o lines] /\ UNCHANGED merge
              ELSE merge' = [merge EXCEPT !.got[c] = lines] /\ UNCHANGED shown
    <2> DEFINE from == L!TailFrom(c)
               ls == IF fails \/ ~L!Reachable(c) THEN <<>>
                     ELSE [i \in 1..(Len(L!Log(c)) - from + 1) |-> L!Line(c, from + i - 1)]
               v == [L!RecordAll(task[c], ls) EXCEPT !.phase = "waiting", !.first = FALSE]
    <2>1. IF fails \/ ~L!Reachable(c) THEN ls = <<>> ELSE IsBacklog(c, ls)
      BY DEF IsBacklog
    <2>2. HasFetched(c, ls, v)
      BY DEF HasFetched
    <2>3. /\ L!Becomes(c, v)
          /\ IF merge.flushed
             THEN shown' = [shown EXCEPT ![c] = shown[c] \o ls] /\ UNCHANGED merge
             ELSE merge' = [merge EXCEPT !.got[c] = ls] /\ UNCHANGED shown
      BY DEF L!Fetch
    <2> HIDE DEF ls, v
    <2> QED BY <2>1, <2>2, <2>3, Zenon
  <1>2. task[c].phase = "fetching" /\ UNCHANGED <<now, pod, logs>>
    BY DEF L!Fetch, L!clusterVars
  <1>3. /\ task[c] = L!NewTask /\ task[c] \in TaskType /\ shown[c] = <<>>
        /\ FollowsLog(c, <<>>, logs[c], Len(logs[c]), task[c], now, pod.uid, pod.there)
    BY <1>2, FetchingTask
  <1>4. PICK len \in Nat : len = Len(L!Log(c))
    BY CurrentLog, LenProperties
  <1>5. /\ u.phase = "waiting" /\ lines \in Seq(LineType)
        /\ FollowsLog(c, lines, logs[c], Len(logs[c]), u, now, pod.uid, pod.there)
    <2>1. CASE ~(fails \/ ~L!Reachable(c)) /\ len >= 1
      <3>1. L!Log(c) # <<>>
        BY <1>4, <2>1
      <3> QED BY <1>1, <1>2, <2>1, <3>1, Backlog
    <2>2. CASE fails \/ ~L!Reachable(c) \/ len = 0
      <3>1. lines = <<>>
        <4>1. CASE fails \/ ~L!Reachable(c)
          BY <1>1, <4>1
        <4>2. CASE ~(fails \/ ~L!Reachable(c)) /\ len = 0
          <5>1. L!TailFrom(c) = 1
            <6>1. L!TailFrom(c) \in Nat /\ L!TailFrom(c) >= 1 /\ L!TailFrom(c) <= len + 1
              BY <1>4, TailFromOK
            <6> QED BY <4>2, <6>1
          <5>2. lines = [i \in 1..0 |-> L!Line(c, L!TailFrom(c) + i - 1)]
            BY <1>1, <1>4, <4>2, <5>1 DEF IsBacklog
          <5> QED BY <5>2
        <4> QED BY <2>2, <4>1, <4>2
      <3>2. u = [task[c] EXCEPT !.phase = "waiting", !.first = FALSE]
        BY <1>1, <3>1 DEF L!RecordAll, HasFetched
      <3>3. /\ u \in TaskType /\ u.phase = "waiting" /\ u.first = FALSE
            /\ u.last = task[c].last /\ u.atLast = task[c].atLast /\ u.run = task[c].run
            /\ u.gone = task[c].gone /\ u.instance = task[c].instance
        BY <1>3, <3>2 DEF TaskType, L!Phases
      <3>4. task[c].run <= Len(logs[c])
        BY <1>3 DEF FollowsLog, Resumes
      <3>5. FollowsLog(c, <<>>, logs[c], Len(logs[c]), u, now, pod.uid, pod.there)
        BY <1>3, <3>3, <3>4, NotStreaming
      <3> QED BY <3>1, <3>3, <3>5
    <2> QED BY <1>4, <2>1, <2>2
  <1>6. CASE merge.flushed
    <2>1. shown[c] \o lines = lines
      BY <1>3, <1>5, ConcatEmptySeq
    <2> QED BY <1>1, <1>2, <1>5, <1>6, <2>1, ShowStep
  <1>7. CASE ~merge.flushed
    BY <1>1, <1>2, <1>5, <1>7, HandOver
  <1> QED BY <1>6, <1>7

-----------------------------------------------------------------------------
(* `merge_by_time` leaves out no line and keeps the order of each list:     *)
(* what `MergeIsSorted` (module MCLogStreams) says of each list.            *)
MergeKeepsEach ==
    \A lists \in [L!Containers -> Seq(LineType)] :
        (\A c \in L!Containers : \A i \in 1..Len(lists[c]) : lists[c][i].of = c) =>
            \A c \in L!Containers : L!Of(Merge(lists), c) = lists[c]

(* `Merge::run`: the view gets the backlogs. *)
LEMMA MergeLogs ==
    ASSUME LogInv, MergeKeepsEach, L!MergeRuns
    PROVE  LogInv'
  <1>1. ~merge.flushed /\ UNCHANGED <<now, pod, logs, task>>
    BY DEF L!MergeRuns, L!clusterVars
  <1>2. /\ merge' = [got |-> [c \in L!Containers |-> <<>>], flushed |-> TRUE]
        /\ shown' = [c \in L!Containers |-> shown[c] \o L!Of(Merge(merge.got), c)]
    BY DEF L!MergeRuns
  <1>3. \A c \in L!Containers : /\ merge.got[c] \in Seq(LineType) /\ shown[c] = <<>>
                                /\ View(c) = merge.got[c]
                                /\ \A i \in 1..Len(merge.got[c]) : merge.got[c][i].of = c
    <2> TAKE c \in L!Containers
    <2>1. Follows(c) /\ Merged(c) /\ View(c) = merge.got[c]
      BY <1>1 DEF LogInv, View
    <2> QED BY <1>1, <2>1 DEF Follows, FollowsLog, AreLines, Merged
  <1>4. merge.got \in [L!Containers -> Seq(LineType)]
    BY <1>3 DEF LogInv, LogShape
  <1>5. \A c \in L!Containers : L!Of(Merge(merge.got), c) = merge.got[c]
    BY <1>3, <1>4 DEF MergeKeepsEach
  <1>6. \A c \in L!Containers : shown'[c] = merge.got[c]
    BY <1>2, <1>3, <1>5, ConcatEmptySeq
  <1>7. merge'.flushed = TRUE /\ merge'.got = [c \in L!Containers |-> <<>>]
    BY <1>2
  <1>8. LogShape'
    <2>1. merge' \in [got : {merge'.got}, flushed : BOOLEAN]
      BY <1>2, <1>7
    <2>2. shown' = [c \in L!Containers |-> shown'[c]]
      BY <1>2
    <2>3. merge'.got = [c \in L!Containers |-> merge'.got[c]]
      BY <1>7
    <2> QED BY <1>1, <2>1, <2>2, <2>3 DEF LogInv, LogShape
  <1>9. ASSUME NEW c \in L!Containers
        PROVE  (Follows(c) /\ Merged(c))'
    <2>1. View(c)' = View(c)
      BY <1>3, <1>6, <1>7 DEF View
    <2>2. Follows(c)
      BY DEF LogInv
    <2>3. Follows(c)'
      BY <1>1, <2>1, <2>2 DEF Follows
    <2> QED BY <1>7, <2>3 DEF Merged
  <1> QED BY <1>8, <1>9 DEF LogInv

(* A connection ends, or breaks. *)
LEMMA EndsLogs ==
    ASSUME LogInv, NEW c \in L!Containers, L!Ends(c) \/ L!Breaks(c)
    PROVE  LogInv'
  <1>1. /\ task[c].phase \in {"connecting", "streaming"}
        /\ L!Becomes(c, L!Disconnected(task[c]))
        /\ UNCHANGED <<now, pod, logs, merge, shown>>
    BY DEF L!Ends, L!Breaks, L!clusterVars
  <1> QED BY <1>1, DisconnectedOK

(* A step of the cluster that leaves every container as it is followed. *)
LEMMA ClusterStep ==
    ASSUME LogInv, UNCHANGED <<task, merge, shown>>, pod' \in PodType,
           logs' = [c \in L!Containers |-> logs'[c]],
           \A c \in L!Containers :
              FollowsLog(c, View(c), logs'[c], Len(logs'[c]), task[c], now', pod'.uid,
                       pod'.there)
    PROVE  LogInv'
  <1>1. LogShape'
    BY DEF LogInv, LogShape
  <1>2. ASSUME NEW c \in L!Containers
        PROVE  (Follows(c) /\ Merged(c))'
    <2>1. View(c)' = View(c) /\ Merged(c)
      BY DEF View, LogInv
    <2> QED BY <2>1 DEF Follows, Merged
  <1> QED BY <1>1, <1>2 DEF LogInv

(* The pod starts, finishes or is deleted. *)
LEMMA PodLogs ==
    ASSUME LogInv, L!Starts \/ L!Finishes \/ L!Deleted
    PROVE  LogInv'
  <1>1. UNCHANGED <<now, logs, task, merge, shown>> /\ pod \in PodType
    BY DEF L!Starts, L!Finishes, L!Deleted, LogInv, LogShape
  <1>2. /\ pod' \in PodType /\ pod'.uid = pod.uid
        /\ pod'.there \in {pod.there, FALSE}
    BY <1>1 DEF L!Starts, L!Finishes, L!Deleted, PodType
  <1>3. ASSUME NEW c \in L!Containers
        PROVE  FollowsLog(c, View(c), logs'[c], Len(logs'[c]), task[c], now', pod'.uid,
                        pod'.there)
    <2>1. FollowsLog(c, View(c), logs[c], Len(logs[c]), task[c], now, pod.uid, pod.there)
      BY DEF LogInv, Follows
    <2>2. FollowsLog(c, View(c), logs[c], Len(logs[c]), task[c], now, pod.uid, FALSE)
      BY <2>1, PodGoes
    <2> QED BY <1>1, <1>2, <2>1, <2>2
  <1>4. logs' = [c \in L!Containers |-> logs'[c]]
    BY <1>1 DEF LogInv, LogShape
  <1> QED BY <1>1, <1>2, <1>3, <1>4, ClusterStep

(* What is followed of a container, with the number of its runs. *)
LEMMA FollowedRuns ==
    ASSUME LogInv, NEW c \in L!Containers
    PROVE  \E n \in Nat : /\ n = Len(logs[c]) /\ n = L!Run(c) /\ n \in 1..n
                          /\ logs[c] \in Seq(Seq(Nat)) /\ now \in Nat
                          /\ FollowsLog(c, View(c), logs[c], n, task[c], now, pod.uid,
                                      pod.there)
  <1>1. FollowsLog(c, View(c), logs[c], Len(logs[c]), task[c], now, pod.uid, pod.there)
    BY DEF LogInv, Follows
  <1>2. PICK n : n = Len(logs[c])
    OBVIOUS
  <1>3. n \in Nat /\ n >= 1 /\ logs[c] \in Seq(Seq(Nat)) /\ now \in Nat
    BY <1>1, <1>2 DEF FollowsLog, InTime
  <1>4. n \in 1..n
    BY <1>3
  <1> QED BY <1>1, <1>2, <1>3, <1>4 DEF L!Run

(* A container writes. *)
LEMMA WriteLogs ==
    ASSUME LogInv, None \notin Nat, NEW c \in L!Containers, NEW ts \in Nat, L!Write(c, ts)
    PROVE  LogInv'
  <1>1. PICK n \in Nat : /\ n = Len(logs[c]) /\ n = L!Run(c) /\ n \in 1..n
                         /\ logs[c] \in Seq(Seq(Nat)) /\ now \in Nat
                         /\ FollowsLog(c, View(c), logs[c], n, task[c], now, pod.uid,
                                     pod.there)
    BY FollowedRuns
  <1>2. now' = ts /\ ts >= now /\ UNCHANGED <<pod, task, merge, shown>>
    BY <1>1 DEF L!Write
  <1>3. PICK ms : ms = [logs[c] EXCEPT ![n] = Append(logs[c][n], ts)]
    OBVIOUS
  <1>4. logs' = [d \in L!Containers |-> IF d = c THEN ms ELSE logs[d]]
    <2>1. logs' = [logs EXCEPT ![c] = ms]
      BY <1>1, <1>3 DEF L!Write
    <2> QED BY <2>1 DEF LogInv, LogShape
  <1>5. FollowsLog(c, View(c), ms, n, task[c], ts, pod.uid, pod.there)
    BY <1>1, <1>2, <1>3, NewLine DEF Written
  <1>6. Len(ms) = n
    BY <1>5 DEF FollowsLog, InTime
  <1>7. ASSUME NEW d \in L!Containers
        PROVE  FollowsLog(d, View(d), logs'[d], Len(logs'[d]), task[d], now', pod'.uid,
                        pod'.there)
    <2>1. CASE d = c
      BY <1>2, <1>4, <1>5, <1>6, <2>1
    <2>2. CASE d # c
      <3>1. FollowsLog(d, View(d), logs[d], Len(logs[d]), task[d], now, pod.uid, pod.there)
        BY DEF LogInv, Follows
      <3>2. FollowsLog(d, View(d), logs[d], Len(logs[d]), task[d], ts, pod.uid, pod.there)
        BY <1>2, <3>1, TimeGoes
      <3> QED BY <1>2, <1>4, <2>2, <3>2
    <2> QED BY <2>1, <2>2
  <1>8. pod' \in PodType
    BY <1>2 DEF LogInv, LogShape
  <1>9. logs' = [d \in L!Containers |-> logs'[d]]
    BY <1>4
  <1> QED BY <1>2, <1>7, <1>8, <1>9, ClusterStep

(* A container restarts. *)
LEMMA RestartLogs ==
    ASSUME LogInv, NEW c \in L!Containers, L!Restarts(c)
    PROVE  LogInv'
  <1>1. PICK n \in Nat : /\ n = Len(logs[c]) /\ n = L!Run(c) /\ n \in 1..n
                         /\ logs[c] \in Seq(Seq(Nat)) /\ now \in Nat
                         /\ FollowsLog(c, View(c), logs[c], n, task[c], now, pod.uid,
                                     pod.there)
    BY FollowedRuns
  <1>2. now' = now + 1 /\ UNCHANGED <<pod, task, merge, shown>> /\ pod \in PodType
    BY DEF L!Restarts, LogInv, LogShape
  <1>3. logs' = [d \in L!Containers |-> IF d = c THEN Append(logs[d], <<>>) ELSE logs[d]]
    BY DEF L!Restarts, LogInv, LogShape
  <1>4. pod.uid \in Nat /\ pod.there \in BOOLEAN /\ pod.uid >= pod.uid
    BY <1>2 DEF PodType
  <1>5. FollowsLog(c, View(c), Append(logs[c], <<>>), n + 1, task[c], now + 1, pod.uid,
                 pod.there)
    BY <1>1, <1>4, NewRun
  <1>6. Len(Append(logs[c], <<>>)) = n + 1
    BY <1>5 DEF FollowsLog, InTime
  <1>7. now + 1 \in Nat /\ now + 1 >= now
    BY <1>1
  <1>8. ASSUME NEW d \in L!Containers
        PROVE  FollowsLog(d, View(d), logs'[d], Len(logs'[d]), task[d], now', pod'.uid,
                        pod'.there)
    <2>1. CASE d = c
      BY <1>2, <1>3, <1>5, <1>6, <2>1
    <2>2. CASE d # c
      <3>1. FollowsLog(d, View(d), logs[d], Len(logs[d]), task[d], now, pod.uid, pod.there)
        BY DEF LogInv, Follows
      <3>2. FollowsLog(d, View(d), logs[d], Len(logs[d]), task[d], now + 1, pod.uid,
                     pod.there)
        BY <1>7, <3>1, TimeGoes
      <3> QED BY <1>2, <1>3, <2>2, <3>2
    <2> QED BY <2>1, <2>2
  <1>9. logs' = [d \in L!Containers |-> logs'[d]]
    BY <1>3
  <1> QED BY <1>2, <1>8, <1>9, ClusterStep

(* The pod is recreated under its name. *)
LEMMA RecreatedLogs ==
    ASSUME LogInv, NEW has \in SUBSET L!Containers, L!Recreated(has)
    PROVE  LogInv'
  <1>1. /\ now' = now + 1 /\ UNCHANGED <<task, merge, shown>> /\ pod \in PodType
        /\ logs' = [c \in L!Containers |-> Append(logs[c], <<>>)]
        /\ pod' = [uid |-> pod.uid + 1, there |-> TRUE, has |-> has,
                   started |-> FALSE, finished |-> FALSE]
    BY DEF L!Recreated, LogInv, LogShape
  <1>2. PICK uid \in Nat : uid = pod.uid + 1 /\ uid >= pod.uid
    BY <1>1 DEF PodType
  <1>3. pod' \in PodType /\ pod'.uid = uid /\ pod'.there = TRUE
    BY <1>1, <1>2 DEF PodType
  <1>4. ASSUME NEW c \in L!Containers
        PROVE  FollowsLog(c, View(c), logs'[c], Len(logs'[c]), task[c], now', pod'.uid,
                        pod'.there)
    <2>1. PICK n \in Nat : FollowsLog(c, View(c), logs[c], n, task[c], now, pod.uid,
                                    pod.there)
      BY FollowedRuns
    <2>2. FollowsLog(c, View(c), Append(logs[c], <<>>), n + 1, task[c], now + 1, uid, TRUE)
      BY <1>2, <2>1, NewRun
    <2>3. Len(Append(logs[c], <<>>)) = n + 1
      BY <2>2 DEF FollowsLog, InTime
    <2> QED BY <1>1, <1>3, <2>2, <2>3
  <1>5. logs' = [c \in L!Containers |-> logs'[c]]
    BY <1>1
  <1> QED BY <1>1, <1>3, <1>4, <1>5, ClusterStep

(* The invariant holds when `run` has started the tasks. *)
LEMMA LogInit ==
    ASSUME L!Parameters, L!Init
    PROVE  LogInv
  <1>1. /\ now = 0
        /\ pod \in [uid : {1}, there : {TRUE}, has : {L!Containers}, started : BOOLEAN,
                    finished : {FALSE}]
        /\ logs = [c \in L!Containers |-> <<<<>>>>]
        /\ task = [c \in L!Containers |-> L!NewTask]
        /\ merge = [got |-> [c \in L!Containers |-> <<>>], flushed |-> FALSE]
        /\ shown = [c \in L!Containers |-> <<>>]
    BY DEF L!Init
  <1>2. pod \in PodType /\ pod.uid = 1 /\ pod.there = TRUE
    <2>1. PICK s \in BOOLEAN : pod = [uid |-> 1, there |-> TRUE, has |-> L!Containers,
                                      started |-> s, finished |-> FALSE]
      BY <1>1
    <2> QED BY <2>1 DEF PodType
  <1>3. LogShape
    BY <1>1, <1>2 DEF LogShape
  <1>4. L!NewTask \in TaskType
    BY DEF L!NewTask, TaskType, L!Phases
  <1>5. ASSUME NEW c \in L!Containers
        PROVE  Follows(c) /\ Merged(c)
    <2>1. /\ logs[c] = <<<<>>>> /\ task[c] = L!NewTask /\ shown[c] = <<>>
          /\ View(c) = <<>> /\ merge.flushed = FALSE
      BY <1>1 DEF View
    <2>2. Merged(c)
      BY <2>1 DEF Merged, L!NewTask
    <2> DEFINE ls == <<<<>>>>
               view == <<>>
    <2>3. ls \in Seq(Seq(Nat)) /\ Len(ls) = 1 /\ ls[1] = <<>>
      OBVIOUS
    <2>4. view \in Seq(LineType) /\ Len(view) = 0
      OBVIOUS
    <2>5. InTime(ls, 1, 0)
      BY <2>3 DEF InTime
    <2>6. AreLines(c, view, ls, 1) /\ InOrder(view, ls) /\ Gapless(view, ls)
      BY <2>4 DEF AreLines, InOrder, Gapless
    <2>7. UpToLast(view, 1, ls[1], L!NewTask) /\ OfPod(view, 1, L!NewTask, 1, TRUE)
      BY <2>4 DEF UpToLast, OfPod, L!NewTask
    <2>8. UpToPos(view, 1, ls[1], L!NewTask) /\ Begins(view, L!NewTask)
      BY DEF UpToPos, Begins, L!NewTask
    <2>9. Resumes(ls, 1, L!NewTask)
      BY DEF Resumes, L!NewTask
    <2>10. FollowsLog(c, view, ls, 1, L!NewTask, 0, 1, TRUE)
      BY <1>4, <2>5, <2>6, <2>7, <2>8, <2>9 DEF FollowsLog
    <2> QED BY <1>1, <1>2, <2>1, <2>2, <2>3, <2>10 DEF Follows
  <1> QED BY <1>3, <1>5 DEF LogInv

(* Every step keeps the invariant. *)
LEMMA LogStep ==
    ASSUME L!Parameters, MergeKeepsEach, LogInv, [L!Next]_(L!vars)
    PROVE  LogInv'
  <1>1. None \notin Nat /\ MaxTime \in Nat
    BY DEF L!Parameters
  <1>2. CASE UNCHANGED L!vars
    <2>1. UNCHANGED <<now, pod, logs, task, merge, shown>>
      BY <1>2 DEF L!vars, L!clusterVars
    <2>2. \A c \in L!Containers : View(c)' = View(c)
      BY <2>1 DEF View
    <2> QED BY <2>1, <2>2 DEF LogInv, LogShape, Follows, Merged
  <1>3. ASSUME NEW c \in L!Containers, L!TaskSteps(c) \/ L!Faults(c)
        PROVE  LogInv'
    <2>1. CASE L!Fetch(c, FALSE) \/ L!Fetch(c, TRUE)
      BY <2>1, FetchLogs
    <2>2. CASE L!Waited(c)
      BY <2>2, WaitedLogs
    <2>3. CASE L!Look(c)
      BY <1>1, <2>3, LookLogs
    <2>4. CASE L!LookFails(c)
      BY <2>4, LookFailsLogs
    <2>5. CASE L!Connect(c)
      BY <2>5, ConnectLogs
    <2>6. CASE L!Read(c)
      BY <1>1, <2>6, ReadLogs
    <2>7. CASE L!Ends(c) \/ L!Breaks(c)
      BY <2>7, EndsLogs
    <2> QED BY <1>3, <2>1, <2>2, <2>3, <2>4, <2>5, <2>6, <2>7 DEF L!TaskSteps, L!Faults
  <1>4. CASE L!MergeRuns
    BY <1>4, MergeLogs
  <1>5. CASE L!Cluster
    <2>1. ASSUME NEW c \in L!Containers, NEW ts \in 0..MaxTime, L!Write(c, ts)
          PROVE  LogInv'
      <3>1. ts \in Nat
        BY <1>1
      <3> QED BY <1>1, <2>1, <3>1, WriteLogs
    <2>2. ASSUME NEW c \in L!Containers, L!Restarts(c)
          PROVE  LogInv'
      BY <2>2, RestartLogs
    <2>3. CASE L!Starts \/ L!Finishes \/ L!Deleted
      BY <2>3, PodLogs
    <2>4. ASSUME NEW has \in SUBSET L!Containers, L!Recreated(has)
          PROVE  LogInv'
      BY <2>4, RecreatedLogs
    <2> QED BY <1>5, <2>1, <2>2, <2>3, <2>4 DEF L!Cluster
  <1> QED BY <1>2, <1>3, <1>4, <1>5 DEF L!Next

(* The invariant says what `OnceInOrder` and `NothingLeftOut` say, of the   *)
(* lines in the view: before the merge there are none.                      *)
LEMMA LogInvShows ==
    ASSUME LogInv
    PROVE  OnceInOrder /\ NothingLeftOut
  <1>1. ASSUME NEW c \in L!Containers, NEW j \in DOMAIN shown[c], NEW i \in 1..(j - 1)
        PROVE  /\ j \in 1..Len(shown[c])
               /\ shown[c] \in Seq(LineType)
               /\ InOrder(shown[c], logs[c]) /\ Gapless(shown[c], logs[c])
    <2>1. Follows(c) /\ Merged(c)
      BY DEF LogInv
    <2>2. shown[c] # <<>>
      OBVIOUS
    <2>3. View(c) = shown[c]
      BY <2>1, <2>2 DEF Merged, View
    <2> QED BY <2>1, <2>3, LenProperties DEF Follows, FollowsLog, AreLines
  <1>2. OnceInOrder
    <2> SUFFICES ASSUME NEW c \in L!Containers, NEW j \in DOMAIN shown[c],
                        NEW i \in 1..(j - 1)
                 PROVE  \/ Earlier(shown[c][i], shown[c][j])
                        \/ shown[c][i].strayed \/ shown[c][j].strayed
                        \/ ~Lone(logs[c][shown[c][i].run], shown[c][i].index)
                        \/ ~Lone(logs[c][shown[c][j].run], shown[c][j].index)
      BY DEF OnceInOrder, Containers, L!Containers
    <2> QED BY <1>1 DEF InOrder, LoneLine
  <1>3. NothingLeftOut
    <2> SUFFICES ASSUME NEW c \in L!Containers, NEW j \in DOMAIN shown[c],
                        NEW i \in 1..(j - 1),
                        shown[c][i].run = shown[c][j].run, ~shown[c][i].strayed,
                        NEW k \in (shown[c][i].index + 1)..(shown[c][j].index - 1),
                        Lone(logs[c][shown[c][i].run], k)
                 PROVE  \E l \in Range(shown[c]) : l.run = shown[c][i].run /\ l.index = k
      BY DEF NothingLeftOut, Containers, L!Containers
    <2>1. Has(shown[c], shown[c][i].run, k)
      BY <1>1 DEF Gapless
    <2>2. PICK m \in 1..Len(shown[c]) :
             shown[c][m].run = shown[c][i].run /\ shown[c][m].index = k
      BY <2>1 DEF Has
    <2>3. m \in DOMAIN shown[c]
      BY <1>1, <2>2, LenProperties
    <2>4. shown[c][m] \in Range(shown[c])
      BY <2>3 DEF Range
    <2> QED BY <2>2, <2>4
  <1> QED BY <1>2, <1>3

(* Over all reconnects, restarts and recreated pods, for any number of      *)
(* containers, lines and breaks, the view gets each line once and in the    *)
(* order it was written, with the exceptions `OnceInOrder` names.           *)
THEOREM LinesOnceInOrder ==
    ASSUME L!Parameters, MergeKeepsEach
    PROVE  L!Spec => []OnceInOrder
  <1>1. L!Init => LogInv
    BY LogInit
  <1>2. LogInv /\ [L!Next]_(L!vars) => LogInv'
    BY LogStep
  <1>3. LogInv => OnceInOrder
    BY LogInvShows
  <1> QED BY <1>1, <1>2, <1>3, PTL DEF L!Spec

(* And no line between two that are shown is left out: what a reconnect     *)
(* passes over as delivered was delivered, with the same exceptions.        *)
THEOREM NoLineLeftOut ==
    ASSUME L!Parameters, MergeKeepsEach
    PROVE  L!Spec => []NothingLeftOut
  <1>1. L!Init => LogInv
    BY LogInit
  <1>2. LogInv /\ [L!Next]_(L!vars) => LogInv'
    BY LogStep
  <1>3. LogInv => NothingLeftOut
    BY LogInvShows
  <1> QED BY <1>1, <1>2, <1>3, PTL DEF L!Spec
=============================================================================
