----------------------------- MODULE Discovery ------------------------------
(***************************************************************************)
(* What a connected cluster of `ManagerCore` knows of the API: the watch of *)
(* custom resource definitions (kubyl_kube_core/watches.rs `watch_crds`),   *)
(* the batches the host takes from it and the discoveries they start        *)
(* (manager.rs `start_watches`, `rediscover_unserved`, `run_discovery`).    *)
(*                                                                         *)
(* One connection, from `finish_connect` on: another attempt drops all of   *)
(* this (module Connections).  The API server and kube's `watcher` stream   *)
(* are external: a stream starts with a list, reports changes in order, and *)
(* may break, which loses what was on its way and starts another list.      *)
(***************************************************************************)
EXTENDS Naturals, Sequences, FiniteSets, SequencesExt

CONSTANTS
    CRDs,               \* names of custom resource definitions
    Shapes,             \* what discovery can show of one (`CrdShape`)
    None,               \* absence: no such CRD, nothing fetched or told
    UnservedRetries,    \* `UNSERVED_RETRIES`
    MaxChanges,         \* bound: changes on the server
    MaxBreaks,          \* bound: breaks of the watch
    MaxRuns             \* bound: discoveries

Crd == [generation : Nat, shape : Shapes, established : BOOLEAN]

ASSUME DiscoveryAssumption ==
    /\ None \notin Shapes \union Nat \union Crd
    /\ UnservedRetries \in Nat /\ MaxChanges \in Nat /\ MaxBreaks \in Nat
    /\ MaxRuns \in Nat \ {0}

VARIABLES
    server,     \* the CRDs there are, and whether they are served yet
    stream,     \* the watch: "listing", "watching" or "ended"
    events,     \* what the stream delivers next
    known,      \* `watch_crds`: `generations`, `shapes` and `ready`
    lists,      \* the messages of the watch the host did not take yet
    crds,       \* `Cluster.crds`, None before the first list
    retries,    \* `unserved_retries`
    discovery,  \* `discovery`: the CRDs it serves, or None
    tasks,      \* timers and discoveries under way
    changes, breaks, runs,  \* changes, breaks and discoveries so far
    batches,    \* batches so far (history)
    failed,     \* whether a discovery failed (history)
    told,       \* the shapes when the watch last sent a message (history)
    past,       \* the shapes each CRD had (history)
    unusual     \* CRDs that came back or changed back (history)

serverVars == <<server, changes, past, unusual>>
watchVars == <<stream, events, known, breaks, told>>
hostVars == <<crds, retries, discovery, tasks, runs, batches, failed>>
vars == <<serverVars, watchVars, lists, hostVars>>

-----------------------------------------------------------------------------
Names == {c \in CRDs : server[c] # None}

Served == {c \in Names : server[c].established}

Generations == [c \in CRDs |-> IF c \in Names THEN server[c].generation ELSE None]

ShapesNow == [c \in CRDs |-> IF c \in Names THEN server[c].shape ELSE None]

MaybeNat == Nat \union {None}
MaybeShape == Shapes \union {None}

Event == [kind : {"list"}, generations : [CRDs -> MaybeNat],
          shapes : [CRDs -> MaybeShape]]
           \union [kind : {"apply"}, crd : CRDs, generation : Nat]
           \union [kind : {"delete"}, crd : CRDs]

(* A timer of `rediscover_unserved`, a discovery that asks the server, or   *)
(* one whose result waits for its callback.  `run` tells them apart.        *)
Task == [kind : {"timer", "asking"}, run : Nat]
          \union [kind : {"result"}, run : Nat, found : SUBSET CRDs]

-----------------------------------------------------------------------------
(* The server changes c; a stream that watches reports it. *)
Change(c, crd, event) ==
    /\ changes < MaxChanges
    /\ changes' = changes + 1
    /\ server' = [server EXCEPT ![c] = crd]
    /\ events' = IF stream = "watching" THEN Append(events, event) ELSE events
    /\ past' = [past EXCEPT ![c] = IF crd = None THEN @
                                   ELSE @ \union {crd.shape}]
    /\ unusual' = IF crd # None /\ crd.shape # ShapesNow[c]
                       /\ \/ crd.shape \in past[c]
                          \/ server[c] = None /\ past[c] # {}
                  THEN unusual \union {c} ELSE unusual
    /\ UNCHANGED <<stream, known, breaks, told, lists>> /\ UNCHANGED hostVars

Applies(c, generation) ==
    [kind |-> "apply", crd |-> c, generation |-> generation]

(* A CRD is created, not yet Established. *)
Create(c, shape) ==
    /\ server[c] = None
    /\ Change(c, [generation |-> 1, shape |-> shape, established |-> FALSE],
              Applies(c, 1))

(* It is served from now on: a status update. *)
Establish(c) ==
    /\ c \in Names \ Served
    /\ Change(c, [server[c] EXCEPT !.established = TRUE],
              Applies(c, server[c].generation))

(* Its spec changes, in what discovery shows or in something else. *)
ChangeSpec(c, shape) ==
    /\ c \in Names
    /\ Change(c, [server[c] EXCEPT !.generation = @ + 1, !.shape = shape],
              Applies(c, server[c].generation + 1))

Delete(c) ==
    /\ c \in Names
    /\ Change(c, None, [kind |-> "delete", crd |-> c])

-----------------------------------------------------------------------------
(* The stream lists (`Init`, `InitApply`, `InitDone`; only the last does    *)
(* something that shows) and watches from there.                            *)
Lists ==
    /\ stream = "listing"
    /\ stream' = "watching"
    /\ events' = <<[kind |-> "list", generations |-> Generations,
                    shapes |-> ShapesNow]>>
    /\ UNCHANGED <<known, breaks, told, lists>>
    /\ UNCHANGED serverVars /\ UNCHANGED hostVars

(* The watch breaks: what was not delivered yet is lost. *)
Breaks ==
    /\ stream = "watching"
    /\ breaks < MaxBreaks
    /\ breaks' = breaks + 1
    /\ stream' = "listing"
    /\ events' = <<>>
    /\ UNCHANGED <<known, told, lists>>
    /\ UNCHANGED serverVars /\ UNCHANGED hostVars

(* Listing or watching is forbidden: `watch_crds` returns. *)
Forbidden ==
    /\ stream # "ended"
    /\ stream' = "ended"
    /\ events' = <<>>
    /\ UNCHANGED <<known, breaks, told, lists>>
    /\ UNCHANGED serverVars /\ UNCHANGED hostVars

(* `shape_changed`: c is fetched; `read` is false when that fails. *)
Fetched(c, read) == IF read THEN ShapesNow[c] ELSE None

(* Mutant: a CRD that was never fetched counts as unchanged. *)
ShapeChangedIfKnown(c, read) ==
    LET shape == Fetched(c, read)
    IN  shape = None \/ known.shapes[c] \notin {shape, None}

ShapeChanged(c, read) ==
    LET shape == Fetched(c, read)
    IN  shape = None \/ known.shapes[c] # shape

(* What `watch_crds` knows next, and whether it sends the names. *)
Knows(generations, shapes, changed, at) ==
    /\ known' = [generations |-> generations, shapes |-> shapes, ready |-> TRUE]
    /\ lists' = IF changed
                THEN Append(lists, {c \in CRDs : generations[c] # None})
                ELSE lists
    /\ told' = IF changed THEN at ELSE told

(* `InitDone`: the first list is sent; a later one if it has other names or *)
(* if the shape of a CRD changed meanwhile.                                 *)
TakeList(e, read) ==
    LET g == e.generations
        bumped == {c \in CRDs : known.generations[c] # g[c]}
    IN  IF ~known.ready THEN Knows(g, known.shapes, TRUE, e.shapes)
        ELSE IF \E c \in bumped : None \in {g[c], known.generations[c]}
        THEN Knows(g, [c \in CRDs |-> IF g[c] # None /\ c \notin bumped
                                      THEN known.shapes[c] ELSE None],
                   TRUE, ShapesNow)
        ELSE Knows(g, [c \in CRDs |-> IF c \in bumped THEN Fetched(c, c \in read)
                                      ELSE known.shapes[c]],
                   \E c \in bumped : ShapeChanged(c, c \in read), ShapesNow)

(* `Apply`: a new CRD, the same generation (a status), or a new one. *)
TakeApply(e, read) ==
    LET c == e.crd
        g == [known.generations EXCEPT ![c] = e.generation]
    IN  IF known.generations[c] = None THEN Knows(g, known.shapes, TRUE, ShapesNow)
        ELSE IF known.generations[c] = e.generation
        THEN Knows(g, known.shapes, FALSE, told)
        ELSE Knows(g, [known.shapes EXCEPT ![c] = Fetched(c, c \in read)],
                   ShapeChanged(c, c \in read), ShapesNow)

TakeDelete(e) ==
    Knows([known.generations EXCEPT ![e.crd] = None],
          [known.shapes EXCEPT ![e.crd] = None],
          known.generations[e.crd] # None, ShapesNow)

(* `watch_crds` takes the next event; `read` are the CRDs that can be       *)
(* fetched.                                                                 *)
TakeEvent(read) ==
    /\ events # <<>>
    /\ LET e == Head(events) IN
       CASE e.kind = "list" -> TakeList(e, read)
         [] e.kind = "apply" -> TakeApply(e, read)
         [] e.kind = "delete" -> TakeDelete(e)
    /\ events' = Tail(events)
    /\ UNCHANGED <<stream, breaks>>
    /\ UNCHANGED serverVars /\ UNCHANGED hostVars

-----------------------------------------------------------------------------
(* `run_discovery`, with the tasks of before. *)
RunDiscovery(before) ==
    /\ runs < MaxRuns
    /\ runs' = runs + 1
    /\ tasks' = before \union {[kind |-> "asking", run |-> runs + 1]}

(* Mutant: the retries are not counted. *)
RediscoverUncounted(known_crds, found, before) ==
    IF found # None /\ known_crds # None /\ ~(known_crds \subseteq found)
         /\ retries < UnservedRetries
    THEN /\ runs < MaxRuns
         /\ runs' = runs + 1
         /\ tasks' = before \union {[kind |-> "timer", run |-> runs + 1]}
         /\ UNCHANGED retries
    ELSE tasks' = before /\ UNCHANGED <<retries, runs>>

(* `rediscover_unserved`: a timer, if a listed CRD is not in discovery. *)
RediscoverUnserved(known_crds, found, before) ==
    IF found # None /\ known_crds # None /\ ~(known_crds \subseteq found)
         /\ retries < UnservedRetries
    THEN /\ runs < MaxRuns
         /\ runs' = runs + 1
         /\ retries' = retries + 1
         /\ tasks' = before \union {[kind |-> "timer", run |-> runs + 1]}
    ELSE tasks' = before /\ UNCHANGED <<retries, runs>>

(* The host takes all messages of the watch; the last one counts.  The      *)
(* first batch only looks for CRDs that are not served.                     *)
TakeLists ==
    /\ lists # <<>>
    /\ lists' = <<>>
    /\ crds' = Last(lists)
    /\ batches' = batches + 1
    /\ IF batches > 0
       THEN retries' = 0 /\ RunDiscovery(tasks)
       ELSE RediscoverUnserved(Last(lists), discovery, tasks)
    /\ UNCHANGED <<discovery, failed>>
    /\ UNCHANGED serverVars /\ UNCHANGED watchVars

TimerFires(t) ==
    /\ t.kind = "timer"
    /\ tasks' = (tasks \ {t}) \union {[kind |-> "asking", run |-> t.run]}
    /\ UNCHANGED <<lists, crds, retries, discovery, runs, batches, failed>>
    /\ UNCHANGED serverVars /\ UNCHANGED watchVars

(* `discover` reads what is served. *)
Discover(t) ==
    /\ t.kind = "asking"
    /\ tasks' = (tasks \ {t}) \union
                  {[kind |-> "result", run |-> t.run, found |-> Served]}
    /\ UNCHANGED <<lists, crds, retries, discovery, runs, batches, failed>>
    /\ UNCHANGED serverVars /\ UNCHANGED watchVars

(* Mutant: a discovery that is done does not look for missing CRDs. *)
DiscoveryDoneOnly(t) ==
    /\ t.kind = "result"
    /\ discovery' = t.found
    /\ tasks' = tasks \ {t}
    /\ UNCHANGED <<lists, crds, batches, failed, retries, runs>>
    /\ UNCHANGED serverVars /\ UNCHANGED watchVars

(* The callback of a discovery that worked, in any order. *)
DiscoveryDone(t) ==
    /\ t.kind = "result"
    /\ discovery' = t.found
    /\ RediscoverUnserved(crds, t.found, tasks \ {t})
    /\ UNCHANGED <<lists, crds, batches, failed>>
    /\ UNCHANGED serverVars /\ UNCHANGED watchVars

(* It failed: a warning is logged. *)
DiscoveryFails(t) ==
    /\ t.kind = "asking"
    /\ tasks' = tasks \ {t}
    /\ failed' = TRUE
    /\ UNCHANGED <<lists, crds, retries, discovery, runs, batches>>
    /\ UNCHANGED serverVars /\ UNCHANGED watchVars

-----------------------------------------------------------------------------
(* The cluster connected: `start_watches`, then `run_discovery`. *)
Init ==
    /\ server \in [CRDs -> {None} \union
                     {[generation |-> 1, shape |-> s, established |-> TRUE] :
                         s \in Shapes}]
    /\ stream = "listing"
    /\ events = <<>>
    /\ known = [generations |-> [c \in CRDs |-> None],
                shapes |-> [c \in CRDs |-> None], ready |-> FALSE]
    /\ lists = <<>>
    /\ crds = None
    /\ retries = 0
    /\ discovery = None
    /\ tasks = {[kind |-> "asking", run |-> 1]}
    /\ changes = 0 /\ breaks = 0 /\ runs = 1 /\ batches = 0
    /\ failed = FALSE
    /\ told = [c \in CRDs |-> None]
    /\ past = [c \in CRDs |-> IF server[c] = None THEN {} ELSE {server[c].shape}]
    /\ unusual = {}

Server == \E c \in CRDs : \/ \E s \in Shapes : Create(c, s) \/ ChangeSpec(c, s)
                          \/ Establish(c) \/ Delete(c)

Watch == Lists \/ Breaks \/ Forbidden \/ \E read \in SUBSET CRDs : TakeEvent(read)

Host == \/ TakeLists
        \/ \E t \in tasks : \/ TimerFires(t) \/ Discover(t)
                            \/ DiscoveryDone(t) \/ DiscoveryFails(t)

Next == Server \/ Watch \/ Host

Spec == Init /\ [][Next]_vars

-----------------------------------------------------------------------------
(* Every variable keeps to its type. *)
TypeOK ==
    /\ server \in [CRDs -> Crd \union {None}]
    /\ stream \in {"listing", "watching", "ended"}
    /\ events \in Seq(Event)
    /\ known \in [generations : [CRDs -> MaybeNat], shapes : [CRDs -> MaybeShape],
                  ready : BOOLEAN]
    /\ lists \in Seq(SUBSET CRDs)
    /\ crds \in (SUBSET CRDs) \union {None}
    /\ retries \in 0..UnservedRetries
    /\ discovery \in (SUBSET CRDs) \union {None}
    /\ tasks \in SUBSET Task
    /\ changes \in 0..MaxChanges /\ breaks \in 0..MaxBreaks /\ runs \in 0..MaxRuns
    /\ batches \in Nat
    /\ failed \in BOOLEAN
    /\ told \in [CRDs -> MaybeShape]
    /\ past \in [CRDs -> SUBSET Shapes]
    /\ unusual \in SUBSET CRDs

CaughtUp == stream = "watching" /\ events = <<>>

(* The watch sent a message after the last change of a CRD that discovery   *)
(* shows ("or its spec changes in a way discovery sees"), whichever fetches *)
(* failed or came late and whatever a break lost, but for a CRD that was    *)
(* created again or changed back to an earlier shape.                       *)
ChangesAreTold ==
    CaughtUp => \A c \in Names \ unusual : told[c] = ShapesNow[c]

(* "While a CRD the watch listed isn't in discovery, discovery re-runs (a   *)
(* few times)": a discovery or its timer is under way.                      *)
UnservedIsRetried ==
    /\ discovery # None /\ crds # None /\ ~(crds \subseteq discovery)
    /\ retries < UnservedRetries
    => tasks # {}

(* The same as long as no discovery failed, in whatever order overlapping   *)
(* discoveries end.                                                         *)
UnservedIsRetriedUnlessFailed == ~failed => UnservedIsRetried

(* A CRD that is never served does not keep discovery running: the connect  *)
(* and every later batch of the watch cause one discovery and at most       *)
(* `UNSERVED_RETRIES` more, however many of them overlap.                   *)
RunsAreBounded ==
    runs <= (1 + UnservedRetries) * (IF batches = 0 THEN 1 ELSE batches)
=============================================================================
