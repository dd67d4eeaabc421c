------------------------------ MODULE Entries -------------------------------
(***************************************************************************)
(* How the connections of `ManagerCore` follow the sidebar entries          *)
(* (kubyl_kube_core/manager.rs `apply_entries`): a connection moves to its  *)
(* entry's new id without reconnecting.  Its tasks keep the id they were    *)
(* started with.  Module EntryIds has the entries of a kubeconfig.          *)
(***************************************************************************)
EXTENDS EntryIds

CONSTANTS
    Contents,       \* what a user entry can say
    Kubes,          \* the kubeconfigs and grouping settings that can be loaded
    MaxAttempts,    \* bound: connection attempts
    MaxLoads,       \* bound: loads and changes of the grouping
    MaxRekeys       \* bound: how often connections move to another id

(* A kubeconfig (the user entry of each context, what the entries say, the  *)
(* current context) and the grouping settings.                              *)
Kube == [user : [Names -> Users \union {Absent}], contents : [Users -> Contents],
         current : Names \union {Absent}, group_contexts : BOOLEAN,
         separate : SUBSET Users]

Parameters ==
    /\ Names \subseteq Nat /\ Users \subseteq Nat /\ Kubes \subseteq Kube
    /\ Absent \notin Names \union Users \union Ids
    /\ MaxAttempts \in Nat /\ MaxLoads \in Nat /\ MaxRekeys \in Nat

ASSUME EntriesAssumption == Parameters

VARIABLES
    active,     \* `active`
    attempts,   \* attempts so far
    loads,      \* loads so far
    rekeys      \* moves so far

vars == <<kube, clusters, aliases, active, attempts, loads, rekeys>>

(* A connection: `attempt` is its own, whatever id it is kept under;         *)
(* `started_as` is the id its tasks look it up with, and `reused` whether   *)
(* that id has come to stand for something else since it moved (history).   *)
Connection == [attempt : Nat, generation : Nat, started_as : Ids,
               contents : Contents, open : BOOLEAN, reused : BOOLEAN]

-----------------------------------------------------------------------------
(* `connect` of an entry: a new generation, whose tasks keep this id. *)
Attempt(id, k, generation) ==
    [attempt |-> attempts + 1, generation |-> generation, started_as |-> id,
     contents |-> Fingerprint(k, id), open |-> TRUE, reused |-> FALSE]

Connect(id) ==
    /\ id \in Entries(kube)
    /\ attempts < MaxAttempts
    /\ attempts' = attempts + 1
    /\ clusters' = [clusters EXCEPT ![id] =
           Attempt(id, kube, IF clusters[id] = Absent THEN 1
                             ELSE clusters[id].generation + 1)]
    /\ UNCHANGED <<kube, aliases, active, loads, rekeys>>

(* `disconnect` keeps only the generation. *)
Disconnect(id) ==
    /\ clusters[id] # Absent
    /\ clusters[id].open
    /\ clusters' = [clusters EXCEPT ![id].open = FALSE,
                                    ![id].generation = @ + 1]
    /\ UNCHANGED <<kube, aliases, active, attempts, loads, rekeys>>

Activate(id) ==
    /\ id \in Entries(kube)
    /\ active' = id
    /\ UNCHANGED <<kube, clusters, aliases, attempts, loads, rekeys>>

-----------------------------------------------------------------------------
Gone(new) == {id \in Ids : clusters[id] # Absent /\ id \notin Entries(new)}

(* Mutant: a connection moves although its entry now says something else. *)
SameConnectionById(new, id, to) ==
    /\ to \in Entries(new)
    /\ clusters[to] = Absent

(* The connection of a gone id can go on as `to`. *)
SameConnection(new, id, to) ==
    /\ to \in Entries(new)
    /\ clusters[to] = Absent
    /\ Fingerprint(kube, id) = Fingerprint(new, to)

(* The moves of `apply_entries`: each gone connection that can go on does,  *)
(* unless another one took its place (`clusters` has no order).             *)
Moves(new) ==
    LET to(id) == ResolveIn(new, aliases, id)
        can == {id \in Gone(new) : SameConnection(new, id, to(id))}
    IN  {S \in SUBSET {<<id, to(id)>> : id \in can} :
            \A id \in can : Cardinality({m \in S : m[2] = to(id)}) = 1}

(* The id a connection was started as is an entry, or a member of another   *)
(* entry than the one it is kept under.                                     *)
Reused(new, started_as, id) ==
    /\ started_as # id
    /\ \/ started_as \in Entries(new)
       \/ Member(new, started_as) /\ EntryOf(new, started_as.name) # id

(* A connection as it is kept under an id after a load. *)
Kept(new, c, id) ==
    IF c = Absent THEN Absent
    ELSE [c EXCEPT !.reused = @ \/ Reused(new, c.started_as, id)]

(* The connections after the moves S. *)
Moved(new, S) ==
    [id \in Ids |->
        IF \E m \in S : m[2] = id
        THEN Kept(new, clusters[(CHOOSE m \in S : m[2] = id)[1]], id)
        ELSE IF id \in Gone(new) THEN Absent ELSE Kept(new, clusters[id], id)]

(* Mutant: a move leaves no alias. *)
AliasesForgotten(S) == aliases

(* Aliases after the moves S: those that led to a moved id follow it. *)
Aliases(S) ==
    LET to(id) == (CHOOSE m \in S : m[1] = id)[2]
        moved(id) == \E m \in S : m[1] = id
    IN  [id \in Ids |-> IF moved(id) THEN to(id)
                        ELSE IF aliases[id] # Absent /\ moved(aliases[id])
                             THEN to(aliases[id])
                        ELSE aliases[id]]

(* Connections that stay, are open and whose entry changed. *)
Changed(new) ==
    {id \in Entries(new) : /\ clusters[id] # Absent
                           /\ clusters[id].open
                           /\ Fingerprint(kube, id) # Fingerprint(new, id)}

(* The active cluster follows its connection, and is cleared when it        *)
(* resolves to no entry.                                                    *)
ActiveAfter(new, S) ==
    LET to == IF \E m \in S : m[1] = active
              THEN (CHOOSE m \in S : m[1] = active)[2] ELSE active
    IN  IF to # Absent /\ ResolveIn(new, Aliases(S), to) \in Entries(new)
        THEN to ELSE Absent

(* `apply_entries` after a load or a change of the grouping settings. *)
ApplyEntries(new) ==
    /\ loads < MaxLoads
    /\ new # kube
    /\ \E S \in Moves(new) :
         LET changed == Changed(new) IN
         /\ rekeys + Cardinality(S) <= MaxRekeys
         /\ attempts + Cardinality(changed) <= MaxAttempts
         /\ attempts' = attempts + Cardinality(changed)
         /\ rekeys' = rekeys + Cardinality(S)
         /\ clusters' = [id \in Ids |->
                IF id \in changed
                THEN Attempt(id, new, clusters[id].generation + 1)
                ELSE Moved(new, S)[id]]
         /\ aliases' = Aliases(S)
         /\ active' = ActiveAfter(new, S)
    /\ kube' = new
    /\ loads' = loads + 1

-----------------------------------------------------------------------------
Init ==
    /\ kube \in Kubes
    /\ clusters = [id \in Ids |-> Absent]
    /\ aliases = [id \in Ids |-> Absent]
    /\ active = Absent
    /\ attempts = 0
    /\ loads = 0
    /\ rekeys = 0

Next ==
    \/ \E id \in Ids : Connect(id) \/ Disconnect(id) \/ Activate(id)
    \/ \E new \in Kubes : ApplyEntries(new)

Spec == Init /\ [][Next]_vars

-----------------------------------------------------------------------------
(* Every variable keeps to its type. *)
TypeOK ==
    /\ kube \in Kubes
    /\ clusters \in [Ids -> Connection \union {Absent}]
    /\ aliases \in [Ids -> Ids \union {Absent}]
    /\ active \in Ids \union {Absent}
    /\ attempts \in 0..MaxAttempts
    /\ loads \in 0..MaxLoads
    /\ rekeys \in 0..MaxRekeys
=============================================================================
