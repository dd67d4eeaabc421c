------------------------------ MODULE EntryIds ------------------------------
(***************************************************************************)
(* The ids of sidebar entries: how contexts become entries                  *)
(* (kubyl_kube_core/groups.rs `entries`), how an id leads to the entry and  *)
(* to the connection it stands for (manager.rs `resolve_in`, `key`), and    *)
(* what connections promise.  Module Entries says how they change.          *)
(*                                                                         *)
(* One file; contexts differ in their user entry only, so a group is named  *)
(* after a user entry and never needs a counter.  Contexts with errors are  *)
(* left out (they are never grouped; module Connections has them).          *)
(***************************************************************************)
EXTENDS Naturals, FiniteSets, FiniteSetsExt

CONSTANTS
    Names,          \* context names; numbers, for their order
    Users,          \* user entries; numbers, for their order
    Absent          \* no context, alias or connection

VARIABLES
    kube,       \* `loaded` and the grouping settings
    clusters,   \* `clusters`
    aliases     \* `aliases`

Ids == [kind : {"context"}, name : Names] \union [kind : {"group"}, user : Users]
Ctx(n) == [kind |-> "context", name |-> n]
Grp(u) == [kind |-> "group", user |-> u]

-----------------------------------------------------------------------------
(* `groups::entries`. *)
Contexts(k) == {n \in Names : k.user[n] # Absent}

(* `identity`: what the contexts of an entry have in common. *)
Identity(k, n) == k.contents[k.user[n]]

Bucket(k, n) == {m \in Contexts(k) : Identity(k, m) = Identity(k, n)}

GroupName(k, n) == Min({k.user[m] : m \in Bucket(k, n)})

Grouped(k, n) == /\ Cardinality(Bucket(k, n)) > 1
                 /\ k.group_contexts
                 /\ GroupName(k, n) \notin k.separate

(* `member_index`: the entry context n is shown in. *)
EntryOf(k, n) == IF Grouped(k, n) THEN Grp(GroupName(k, n)) ELSE Ctx(n)

Entries(k) == {EntryOf(k, n) : n \in Contexts(k)}

(* `fingerprint` of an entry. *)
Fingerprint(k, id) ==
    Identity(k, CHOOSE n \in Contexts(k) : EntryOf(k, n) = id)

(* The context that took the place of a group: the current one first, then  *)
(* by name.                                                                 *)
Heir(k, u) ==
    LET users == {n \in Contexts(k) : k.user[n] = u}
    IN  IF k.current \in users THEN k.current ELSE Min(users)

(* The end of `resolve_in`: a group id that is no entry is the entry of the *)
(* contexts that use its cluster and user.                                  *)
AtEnd(k) == [x \in Ids |->
    IF x.kind = "group" /\ \E n \in Contexts(k) : k.user[n] = x.user
    THEN EntryOf(k, Heir(k, x.user)) ELSE x]

(* Where context x is shown, if the file has it. *)
Member(k, x) == x.kind = "context" /\ x.name \in Contexts(k)

(* One round of its loop; `rest` has the rounds after it. *)
Hop(k, al, rest) == [x \in Ids |->
    IF x \in Entries(k) THEN x
    ELSE IF Member(k, x) THEN EntryOf(k, x.name)
    ELSE IF al[x] # Absent THEN rest[al[x]] ELSE AtEnd(k)[x]]

(* `resolve_in`, with up to four aliases. *)
ResolveIn(k, al, id) ==
    Hop(k, al, Hop(k, al, Hop(k, al, Hop(k, al, AtEnd(k)))))[id]

Resolve(id) == ResolveIn(kube, aliases, id)

(* `key`: where the connection of an id is kept. *)
Key(id) == IF clusters[id] # Absent THEN id ELSE Resolve(id)

-----------------------------------------------------------------------------
(* A connection belongs to an entry, and to the cluster and user that entry *)
(* stands for now: neither grouping nor moving hands a client to an entry   *)
(* with other credentials.                                                  *)
ConnectionsMatchEntries == \A id \in Ids :
    clusters[id] # Absent =>
        /\ id \in Entries(kube)
        /\ clusters[id].open => clusters[id].contents = Fingerprint(kube, id)

(* Callbacks find the connection they were started for ("an id from before  *)
(* a re-key: tasks keep the id they were started with"), over any number of *)
(* moves, unless that id came to stand for an entry of its own, or for a    *)
(* member of another entry, in between.                                     *)
MovedConnectionsAreFound == \A id \in Ids :
    clusters[id] # Absent /\ clusters[id].open =>
        \/ clusters[id].started_as = id
        \/ clusters[id].reused
        \/ Key(clusters[id].started_as) = id
=============================================================================
