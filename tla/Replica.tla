------------------------------ MODULE Replica -------------------------------
(***************************************************************************)
(* What a watch cache promises: it shows nothing, or all of the objects as  *)
(* the server had them at one moment, and it never goes back in time.       *)
(* `Store` implements this specification.                                   *)
(***************************************************************************)
EXTENDS Integers, Sequences, FiniteSetsExt

CONSTANT Keys       \* names of objects

VARIABLES
    log,        \* the writes of the server: [key, gone], oldest first
    shown,      \* the version of every object that is shown, 0 if none
    position    \* how many of the writes were taken into account

vars == <<log, shown, position>>

Write == [key : Keys, gone : BOOLEAN]

Nothing == [k \in Keys |-> 0]

(* The objects after the first n writes.  The version of an object is the   *)
(* number of the write that made it.                                        *)
StateAt(n) == [k \in Keys |->
    LET writes == {i \in 1..n : log[i].key = k}
    IN  IF writes = {} \/ log[Max(writes)].gone THEN 0 ELSE Max(writes)]

Init == log = <<>> /\ shown = Nothing /\ position = 0

(* An object is created, changed or deleted. *)
Writes(w) ==
    /\ w.gone => StateAt(Len(log))[w.key] # 0
    /\ log' = Append(log, w)
    /\ UNCHANGED <<shown, position>>

(* The cache shows a moment that is not before the one it showed last. *)
Follows(n) ==
    /\ n >= position
    /\ position' = n
    /\ shown' = StateAt(n)
    /\ UNCHANGED log

(* The cache lost the right, or the kind, to show. *)
Forgets ==
    /\ shown' = Nothing
    /\ \E n \in position..Len(log) : position' = n
    /\ UNCHANGED log

Next == (\E w \in Write : Writes(w)) \/ (\E n \in 0..Len(log) : Follows(n)) \/ Forgets

Spec == Init /\ [][Next]_vars
=============================================================================
