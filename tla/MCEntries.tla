----------------------------- MODULE MCEntries ------------------------------
(* Instances of Entries for TLC. *)
EXTENDS Entries, TLC

(* Two contexts, two user entries; the first entry's contents may be those  *)
(* of the second.  Grouping is on, off, or off for the first entry's group. *)
(* A third context, of the second user entry, can come and go while         *)
(* everything is grouped.                                                   *)
SmallKubes ==
    {k \in [user : [{1, 2, 3} -> {1, 2, Absent}],
            contents : [{1, 2} -> {"x", "y"}],
            current : {2, Absent}, group_contexts : BOOLEAN,
            separate : {{}, {1}}] :
        /\ k.contents[2] = "y"
        /\ k.user[3] # 1
        /\ k.user[3] = 2 => /\ k.group_contexts /\ k.separate = {} /\ k.current = Absent
                            /\ k.user[1] # Absent /\ k.user[2] # Absent
        /\ k.separate # {} => k.group_contexts /\ k.current = Absent
        /\ k.current # Absent => k.user[k.current] # Absent}
=============================================================================
