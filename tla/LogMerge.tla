------------------------------ MODULE LogMerge -------------------------------
(***************************************************************************)
(* `merge_by_time` (kubyl_logs_core/stream.rs): the backlogs of containers  *)
(* become one list.                                                         *)
(***************************************************************************)
EXTENDS LogStreams, SequencesExt

(* Mutant: the lists follow each other. *)
MergeInTurn(lists) == FlattenSeq(lists)

(* `merge_by_time`: the first head without a timestamp goes next, else the  *)
(* first of the earliest.                                                   *)
RECURSIVE MergeByTime(_)
MergeByTime(lists) ==
    LET left == {i \in DOMAIN lists : lists[i] # <<>>}
        untimed == {i \in left : Head(lists[i]).ts = None}
        best == IF untimed # {} THEN Min(untimed)
                ELSE CHOOSE i \in left : \A j \in left :
                       \/ Head(lists[i]).ts < Head(lists[j]).ts
                       \/ Head(lists[i]).ts = Head(lists[j]).ts /\ i <= j
    IN  IF left = {} THEN <<>>
        ELSE <<Head(lists[best])>> \o
             MergeByTime([lists EXCEPT ![best] = Tail(@)])
=============================================================================
