---------------------------- MODULE MCLogStreams ----------------------------
(* TLC instance: a container of a pod that is recreated once. *)
EXTENDS LogMerge

(* Backlogs of two lists in time order, some lines without a timestamp. *)
Backlogs ==
    LET times == {<<>>, <<1>>, <<2>>, <<1, 2>>, <<1, None>>, <<None, 2>>,
                  <<2, None, 2>>, <<None, 1, 1>>, <<1, 1, 2>>}
    IN  {[l \in 1..2 |-> [i \in DOMAIN p[l] |-> [ts |-> p[l][i], of |-> l, index |-> i]]] :
           p \in times \X times}

(* `merge_by_time` for backlogs: every line once, each list in its own      *)
(* order ("lines without a timestamp keep their position relative to their  *)
(* neighbors in the same list"), and the timed lines in the order of time.  *)
(* It says nothing of the state, so the initial states are enough.          *)
MergeIsSorted ==
    (\A c \in Containers : task[c] = NewTask /\ logs[c] = <<<<>>>>) =>
      \A lists \in Backlogs :
        LET out == MergeByTime(lists)
            timed == SelectSeq(out, LAMBDA line : line.ts # None)
        IN  /\ \A l \in 1..2 : SelectSeq(out, LAMBDA line : line.of = l) = lists[l]
            /\ \A i \in 1..(Len(timed) - 1) : timed[i].ts <= timed[i + 1].ts
=============================================================================
