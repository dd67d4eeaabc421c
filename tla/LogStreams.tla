----------------------------- MODULE LogStreams -----------------------------
(***************************************************************************)
(* Following the log of one pod (kubyl_logs_core/stream.rs): every          *)
(* container has a task that fetches its backlog for a merge, then follows  *)
(* the log with reconnects, also into a pod recreated under the name.  The  *)
(* cluster (the pod, its containers and their logs) is external.            *)
(*                                                                         *)
(* Time is counted in half seconds: the API can only be asked for whole     *)
(* ones.  A container's log starts over when it restarts or the pod is      *)
(* replaced; each of these is a run.                                        *)
(***************************************************************************)
EXTENDS LogView, FiniteSetsExt

CONSTANTS
    None,           \* absence
    TailLines,      \* `LogOptions::tail_lines`
    Merge(_),       \* `merge_by_time` (module LogMerge)
    MaxLines,       \* bound: lines written
    MaxTime,        \* bound: the clock
    MaxRuns,        \* bound: runs of a container
    MaxBreaks       \* bound: failing requests and connections

Parameters ==
    /\ {N, MaxLines, MaxTime, MaxRuns, MaxBreaks} \subseteq Nat
    /\ TailLines \in Nat \ {0} /\ None \notin Nat

ASSUME LogsAssumption == Parameters

VARIABLES
    now,        \* the cluster's clock
    pod,        \* the pod of the name: [uid, there, has, started, finished]
    task,       \* `container_task` of each container
    merge,      \* `Merge`: the backlogs it has, and whether it has run
    breaks      \* so far

clusterVars == <<now, pod, logs>>
vars == <<clusterVars, task, merge, shown, breaks>>

-----------------------------------------------------------------------------
Phases == {"fetching", "waiting", "looking", "connecting", "streaming", "over"}

NewTask == [phase |-> "fetching", first |-> TRUE, retry |-> FALSE,
            gone |-> FALSE, ended |-> FALSE, instance |-> None,
            last |-> None, atLast |-> 0, run |-> 0, pos |-> 1, seen |-> 0]

Run(c) == Len(logs[c])
Log(c) == logs[c][Run(c)]
Second(ts) == ts \div 2

(* Mutant: the next request begins with the next second. *)
SinceFromNext(c, ts) ==
    Cardinality({i \in DOMAIN Log(c) : Second(Log(c)[i]) <= Second(ts)}) + 1

(* The lines of a request for the whole log are its last `TailLines` ones; those *)
(* of one since a time begin with that whole second.                        *)
TailFrom(c) == IF Len(Log(c)) > TailLines THEN Len(Log(c)) - TailLines + 1 ELSE 1
SinceFrom(c, ts) ==
    Cardinality({i \in DOMAIN Log(c) : Second(Log(c)[i]) < Second(ts)}) + 1

(* A line of container `c` as the view gets it.  `strayed`: the connection  *)
(* reached another pod than the one the task follows.                       *)
Line(c, i) ==
    [run |-> Run(c), index |-> i, ts |-> Log(c)[i], of |-> c,
     strayed |-> task[c].gone \/ task[c].instance \notin {None, pod.uid}]

(* `Resume::record`. *)
Record(t, ts) ==
    IF t.last = ts THEN [t EXCEPT !.atLast = @ + 1]
    ELSE IF t.last = None \/ ts > t.last
         THEN [t EXCEPT !.last = ts, !.atLast = 1] ELSE t

(* Mutant: what was delivered at the last instant is delivered again. *)
IsDuplicateBefore(t, ts) == t.last # None /\ ts < t.last

(* `Resume::is_duplicate`. *)
IsDuplicate(t, ts) ==
    t.last # None /\ (ts < t.last \/ (ts = t.last /\ t.seen < t.atLast))

(* `record` of each line of a backlog: lines come in the order of time, and *)
(* nothing was recorded before.                                             *)
RecordAll(t, lines) ==
    LET last == lines[Len(lines)].ts
    IN  IF lines = <<>> THEN t
        ELSE [t EXCEPT !.last = last,
                       !.atLast = Cardinality({i \in DOMAIN lines : lines[i].ts = last})]

Becomes(c, t) == task' = [task EXCEPT ![c] = t]

-----------------------------------------------------------------------------
(* The lines of one container. *)
Of(lines, c) == SelectSeq(lines, LAMBDA line : line.of = c)

(* `Merge::run`: emits what has arrived, once everything has or the timeout *)
(* passed, and lets the containers follow.                                  *)
MergeRuns ==
    /\ ~merge.flushed
    /\ merge' = [got |-> [c \in Containers |-> <<>>], flushed |-> TRUE]
    /\ shown' = [c \in Containers |-> shown[c] \o Of(Merge(merge.got), c)]
    /\ UNCHANGED <<clusterVars, task, breaks>>

Reachable(c) == pod.there /\ c \in pod.has /\ pod.started

Fails == breaks < MaxBreaks /\ breaks' = breaks + 1

(* `container_task` fetches the backlog and hands it to the merge, or shows *)
(* it itself when it is too late; a fetch that fails has no lines.          *)
Fetch(c, fails) ==
    LET from == TailFrom(c)
        lines == IF fails \/ ~Reachable(c) THEN <<>>
                 ELSE [i \in 1..(Len(Log(c)) - from + 1) |->
                          Line(c, from + i - 1)]
    IN  /\ task[c].phase = "fetching"
        /\ IF fails THEN Fails ELSE UNCHANGED breaks
        /\ Becomes(c, [RecordAll(task[c], lines) EXCEPT !.phase = "waiting",
                                                        !.first = FALSE])
        /\ IF merge.flushed
           THEN shown' = [shown EXCEPT ![c] = @ \o lines] /\ UNCHANGED merge
           ELSE merge' = [merge EXCEPT !.got[c] = lines] /\ UNCHANGED shown
        /\ UNCHANGED clusterVars

(* Live lines come after the merged backlog. *)
Waited(c) ==
    /\ task[c].phase = "waiting"
    /\ merge.flushed
    /\ Becomes(c, [task[c] EXCEPT !.phase = "looking"])
    /\ UNCHANGED <<clusterVars, merge, shown, breaks>>

(* The task of a pod that was replaced starts over. *)
Joined(t) == [t EXCEPT !.last = None, !.atLast = 0, !.first = TRUE,
                       !.retry = FALSE, !.gone = FALSE, !.ended = FALSE]

(* Where is the container now?  Gone, finished or not started, it is looked *)
(* at again later; otherwise the task connects.                             *)
Look(c) ==
    LET t == task[c]
        replaced == t.gone \/ (t.instance # None /\ t.instance # pod.uid)
        known == [(IF replaced THEN Joined(t) ELSE t) EXCEPT !.instance = pod.uid]
        ends == pod.finished /\ (known.ended \/ known.retry \/ ~known.first)
    IN  /\ t.phase = "looking"
        /\ Becomes(c,
             IF ~pod.there THEN [t EXCEPT !.gone = TRUE]
             ELSE IF replaced /\ c \notin pod.has THEN [t EXCEPT !.phase = "over"]
             ELSE IF ends THEN [known EXCEPT !.ended = TRUE]
             ELSE IF ~pod.started THEN known
             ELSE [known EXCEPT !.phase = "connecting"])
        /\ UNCHANGED <<clusterVars, merge, shown, breaks>>

(* A lookup that fails is passed over. *)
LookFails(c) ==
    /\ task[c].phase = "looking"
    /\ Fails
    /\ Becomes(c, [task[c] EXCEPT !.phase = "connecting"])
    /\ UNCHANGED <<clusterVars, merge, shown>>

(* A connection is over: the next one is a reconnect. *)
Disconnected(t) == [t EXCEPT !.phase = "looking", !.first = FALSE, !.retry = TRUE,
                             !.run = 0, !.pos = 1, !.seen = 0]

(* After the backoff, `log_stream` asks for the whole log of a pod that is  *)
(* new to the task, and otherwise for what came since the last line.        *)
Connect(c) ==
    LET t == task[c]
        from == IF t.first \/ t.last = None THEN TailFrom(c)
                ELSE SinceFrom(c, t.last)
    IN  /\ t.phase = "connecting"
        /\ Becomes(c, IF Reachable(c)
                      THEN [t EXCEPT !.phase = "streaming", !.first = FALSE,
                                     !.run = Run(c), !.pos = from, !.seen = 0]
                      ELSE Disconnected(t))
        /\ UNCHANGED <<clusterVars, merge, shown, breaks>>

(* The connection still reads the log it was opened for. *)
Open(c) == /\ task[c].phase = "streaming"
           /\ pod.there /\ task[c].run = Run(c)

(* A line arrives. *)
Read(c) ==
    LET t == task[c]
        line == Line(c, t.pos)
        passed == [t EXCEPT !.pos = @ + 1]
    IN  /\ Open(c) /\ t.pos <= Len(Log(c))
        /\ IF IsDuplicate(t, line.ts)
           THEN /\ Becomes(c, IF line.ts = t.last THEN [passed EXCEPT !.seen = @ + 1]
                              ELSE passed)
                /\ UNCHANGED shown
           ELSE /\ Becomes(c, Record(passed, line.ts))
                /\ shown' = [shown EXCEPT ![c] = Append(@, line)]
        /\ UNCHANGED <<clusterVars, merge, breaks>>

(* Mutant: a connection that hangs is never looked at. *)
EndsByItself(c) ==
    /\ Open(c) /\ pod.finished /\ task[c].pos > Len(Log(c))
    /\ Becomes(c, Disconnected(task[c]))
    /\ UNCHANGED <<clusterVars, merge, shown, breaks>>

(* The stream ends with its container; a connection that hangs is given up  *)
(* once `same_instance` finds another.                                      *)
Ends(c) ==
    /\ task[c].phase = "streaming"
    /\ ~Open(c) \/ (pod.finished /\ task[c].pos > Len(Log(c)))
    /\ Becomes(c, Disconnected(task[c]))
    /\ UNCHANGED <<clusterVars, merge, shown, breaks>>

(* A connection fails, or is quiet for `IDLE_RECONNECT`. *)
Breaks(c) ==
    /\ task[c].phase \in {"connecting", "streaming"}
    /\ Fails
    /\ Becomes(c, Disconnected(task[c]))
    /\ UNCHANGED <<clusterVars, merge, shown>>

-----------------------------------------------------------------------------
Lines == MapThenSumSet(LAMBDA c :
             MapThenSumSet(LAMBDA run : Len(logs[c][run]), DOMAIN logs[c]), Containers)

(* A container writes, at this instant or a later one. *)
Write(c, ts) ==
    /\ Reachable(c) /\ ~pod.finished
    /\ Lines < MaxLines
    /\ ts \in {now, now + 1} /\ ts <= MaxTime
    /\ now' = ts
    /\ logs' = [logs EXCEPT ![c][Run(c)] = Append(@, ts)]
    /\ UNCHANGED <<pod, task, merge, shown, breaks>>

(* A container restarts, in its pod. *)
Restarts(c) ==
    /\ Reachable(c) /\ ~pod.finished
    /\ Run(c) < MaxRuns /\ now < MaxTime
    /\ now' = now + 1
    /\ logs' = [logs EXCEPT ![c] = Append(@, <<>>)]
    /\ UNCHANGED <<pod, task, merge, shown, breaks>>

(* The pod starts, finishes, is deleted, and is recreated under its name.   *)
Starts ==
    /\ pod.there /\ ~pod.started
    /\ pod' = [pod EXCEPT !.started = TRUE]
    /\ UNCHANGED <<now, logs, task, merge, shown, breaks>>

Finishes ==
    /\ pod.there /\ pod.started /\ ~pod.finished
    /\ pod' = [pod EXCEPT !.finished = TRUE]
    /\ UNCHANGED <<now, logs, task, merge, shown, breaks>>

Deleted ==
    /\ pod.there
    /\ pod' = [pod EXCEPT !.there = FALSE]
    /\ UNCHANGED <<now, logs, task, merge, shown, breaks>>

Recreated(has) ==
    /\ ~pod.there
    /\ now < MaxTime /\ \A c \in Containers : Run(c) < MaxRuns
    /\ now' = now + 1
    /\ pod' = [uid |-> pod.uid + 1, there |-> TRUE, has |-> has,
               started |-> FALSE, finished |-> FALSE]
    /\ logs' = [c \in Containers |-> Append(logs[c], <<>>)]
    /\ UNCHANGED <<task, merge, shown, breaks>>

-----------------------------------------------------------------------------
(* `run` waits for the pod, then starts a task for each container. *)
Init ==
    /\ now = 0 /\ breaks = 0
    /\ pod \in [uid : {1}, there : {TRUE}, has : {Containers}, started : BOOLEAN,
                finished : {FALSE}]
    /\ logs = [c \in Containers |-> <<<<>>>>]
    /\ task = [c \in Containers |-> NewTask]
    /\ merge = [got |-> [c \in Containers |-> <<>>], flushed |-> FALSE]
    /\ shown = [c \in Containers |-> <<>>]

TaskSteps(c) ==
    Fetch(c, FALSE) \/ Waited(c) \/ Look(c) \/ Connect(c) \/ Read(c) \/ Ends(c)

Faults(c) == Fetch(c, TRUE) \/ LookFails(c) \/ Breaks(c)

Cluster ==
    \/ \E c \in Containers : Restarts(c) \/ \E ts \in 0..MaxTime : Write(c, ts)
    \/ Starts \/ Finishes \/ Deleted
    \/ \E has \in SUBSET Containers : Recreated(has)

Next == \/ \E c \in Containers : TaskSteps(c) \/ Faults(c)
        \/ MergeRuns \/ Cluster

Spec == Init /\ [][Next]_vars

(* Tasks run, their timers fire and requests are answered or fail.  The     *)
(* pod owes nothing.                                                        *)
Fairness == WF_vars(MergeRuns) /\ \A c \in Containers : WF_vars(TaskSteps(c))

FairSpec == Spec /\ Fairness

-----------------------------------------------------------------------------
TypeOK ==
    /\ now \in 0..MaxTime /\ breaks \in 0..MaxBreaks
    /\ \A c \in Containers :
          /\ task[c].phase \in Phases
          /\ task[c].last \in (0..MaxTime) \union {None}
          /\ (task[c].last = None) = (task[c].atLast = 0)
          /\ task[c].seen \in 0..MaxLines
          /\ Run(c) \in 1..MaxRuns
          /\ \A line \in Range(shown[c]) : line.index \in DOMAIN logs[c][line.run]

(* In the end the last line of a container that runs is in the view,        *)
(* whatever broke, restarted or was recreated before, and as long as the    *)
(* task has not ended and the pod is there and not finished.  Excepted is a *)
(* last line that shares its instant with another one (Lone), which         *)
(* `is_duplicate` may drop.                                                 *)
CatchesUp ==
    <>[](\A c \in Containers :
           Reachable(c) /\ ~pod.finished /\ task[c].phase # "over" /\ Log(c) # <<>>
             /\ Lone(Log(c), Len(Log(c)))
           => \E line \in Range(shown[c]) :
                line.run = Run(c) /\ line.index = Len(Log(c)))
=============================================================================
