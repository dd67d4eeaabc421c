------------------------------ MODULE LogView -------------------------------
(***************************************************************************)
(* The logs of a pod's containers and what a view shows of them, and what   *)
(* the view promises.  Module LogStreams says how the lines get there.      *)
(***************************************************************************)
EXTENDS Integers, Sequences, Functions

CONSTANT N      \* containers of the pod

Containers == 1..N

VARIABLES
    logs,       \* the log of every run of every container: timestamps
    shown       \* the lines of each container in the view, in order

-----------------------------------------------------------------------------
(* No other line of the run was written at the same instant. *)
Lone(log, i) == \A j \in DOMAIN log : j # i => log[j] # log[i]

Earlier(line, other) ==
    line.run < other.run \/ (line.run = other.run /\ line.index < other.index)

(* "A reconnect resumes at the last line's `sinceTime` without duplicating  *)
(* lines": over all reconnects, restarts and recreated pods the view gets   *)
(* each line once and in the order it was written, late backlogs included;  *)
(* among lines with an instant of their own, and while connections reach    *)
(* the pod the task had looked at.                                          *)
OnceInOrder ==
    \A c \in Containers : \A j \in DOMAIN shown[c] : \A i \in 1..(j - 1) :
        LET line == shown[c][i]
            other == shown[c][j]
        IN  \/ Earlier(line, other)
            \/ line.strayed \/ other.strayed
            \/ ~Lone(logs[c][line.run], line.index)
            \/ ~Lone(logs[c][other.run], other.index)

(* No line between two that are shown is left out: what a reconnect passes  *)
(* over as delivered was delivered, with the exceptions of `OnceInOrder`.   *)
NothingLeftOut ==
    \A c \in Containers : \A j \in DOMAIN shown[c] : \A i \in 1..(j - 1) :
        LET line == shown[c][i]
            other == shown[c][j]
        IN  line.run = other.run /\ ~line.strayed =>
              \A k \in (line.index + 1)..(other.index - 1) :
                  Lone(logs[c][line.run], k) =>
                      \E l \in Range(shown[c]) : l.run = line.run /\ l.index = k

(* What `is_duplicate` says it drops: "a line from a resumed stream [that]  *)
(* was already delivered".  Without an exception for lines of one instant,  *)
(* no line between two that are shown is left out.                          *)
DroppedWasDelivered ==
    \A c \in Containers : \A j \in DOMAIN shown[c] : \A i \in 1..(j - 1) :
        LET line == shown[c][i]
            other == shown[c][j]
        IN  line.run = other.run /\ ~line.strayed =>
              \A k \in (line.index + 1)..(other.index - 1) :
                  \E l \in Range(shown[c]) : l.run = line.run /\ l.index = k
=============================================================================
