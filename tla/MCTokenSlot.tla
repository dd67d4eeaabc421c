---------------------------- MODULE MCTokenSlot -----------------------------
(* TLC instance: two connections, one of them with tokens in its kubeconfig. *)
EXTENDS TokenSlot

CONSTANTS c, d

MCSecrets == [o \in {c, d} |-> IF o = c THEN First ELSE Nothing]
=============================================================================
