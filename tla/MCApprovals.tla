---------------------------- MODULE MCApprovals ----------------------------
(* TLC instance: a manifest of two documents and a patch or a delete, about *)
(* one object.                                                              *)
EXTENDS Approvals, TLC

CONSTANTS c, d, o

AsksSmall ==
    c :> {[kind |-> "apply", docs |-> <<o, o>>]} @@
    d :> {[kind |-> "patch", docs |-> <<o>>], [kind |-> "delete", docs |-> <<o>>]}
=============================================================================
