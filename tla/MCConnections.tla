-------------------------- MODULE MCConnections --------------------------
(* The instances of Connections that TLC checks: one context, so that its   *)
(* connection can go through several attempts and rebuilds.  Connections of *)
(* different ids share only `active`, `interactive` and `checks`, and no    *)
(* action reads another id's part of them.                                  *)
EXTENDS Connections, TLC
=============================================================================
