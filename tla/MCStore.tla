------------------------------ MODULE MCStore -------------------------------
(* The instance of Store for TLC: see MCStore.cfg. *)
EXTENDS Store
=============================================================================
