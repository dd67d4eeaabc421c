----------------------------- MODULE MCForwards -----------------------------
(* Instances of Forwards for TLC. *)
EXTENDS Forwards, TLC
=============================================================================
