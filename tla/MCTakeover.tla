----------------------------- MODULE MCTakeover -----------------------------
(* TLC instance: two instances of Kubyl. *)
EXTENDS Takeover
=============================================================================
