------------------------------ MODULE MCReload ------------------------------
(* Instances of Reload for TLC. *)
EXTENDS Reload, TLC

CONSTANTS f, g      \* two kubeconfig files

(* They are in one folder. *)
SharedFolder(file) == "folder"

(* Neither, the one or both are sources; the user changes that at will. *)
UpToBoth == {{}, {f}, {f, g}}
=============================================================================
