----------------------------- MODULE MCControl ------------------------------
(* Instances of the control plane for TLC. *)
EXTENDS ControlProps
=============================================================================
