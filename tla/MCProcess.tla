------------------------------ MODULE MCProcess ------------------------------
(* Instances of the process and its output file for TLC. *)
EXTENDS ProcessProps
=============================================================================
