------------------------------- MODULE MCLink -------------------------------
(* A stream of four packets whose numbers wrap, the third of them malformed. *)
EXTENDS LinkProps

=============================================================================
