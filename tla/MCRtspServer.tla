---------------------------- MODULE MCRtspServer -----------------------------
(* A small instance of RtspServer for model checking. *)
EXTENDS RtspServer, TLC

CONSTANTS c1, c2, c3

MCClient == {c1, c2, c3}
Symmetry == Permutations(MCClient)
=============================================================================
