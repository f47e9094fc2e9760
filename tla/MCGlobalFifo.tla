---------------------------- MODULE MCGlobalFifo -----------------------------
(* A small instance of GlobalFifo for model checking. *)
EXTENDS GlobalFifo, TLC

CONSTANTS p1, p2, p3

MCProcess == {p1, p2, p3}
MCByte == {1, 2}
MCInput == {<<1>>, <<2, 1>>}
Symmetry == Permutations(MCProcess)
=============================================================================
