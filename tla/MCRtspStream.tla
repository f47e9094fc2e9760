---------------------------- MODULE MCRtspStream -----------------------------
(* A small instance of RtspStream for model checking. *)
EXTENDS RtspStream

MCShape == {[type |-> "I", size |-> 2], [type |-> "P", size |-> 1]}
=============================================================================
