------------------------------- MODULE MCDevIf -------------------------------
(* Small instances of DevIf for model checking. *)
EXTENDS DevIf

\* two servers of one host
MCAddr == {[ip |-> 1, port |-> 1], [ip |-> 1, port |-> 2]}
MCOneAddr == {[ip |-> 1, port |-> 1]}
=============================================================================
