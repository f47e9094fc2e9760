------------------------------- MODULE MCGsTcp -------------------------------
(* Small instances of GsTcp for model checking. *)
EXTENDS GsTcp

\* two servers that differ in both halves of the address
MCAddr == {[ip |-> 1, port |-> 1], [ip |-> 2, port |-> 2]}
MCOneAddr == {[ip |-> 1, port |-> 1]}

MCClientMsg == {[m_MsgTag |-> "heartbeat"]}
NoClientMsg == {}
=============================================================================
