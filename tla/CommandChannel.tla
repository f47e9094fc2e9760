---------------------------- MODULE CommandChannel ---------------------------
(***************************************************************************)
(* What the terminal promises for the commands of its server, with no      *)
(* connection, thread or queue: they are numbered as they are given, each  *)
(* is applied at most once and in the order of the numbers, and any may be *)
(* lost on the way.  What is lost, or passed over, never comes back, and   *)
(* nothing is applied that was not given.  DevIf is shown to implement it. *)
(***************************************************************************)
EXTENDS Integers

CONSTANT MaxRequest  \* bound: commands given

VARIABLES
  given,     \* the number of the command given last
  underway,  \* the numbers of those that may still be applied
  applied    \* the number of the one applied last

channel == <<given, underway, applied>>

Init == given = 0 /\ underway = {} /\ applied = 0

Give ==
  /\ given < MaxRequest
  /\ given' = given + 1
  /\ underway' = underway \union {given'}
  /\ UNCHANGED applied

\* the first of those under way, which comes after all that were applied
Apply ==
  /\ applied' > applied
  /\ applied' \in underway
  /\ \A n \in underway : applied' <= n
  /\ underway' = underway \ {applied'}
  /\ UNCHANGED given

Lose ==
  /\ UNCHANGED <<given, applied>>
  /\ underway' \in SUBSET underway

Next == Give \/ Apply \/ Lose

Spec == Init /\ [][Next]_channel
=============================================================================
