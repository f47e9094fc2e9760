---------------------------- MODULE PacketArrivals ----------------------------
(***************************************************************************)
(* How the packets of the server arrive: one after the other on the wire,  *)
(* from which the receive thread takes a chunk of whole packets when it    *)
(* has dealt with the last one, and hands on its packets in turn.  What is *)
(* on the wire may be lost from the end, what is in the chunk never is; a  *)
(* part of a packet is seen by nobody.  Nothing is said of a connection    *)
(* that came up while a part of a packet was still held, or that lost the  *)
(* front of a packet before the thread was told that it is up.             *)
(*                                                                         *)
(* PacketFramer implements it with bytes.  GsTcp takes such packets for    *)
(* granted.                                                                *)
(***************************************************************************)
EXTENDS Sequences, Integers

CONSTANT Packet

VARIABLES
  wire,    \* whole packets under way
  chunk,   \* whole packets read and not yet handed on
  blurred  \* a part of a packet was left from the last connection, or lost

arrivals == <<wire, chunk, blurred>>

Init == wire = <<>> /\ chunk = <<>> /\ blurred = FALSE

Send ==
  /\ \E p \in Packet : wire' = Append(wire, p)
  /\ UNCHANGED <<chunk, blurred>>

\* a chunk may end within a packet, and so bring none
Read ==
  /\ chunk = <<>>
  /\ \E n \in 0 .. Len(wire) :
       /\ chunk' = SubSeq(wire, 1, n)
       /\ wire' = SubSeq(wire, n + 1, Len(wire))
  /\ UNCHANGED blurred

HandOn ==
  /\ chunk # <<>>
  /\ chunk' = Tail(chunk)
  /\ UNCHANGED <<wire, blurred>>

\* a connection that goes, or is replaced, takes with it the end of what was sent
Lose ==
  /\ \E n \in 0 .. Len(wire) : wire' = SubSeq(wire, 1, n)
  /\ UNCHANGED <<chunk, blurred>>

\* a connection comes up on top of a part of a packet, loses one, or comes after such a one
Renew ==
  /\ blurred \/ blurred'
  /\ blurred' \in BOOLEAN
  /\ wire' = <<>> /\ chunk' = <<>>

Next == Send \/ Read \/ HandOn \/ Lose \/ Renew

Spec == Init /\ [][Next]_arrivals
=============================================================================
