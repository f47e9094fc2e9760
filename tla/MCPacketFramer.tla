---------------------------- MODULE MCPacketFramer ---------------------------
(* Small instances of PacketFramer: a header of three bytes, a packet of one *)
(* content byte, and one whose content looks like the start of a packet.     *)
EXTENDS PacketFramer

MCByte == {0, 4, 5, 13, 14}
MCPackets == {<<14, 13, 4, 0>>, <<14, 13, 5, 14, 13>>}
=============================================================================
