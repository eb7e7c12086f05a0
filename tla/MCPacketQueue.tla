---------------------------- MODULE MCPacketQueue ----------------------------
(***************************************************************************)
(* Instances of PacketQueue for TLC.  Packets are compared and nothing     *)
(* else, so that two of them tell every order of processing apart.         *)
(***************************************************************************)
EXTENDS PacketQueue

CONSTANTS p1, p2
Packets == {p1, p2}
=============================================================================
