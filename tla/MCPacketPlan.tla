---------------------------- MODULE MCPacketPlan ----------------------------
(* Whole sectors and last ones, about the multiples of the packet's payload,
   at the smallest MTU, a usual one and the one the firmware asks for.       *)
EXTENDS PacketPlan

MCLengths == {0, 1, 16, 17, 18, 34, 240, 241, 242, 510, 511, 512, 1022, 2048, 4088, 4095, 4096}
MCMtus == {23, 185, 247, 517}
=============================================================================
