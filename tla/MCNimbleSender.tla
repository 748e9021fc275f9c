--------------------------- MODULE MCNimbleSender ---------------------------
(* An image of three sectors: one sent in as many packets as there are
   sequence numbers, one in two packets, and a last one that is a tail only. *)
EXTENDS NimbleSender

MCSectors == 3
MCPackets == [n \in 0 .. 2 |-> IF n = 0 THEN 4 ELSE IF n = 1 THEN 2 ELSE 1]
=============================================================================
