----------------------------- MODULE MCOtaHost -----------------------------
(* An image of two sectors, of three packets and of one. *)
EXTENDS OtaHost

MCSectors == 2
MCPackets == [n \in 0 .. 1 |-> IF n = 0 THEN 3 ELSE 1]
MCTroubles == {{}, Trouble}
=============================================================================
