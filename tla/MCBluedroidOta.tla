--------------------------- MODULE MCBluedroidOta ---------------------------
(* An image of one whole sector in three packets and a rest in two.  The payload
   of a packet is longer than a write can carry (509 bytes), for fewer packets;
   the last packet of the whole sector still ends its CRC at the end of the buffer. *)
EXTENDS BluedroidOta
=============================================================================
