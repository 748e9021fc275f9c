----------------------------- MODULE MCOtaSink -----------------------------
(* Slots of four units in sectors of two: a write completes no sector, one or
   two, or overflows the slot.  Any three or four units are an image, so that
   the check done by esp_ota_end never hides a mixture of sessions.           *)
EXTENDS OtaSinkRefinement

MCData == 0 .. MaxEpoch
MCFactory == <<0, 0>>
MCImages == {MCFactory} \cup [1 .. 3 -> MCData] \cup [1 .. 4 -> MCData]
MCHandle == {1, 2}
MCSizes == {0, 3, 4, 5}
MCChunkLens == {1, 4}
=============================================================================
