------------------------- MODULE OtaSinkRefinement -------------------------
(***************************************************************************)
(* OtaSink under its general client implements OtaSession.  The history     *)
(* variable shipped remembers what the slot held each time otadata was      *)
(* pointed at it (a later session may erase that slot again).               *)
(***************************************************************************)
EXTENDS OtaSinkClient

VARIABLE shipped

RInit == SinkInit /\ shipped = FactoryImage
RNext == Next /\ shipped' = IF SetBootOk THEN slots[Target] ELSE shipped
RSpec == RInit /\ [][RNext]_<<sinkVars, shipped>>

AbsPhase ==
  CASE ~live                          -> "none"
    [] live /\ state = "VALIDATED"    -> "sealed"
    [] live /\ state = "ACTIVATED"    -> "shipping"
    [] OTHER                          -> "receiving"

Session == INSTANCE OtaSession WITH
  cur     <- IF live THEN epoch ELSE 0,
  last    <- nextEpoch - 1,
  phase   <- AbsPhase,
  got     <- IF live THEN SubSeq(slots[Target], 1, written) ELSE <<>>,
  outbox  <- IF InCall("boot") THEN <<slots[Target]>> ELSE <<>>,
  shipped <- shipped

(* Seen from outside, the sink is OtaSession: every step of ota_sink.c, with
   its windows, deferred aborts, failures and power cuts, is a step of that
   service or leaves it unchanged.  In particular the image shipped is exactly
   what one uninterrupted session accepted.                                   *)
ImplementsSession == Session!Spec

Flash == INSTANCE BootSlots WITH
  Slots   <- Slot,
  whole   <- {s \in Slot : slots[s] \in Images},
  running <- running,
  chosen  <- boot

(* The sink does its part of what it shares with the boot loader (DeviceBoot!BootsWhole
   is the other's): whatever otadata says, and with calls of dead sessions under way,
   it spares the slot the device runs from, and points otadata at whole images only. *)
SparesRunning == Flash!Spec
=============================================================================
