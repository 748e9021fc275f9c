------------------------- MODULE BleTransportProps -------------------------
(***************************************************************************)
(* What is asked of the BLE transport: properties that hold, and claims of  *)
(* its comments that the runs refute.                                       *)
(***************************************************************************)
EXTENDS BleTransport

(* The variables of the transport have their types; the pump's place agrees
   with the sink call it is inside of.                                       *)
TransportTypeOK ==
  /\ starts \in 0 .. world.maxStarts /\ startOta \in BOOLEAN
  /\ fwLen \in world.announced \cup {0} /\ curSector \in 0 .. ImageUnits
  /\ nimble \in {"idle", "arm", "flush", "invalidate", "disarm"}
  /\ armed \in BOOLEAN /\ blocked \in BOOLEAN
  /\ Len(ring) + Len(held) <= RingCap
  /\ pEpoch \in 0 .. MaxEpoch /\ pFwLen \in world.announced \cup {0}
  /\ call.op \in CASE pump = "wrote"     -> {"idle", "write", "account"}
                   [] pump = "finished"  -> {"idle", "end"}
                   [] pump = "activated" -> {"idle", "boot", "close", "restart"}
                   [] OTHER              -> {"idle"}

(* The pump and the sink count the same bytes: while the pump waits for data
   and its session is current, bytes_pumped is the sink's bytes_written and
   still short of the announced length.  The two are kept by different tasks'
   views (one reads ret, the other runs under the mutex); if they parted, the
   session would be finished early or never.                                 *)
PumpCountsWhatSinkWrote ==
  pump = "receive" /\ pEpoch # 0 /\ IsCurrent(pEpoch) =>
    pPumped = written /\ pFwLen = size /\ pPumped < pFwLen

(* No session is left writing with nobody to close it: a live WRITING session
   is always the one the pump remembers.  An orphan would answer BUSY to every
   later open until the next Start.  (The types hold, too.)                  *)
WriterHasPump ==
  /\ TransportTypeOK
  /\ live /\ state = "WRITING" => pEpoch = epoch

(* A stream that dies for good (Stop or disconnection, no further Start)
   leaves no writing session behind: the pump's timeout closes it.           *)
DeadStreamConverges ==
  <>[](~armed /\ nimble = "idle") => <>[](~(live /\ state = "WRITING"))

FullySent == world.diligent /\ starts = world.maxStarts /\ startOta /\ armed /\ AllSent

(* When the host keeps pace and its last Start is neither stopped nor cut
   before everything is sent, that Start ends with the new image booting, even
   after earlier attempts were cut off at any point (the recovery that the
   session boundaries were redesigned for).                                  *)
LastStartBoots ==
  [](FullySent => <>(slots[running] = Stream(world.maxStarts)))

-----------------------------------------------------------------------------
(* The inductive invariant behind PumpCountsWhatSinkWrote and WriterHasPump. *)

PumpPlace ==
  {"receive", "timeout", "item", "open", "block", "write", "wrote", "finish", "finished",
   "activate", "activated"}
Writing == live /\ state = "WRITING"
AnyUnit == [start : Nat, at : Nat]
AnyCall == [op : Window, epoch : Nat, data : Seq(AnyUnit), handle : Nat, reboot : BOOLEAN]

LocalInv ==
  /\ TransportTypeOK
  /\ world \in World /\ starts \in Nat
  /\ pump \in PumpPlace /\ ring \in Seq(AnyUnit) /\ held \in Seq(AnyUnit)
  /\ pPumped \in Nat /\ cfgSize \in world.announced \cup {0}
  /\ state \in SinkState /\ live \in BOOLEAN /\ handle \in Nat /\ written \in Nat
  /\ epoch \in 0 .. MaxEpoch /\ nextEpoch \in 1 .. (MaxEpoch + 1)
  /\ call \in AnyCall

(* Where the pump has a session, and what the sink's call in progress has of it *)
PlaceInv ==
  /\ pump \in {"open", "block"} => pEpoch = 0
  /\ pump \in {"write", "wrote", "finish", "finished", "activate", "activated"} => pEpoch # 0
  /\ pump = "wrote" /\ ~InCall("idle") => call.epoch = pEpoch /\ call.data = held
  /\ pump = "finished" /\ InCall("idle") => ~Writing
  /\ pump \in {"activate", "activated"} => ~Writing

(* A write that has returned is in the sink's count before it is in the pump's. *)
Accounted == pump = "wrote" /\ InCall("idle") /\ ret \in {"OK", "NVS"}

CountInv ==
  /\ pEpoch # 0 /\ pump \in {"receive", "timeout", "item", "write", "wrote"} => pPumped < pFwLen
  /\ pEpoch # 0 /\ IsCurrent(pEpoch) =>
       pFwLen = size /\ written = pPumped + (IF Accounted THEN Len(held) ELSE 0)

PumpInv == LocalInv /\ PlaceInv /\ CountInv /\ (Writing => pEpoch = epoch)

-----------------------------------------------------------------------------
(* Claims of the transport's comments that the code does not keep. *)

(* ble_transport.c:171-172: when the ring is full the sector is dropped, "the
   ACK of that sector's last packet does not come back", and the host resends.
   The component acknowledges the sector all the same.                        *)
AckedSectorIsQueued ==
  [][curSector' = curSector + 1 /\ armed /\ ~blocked => ring' # ring]_vars

(* ble_transport.c:8-14: the session boundary is "deterministic, with no race
   window", and no straggler of an older Start is written into the session of
   a newer one.  A chunk the pump holds when Start arrives survives the flush,
   opens the new session, and is written at its offset 0.                     *)
NoStragglerInSession ==
  IsCurrent(epoch) /\ nimble = "idle" =>
    \A i \in DOMAIN slots[Target] : slots[Target][i].start = starts
=============================================================================
