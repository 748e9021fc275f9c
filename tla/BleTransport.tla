---------------------------- MODULE BleTransport ----------------------------
(***************************************************************************)
(* The BLE transport (main/ble_transport.c) on top of the sink: what the   *)
(* NimBLE host task and the pump task do to the ring buffer, to the flags  *)
(* armed and open_blocked, and to the sink.                                *)
(*                                                                         *)
(* The NimBLE side is the vendor component at the granularity of a sector  *)
(* (ble_ota/src/nimble_ota.c): Start and Stop commands, a sector completed *)
(* and acknowledged, a disconnection.  A command handler changes the       *)
(* component's state, then calls the session callback, whose statements    *)
(* interleave with the pump.                                               *)
(*                                                                         *)
(* A unit of data records the Start it was sent under and its place in the *)
(* image: [start |-> k, at |-> i].                                         *)
(***************************************************************************)
EXTENDS OtaSink

CONSTANTS
  ImageUnits,  \* length of the image the host sends, in units
  RingCap,     \* BLE_TRANSPORT_RINGBUF_SIZE, in units
  Worlds       \* what a behaviour assumes of host, flash and power

(* announced: lengths a Start command may carry (ImageUnits among them); maxStarts:
   bound on Start commands; faults: flash operations may fail for no reason of their
   own; powerCuts: power may fail at any moment; paced: the events for which the host
   leaves the pump time (HostKeepsPace); diligent: a host that has started goes on.  *)
World ==
  [announced : SUBSET Nat, maxStarts : Nat, faults : BOOLEAN, powerCuts : BOOLEAN,
   paced : SUBSET {"sector", "stop", "cut", "drained", "closed"}, diligent : BOOLEAN]

ASSUME TransportAssumption ==
  /\ ImageUnits \in Nat \ {0} /\ RingCap \in Nat
  /\ Worlds \subseteq World

VARIABLES
  world,               \* one of Worlds, for good
  starts,              \* Start commands received so far (a history counter)
  startOta, fwLen, curSector,                 \* start_ota, ota_total_len, cur_sector
  nimble,              \* where the NimBLE task is in a command handler
  armed, blocked, ring,                       \* s_armed, s_open_blocked, s_ringbuf
  pump, held, pEpoch, pFwLen, pPumped, cfgSize, \* the pump task and its locals
  seen                 \* value of starts when the pump read the length (history)

component == <<world, starts, startOta, fwLen, curSector>>
flags     == <<armed, blocked>>
session   == <<pEpoch, pFwLen, pPumped>>
pumpVars  == <<pump, held, session, cfgSize, seen>>
vars == <<sinkVars, component, nimble, flags, ring, pumpVars>>

Unit(k, i) == [start |-> k, at |-> i]
Stream(k) == [i \in 1 .. ImageUnits |-> Unit(k, i - 1)]
SectorOf(n) == SubSeq(Stream(starts), n * SectorUnits + 1,
                      IF (n + 1) * SectorUnits < ImageUnits
                        THEN (n + 1) * SectorUnits ELSE ImageUnits)
AllSent == curSector * SectorUnits >= ImageUnits

Init ==
  /\ SinkInit /\ world \in Worlds
  /\ starts = 0 /\ startOta = FALSE /\ fwLen = 0 /\ curSector = 0
  /\ nimble = "idle" /\ armed = FALSE /\ blocked = FALSE /\ ring = <<>>
  /\ pump = "receive" /\ held = <<>> /\ cfgSize = 0 /\ seen = 0
  /\ pEpoch = 0 /\ pFwLen = 0 /\ pPumped = 0

(* A byte buffer's bytes are freed only when the item is returned, so what the
   pump holds still takes room.                                              *)
HasRoom(n) == Len(ring) + Len(held) + n <= RingCap

(* The pace a run may assume of the host: a sector only when the ring has room
   for it; a Stop, or a disconnection after everything was sent, only once the
   pump has a session and not in the instant between a receive that timed out
   and its look at armed; a new Start only once the pump has drained what was sent
   before, and closed its session.                                           *)
HostKeepsPace(event) ==
  event \in world.paced =>
    CASE event = "sector"  -> HasRoom(Len(SectorOf(curSector)))
      [] event = "stop"    -> AllSent /\ pEpoch # 0 /\ pump # "timeout"
      [] event = "cut"     -> AllSent => pEpoch # 0 /\ pump # "timeout"
      [] event = "drained" -> ring = <<>> /\ held = <<>>
      [] event = "closed"  -> pEpoch = 0

-----------------------------------------------------------------------------
(* The NimBLE host task *)

(* The command handler on Start, up to the session callback *)
StartCmd(len) ==
  /\ nimble = "idle" /\ starts < world.maxStarts
  /\ HostKeepsPace("drained") /\ HostKeepsPace("closed")
  /\ starts' = starts + 1
  /\ startOta' = TRUE /\ fwLen' = len /\ curSector' = 0
  /\ nimble' = "arm"
  /\ UNCHANGED <<sinkVars, world, flags, ring, pumpVars>>

(* transport_session_cb(START), statement by statement *)
CbArm ==
  /\ nimble = "arm"
  /\ armed' = TRUE /\ blocked' = FALSE
  /\ nimble' = "flush"
  /\ UNCHANGED <<sinkVars, component, ring, pumpVars>>

(* ringbuf_flush: a byte buffer gives out no second item while one is out *)
CbFlush ==
  /\ nimble = "flush"
  /\ ring' = IF held = <<>> THEN <<>> ELSE ring
  /\ nimble' = "invalidate"
  /\ UNCHANGED <<sinkVars, component, flags, pumpVars>>

CbInvalidate ==
  /\ nimble = "invalidate"
  /\ Invalidate
  /\ nimble' = "idle"
  /\ UNCHANGED <<component, flags, ring, pumpVars>>

(* The command handler on Stop, up to the session callback *)
StopCmd ==
  /\ nimble = "idle"
  /\ HostKeepsPace("stop")
  /\ startOta' = FALSE /\ fwLen' = 0 /\ curSector' = 0
  /\ nimble' = "disarm"
  /\ UNCHANGED <<sinkVars, world, starts, flags, ring, pumpVars>>

CbDisarm ==
  /\ nimble = "disarm"
  /\ armed' = FALSE
  /\ nimble' = "idle"
  /\ UNCHANGED <<sinkVars, component, blocked, ring, pumpVars>>

(* BLE_GAP_EVENT_DISCONNECT: the component's own state is left as it is *)
Disconnect ==
  /\ nimble = "idle" /\ armed
  /\ HostKeepsPace("cut")
  /\ armed' = FALSE
  /\ UNCHANGED <<sinkVars, component, nimble, blocked, ring, pumpVars>>

(* ble_ota_transport_recv_cb *)
RecvCb(sector) ==
  ring' = IF armed /\ ~blocked /\ HasRoom(Len(sector)) THEN ring \o sector ELSE ring

(* The last packet of a sector (the component has a sector buffer from Start to
   Stop only, and refuses data without it): the component hands the sector to
   the callback and acknowledges it, whatever the callback did.               *)
SectorDone ==
  /\ nimble = "idle" /\ startOta /\ ~AllSent
  /\ HostKeepsPace("sector")
  /\ curSector' = curSector + 1
  /\ RecvCb(SectorOf(curSector))
  /\ UNCHANGED <<sinkVars, world, starts, startOta, fwLen, nimble, flags, pumpVars>>

-----------------------------------------------------------------------------
(* The pump task, ble_transport_task.  pump names the statement it is at.     *)

(* A failure the state of the flash does not explain *)
Spurious ==
  \/ InCall("idle")  /\ ret' \in {"PARTITION", "BEGIN_FAIL"}
  \/ InCall("write") /\ call' = NoCall /\ Len(slots[Target]) + Len(call.data) <= SlotSize
  \/ InCall("end")   /\ ret' = "VALIDATE_FAIL" /\ slots[Target] \in Images
  \/ InCall("boot")  /\ call' = NoCall /\ slots[Target] \in Images

Tolerated == world.faults \/ ~Spurious

DropSession == pEpoch' = 0 /\ pFwLen' = 0 /\ pPumped' = 0
Goto(pc) == pump' = pc

(* xRingbufferReceive hands over a contiguous run of bytes: all there is, or
   what precedes the wrap-around, so any non-empty prefix.                   *)
PumpReceive ==
  /\ pump = "receive" /\ ring # <<>>
  /\ \E n \in 1 .. Len(ring) :
       /\ held' = SubSeq(ring, 1, n)
       /\ ring' = SubSeq(ring, n + 1, Len(ring))
  /\ Goto("item")
  /\ UNCHANGED <<sinkVars, component, nimble, flags, session, cfgSize, seen>>

(* The receive times out; only then is armed read, and what was queued in
   between stays in the ring.                                                *)
PumpReceiveTimeout ==
  /\ pump = "receive" /\ ring = <<>>
  /\ Goto("timeout")
  /\ UNCHANGED <<sinkVars, component, nimble, flags, ring, held, session, cfgSize, seen>>

FaultyPumpTimeout ==
  /\ pump = "timeout"
  /\ IF pEpoch # 0 /\ ~armed THEN DropSession ELSE UNCHANGED session
  /\ Goto("receive")
  /\ UNCHANGED <<sinkVars, component, nimble, flags, ring, held, cfgSize, seen>>

PumpTimeout ==
  /\ pump = "timeout"
  /\ IF pEpoch # 0 /\ ~armed
       THEN Abort(pEpoch) /\ DropSession
       ELSE UNCHANGED <<sinkVars, session>>
  /\ Goto("receive")
  /\ UNCHANGED <<component, nimble, flags, ring, held, cfgSize, seen>>

(* The chunk in hand: open a session for it, write it to the one at hand, or
   discard it.                                                               *)
PumpItem ==
  /\ pump = "item"
  /\ \/ /\ pEpoch = 0 /\ armed
        /\ cfgSize' = fwLen /\ seen' = starts
        /\ Goto(IF fwLen = 0 THEN "block" ELSE "open")
     \/ /\ pEpoch # 0
        /\ Goto("write")
        /\ UNCHANGED <<cfgSize, seen>>
  /\ UNCHANGED <<sinkVars, component, nimble, flags, ring, held, session>>

PumpDiscard ==
  /\ pump = "item" /\ pEpoch = 0 /\ ~armed
  /\ held' = <<>>
  /\ Goto("receive")
  /\ UNCHANGED <<sinkVars, component, nimble, flags, ring, session, cfgSize, seen>>

(* fw_len is the length the session was opened with; the component's own copy
   is cleared by Stop (ERR-007).                                             *)
FaultyCapturedLength == fwLen
CapturedLength == cfgSize

PumpOpen ==
  /\ pump = "open"
  /\ Open(cfgSize) /\ Tolerated
  /\ IF ret' = "OK"
       THEN /\ pEpoch' = epoch' /\ pFwLen' = CapturedLength /\ pPumped' = 0
            /\ Goto("write")
       ELSE /\ Goto("block")
            /\ UNCHANGED session
  /\ UNCHANGED <<component, nimble, flags, ring, held, cfgSize, seen>>

PumpBlock ==
  /\ pump = "block"
  /\ blocked' = TRUE /\ held' = <<>>
  /\ Goto("receive")
  /\ UNCHANGED <<sinkVars, component, nimble, armed, ring, session, cfgSize, seen>>

(* ota_sink_write, from the call to its return *)
PumpWrite ==
  /\ pump = "write"
  /\ WriteEnter(pEpoch, held)
  /\ Goto("wrote")
  /\ UNCHANGED <<component, nimble, flags, ring, held, session, cfgSize, seen>>

FaultyAllPumped(n) == pFwLen > 0 /\ n > pFwLen
AllPumped(n) == pFwLen > 0 /\ n >= pFwLen

PumpWrote ==
  /\ pump = "wrote" /\ InCall("idle") /\ ret \in {"OK", "NVS"}
  /\ held' = <<>>
  /\ pPumped' = pPumped + Len(held)
  /\ Goto(IF AllPumped(pPumped') THEN "finish" ELSE "receive")
  /\ UNCHANGED <<sinkVars, component, nimble, flags, ring, pEpoch, pFwLen, cfgSize, seen>>

FaultyPumpWriteFailed ==
  /\ pump = "wrote" /\ InCall("idle") /\ ret \notin {"OK", "NVS"}
  /\ held' = <<>>
  /\ DropSession
  /\ Goto("receive")
  /\ UNCHANGED <<sinkVars, component, nimble, flags, ring, cfgSize, seen>>

PumpWriteFailed ==
  /\ pump = "wrote" /\ InCall("idle") /\ ret \notin {"OK", "NVS"}
  /\ held' = <<>>
  /\ Abort(pEpoch)
  /\ DropSession
  /\ Goto("receive")
  /\ UNCHANGED <<component, nimble, flags, ring, cfgSize, seen>>

PumpFinish ==
  /\ pump = "finish"
  /\ FinishEnter(pEpoch)
  /\ Goto("finished")
  /\ UNCHANGED <<component, nimble, flags, ring, held, session, cfgSize, seen>>

PumpFinished ==
  /\ pump = "finished" /\ InCall("idle")
  /\ IF ret = "OK"
       THEN Goto("activate") /\ UNCHANGED session
       ELSE Goto("receive") /\ DropSession
  /\ UNCHANGED <<sinkVars, component, nimble, flags, ring, held, cfgSize, seen>>

PumpActivate ==
  /\ pump = "activate"
  /\ ActivateEnter(pEpoch, TRUE)
  /\ Goto("activated")
  /\ UNCHANGED <<component, nimble, flags, ring, held, session, cfgSize, seen>>

(* activate came back: esp_restart does not *)
PumpActivated ==
  /\ pump = "activated" /\ InCall("idle")
  /\ DropSession
  /\ Goto("receive")
  /\ UNCHANGED <<sinkVars, component, nimble, flags, ring, held, cfgSize, seen>>

(* The pump inside a sink call *)
PumpInCall ==
  /\ CallStep /\ Tolerated
  /\ UNCHANGED <<component, nimble, flags, ring, pumpVars>>

(* esp_restart, or a power cut: the RAM of both tasks is lost *)
Reboot ==
  /\ InCall("restart") \/ world.powerCuts
  /\ Restart /\ (world.faults \/ running' = boot)
  /\ startOta' = FALSE /\ fwLen' = 0 /\ curSector' = 0
  /\ nimble' = "idle" /\ armed' = FALSE /\ blocked' = FALSE /\ ring' = <<>>
  /\ pump' = "receive" /\ held' = <<>> /\ cfgSize' = 0 /\ seen' = 0
  /\ pEpoch' = 0 /\ pFwLen' = 0 /\ pPumped' = 0
  /\ UNCHANGED <<world, starts>>

NimbleStep == CbArm \/ CbFlush \/ CbInvalidate \/ CbDisarm

PumpStep ==
  \/ PumpReceive \/ PumpReceiveTimeout \/ PumpTimeout \/ PumpItem \/ PumpDiscard
  \/ PumpOpen \/ PumpBlock
  \/ PumpWrite \/ PumpWrote \/ PumpWriteFailed
  \/ PumpFinish \/ PumpFinished \/ PumpActivate \/ PumpActivated
  \/ PumpInCall

Host ==
  \/ \E len \in world.announced : StartCmd(len)
  \/ StopCmd \/ Disconnect \/ SectorDone

Next == Host \/ NimbleStep \/ PumpStep \/ Reboot

Spec == Init /\ [][Next]_vars

(* Both tasks keep running.  The host owes nothing, unless the world has one that
   sends what it announced once it has started.                                 *)
FairSpec ==
  /\ Spec
  /\ WF_vars(NimbleStep) /\ WF_vars(PumpStep) /\ WF_vars(Reboot /\ InCall("restart"))
  /\ WF_vars(world.diligent /\ SectorDone)
=============================================================================
