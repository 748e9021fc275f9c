------------------------------ MODULE OtaSink ------------------------------
(***************************************************************************)
(* The OTA session and flash-writing core of the firmware                  *)
(* (components/ota_core/src/ota_sink.c).                                   *)
(*                                                                         *)
(* Two parties use it.  One "serial caller" (the transport's pump task)    *)
(* opens, writes, finishes, activates and aborts, one call at a time.  Any *)
(* other task may call ota_sink_epoch_invalidate at any moment.  A mutex   *)
(* protects the state; esp_ota_write, esp_ota_end and                      *)
(* esp_ota_set_boot_partition run with the mutex released, so each of      *)
(* those calls is split into actions at the points where the code lets the *)
(* mutex go.  Everything done under one hold of the mutex is one action.   *)
(*                                                                         *)
(* Definitions named Faulty... are plausible mistakes in the definition     *)
(* that follows them; no specification uses them, they show that the       *)
(* properties would notice.                                                *)
(*                                                                         *)
(* The flash, the OTA handle table, otadata, NVS and the boot loader are   *)
(* external: they are modelled by what this file relies on.  Power may     *)
(* fail between any two actions.                                           *)
(***************************************************************************)
EXTENDS Naturals, Sequences

CONSTANTS
  Data,         \* the units of image data a caller can hand over
  Images,       \* the sequences of units esp_ota_end accepts as an image
  FactoryImage, \* what the running slot holds when the device leaves the factory
  Handle,       \* values esp_ota_begin can return
  SlotSize,     \* capacity of an OTA slot, in units
  SectorUnits,  \* OTA_SECTOR_SIZE, in units
  MaxEpoch      \* bound on the sessions opened between two restarts

ASSUME SinkAssumption ==
  /\ Images \subseteq Seq(Data)
  /\ FactoryImage \in Images
  /\ Handle \subseteq Nat \ {0}
  /\ SlotSize \in Nat
  /\ SectorUnits \in Nat \ {0}
  /\ MaxEpoch \in Nat

VARIABLES
  \* s_sink
  state, epoch, live, nextEpoch, handle, size, written, sectors, dirty,
  \* the serial caller: the call it is inside of, and the last value returned
  call, ret,
  \* IDF: handle table, slot contents, otadata's choice, running slot, NVS blob
  ops, slots, boot, running, nvs

sink  == <<state, epoch, live, nextEpoch, handle, size, written, sectors, dirty>>
flash == <<ops, slots, boot, running, nvs>>
sinkVars == <<sink, call, ret, flash>>

Slot == {"ota_0", "ota_1"}
SinkState == {"IDLE", "WRITING", "ABORT_PENDING", "VALIDATED", "ACTIVATED"}
Window == {"idle", "write", "account", "end", "boot", "close", "restart"}
Code == {"OK", "BAD_ARG", "BUSY", "NO_SESSION", "STALE", "SIZE_INVALID",
         "PARTITION", "BEGIN_FAIL", "WRITE_FAIL", "VALIDATE_FAIL",
         "ACTIVATE_FAIL", "NVS"}

Epoch == 1 .. MaxEpoch
Issued == 1 .. (nextEpoch - 1)
Closed == 0

NoCall == [op |-> "idle", epoch |-> 0, data |-> <<>>, handle |-> 0, reboot |-> FALSE]
InCall(op) == call.op = op
NoProgress == [size |-> 0, sector |-> 0]

(* esp_ota_get_next_update_partition(esp_ota_get_running_partition()) *)
OtherSlot(s) == IF s = "ota_0" THEN "ota_1" ELSE "ota_0"
FaultyTarget == OtherSlot(boot)
Target == OtherSlot(running)

(* esp_ota_abort, and the clean-up esp_ota_end does whatever its result *)
CloseHandle(h) == [ops EXCEPT ![h] = Closed]

(* sink_epoch_is_current_locked *)
FaultyIsCurrent(e) == live /\ state = "WRITING"
IsCurrent(e) == live /\ e = epoch /\ state = "WRITING"

(* sink_to_idle_locked: the handle is the caller's business *)
ToIdle == state' = "IDLE" /\ live' = FALSE

Return(code) == ret' = code /\ call' = NoCall

(* ota_sink_init, on a device fresh from the factory *)
SinkInit ==
  /\ state = "IDLE" /\ epoch = 0 /\ live = FALSE /\ nextEpoch = 1 /\ handle = 0
  /\ size = 0 /\ written = 0 /\ sectors = 0 /\ dirty = FALSE
  /\ call = NoCall /\ ret = "OK"
  /\ ops = [h \in Handle |-> Closed]
  /\ running = "ota_0" /\ boot = "ota_0"
  /\ slots = [s \in Slot |-> IF s = "ota_0" THEN FactoryImage ELSE <<>>]
  /\ nvs = NoProgress

-----------------------------------------------------------------------------
(* ota_sink_session_open: one hold of the mutex, esp_ota_begin included.  An
   ABORT_PENDING session is closed first, whatever becomes of the new one.   *)

Pending == state = "ABORT_PENDING"
FaultyOpsAfterPending == ops
OpsAfterPending == IF Pending /\ handle # 0 THEN CloseHandle(handle) ELSE ops

Fits(sz) == sz <= SlotSize

ResetCounters == written' = 0 /\ sectors' = 0 /\ dirty' = FALSE

OpenBadArg(sz) ==
  /\ InCall("idle") /\ sz = 0
  /\ Return("BAD_ARG")
  /\ UNCHANGED <<sink, flash>>

OpenRefused(sz, code) ==
  /\ InCall("idle") /\ sz > 0
  /\ CASE code = "BUSY"         -> live
       [] code = "PARTITION"    -> ~live
       [] code = "SIZE_INVALID" -> ~live /\ ~Fits(sz)
       [] code = "BEGIN_FAIL"   -> ~live /\ Fits(sz)
  /\ state' = IF Pending THEN "IDLE" ELSE state
  /\ handle' = IF Pending \/ code = "BEGIN_FAIL" THEN 0 ELSE handle
  /\ ops' = OpsAfterPending
  /\ \/ UNCHANGED slots
     \/ code = "BEGIN_FAIL" /\ slots' = [slots EXCEPT ![Target] = <<>>]
  /\ Return(code)
  /\ UNCHANGED <<epoch, live, nextEpoch, size, written, sectors, dirty, boot, running, nvs>>

OpenAccepted(sz) ==
  /\ InCall("idle") /\ sz > 0 /\ Fits(sz) /\ ~live
  /\ nextEpoch <= MaxEpoch
  /\ \E h \in Handle :
       /\ OpsAfterPending[h] = Closed
       /\ ops' = [OpsAfterPending EXCEPT ![h] = nextEpoch]
       /\ handle' = h
  /\ slots' = [slots EXCEPT ![Target] = <<>>]
  /\ state' = "WRITING" /\ live' = TRUE
  /\ epoch' = nextEpoch /\ nextEpoch' = nextEpoch + 1
  /\ size' = sz /\ ResetCounters
  /\ Return("OK")
  /\ UNCHANGED <<boot, running, nvs>>

Open(sz) ==
  \/ OpenBadArg(sz)
  \/ \E code \in {"BUSY", "PARTITION", "SIZE_INVALID", "BEGIN_FAIL"} : OpenRefused(sz, code)
  \/ OpenAccepted(sz)

-----------------------------------------------------------------------------
(* ota_sink_write: check the epoch under the mutex, write to flash without it,
   take it again to check the epoch once more and account for the bytes.      *)

WriteEnter(e, d) ==
  /\ InCall("idle") /\ d # <<>>
  /\ IF IsCurrent(e)
       THEN /\ call' = [op |-> "write", epoch |-> e, data |-> d,
                        handle |-> handle, reboot |-> FALSE]
            /\ UNCHANGED ret
       ELSE Return("STALE")
  /\ UNCHANGED <<sink, flash>>

WriteFlash ==
  /\ InCall("write")
  /\ \/ /\ ops[call.handle] # Closed
        /\ Len(slots[Target]) + Len(call.data) <= SlotSize
        /\ slots' = [slots EXCEPT ![Target] = @ \o call.data]
        /\ call' = [call EXCEPT !.op = "account"]
        /\ UNCHANGED ret
     \/ Return("WRITE_FAIL") /\ UNCHANGED slots
  /\ UNCHANGED <<sink, ops, boot, running, nvs>>

WriteStale ==
  /\ InCall("account") /\ ~IsCurrent(call.epoch)
  /\ Return("STALE")
  /\ UNCHANGED <<sink, flash>>

(* ota_progress_save, once for each sector a write completes: saved is the
   last sector whose save succeeded.                                         *)
FaultySaveProgress(saved) ==
  /\ nvs' = IF saved > sectors THEN [size |-> size, sector |-> saved] ELSE nvs
  /\ dirty' = FALSE

SaveProgress(saved) ==
  /\ nvs' = IF saved > sectors THEN [size |-> size, sector |-> saved] ELSE nvs
  /\ dirty' = IF sectors' > sectors THEN saved < sectors' ELSE dirty

(* A failed save makes the call return NVS even when a later one succeeds. *)
WriteAccount ==
  /\ InCall("account") /\ IsCurrent(call.epoch)
  /\ written' = written + Len(call.data)
  /\ sectors' = written' \div SectorUnits
  /\ \E saved \in sectors .. sectors', allSaved \in BOOLEAN :
       /\ allSaved => saved = sectors'
       /\ ~allSaved => saved < sectors' \/ sectors' > sectors + 1
       /\ SaveProgress(saved)
       /\ Return(IF allSaved THEN "OK" ELSE "NVS")
  /\ UNCHANGED <<state, epoch, live, nextEpoch, handle, size, ops, slots, boot, running>>

-----------------------------------------------------------------------------
(* ota_sink_epoch_invalidate: the only operation another task may call *)
FaultyInvalidate ==
  /\ live' = FALSE
  /\ IF state = "WRITING" /\ handle # 0
       THEN state' = "IDLE" /\ ops' = CloseHandle(handle) /\ handle' = 0
       ELSE UNCHANGED <<state, ops, handle>>
  /\ UNCHANGED <<epoch, nextEpoch, size, written, sectors, dirty, call, ret,
                 slots, boot, running, nvs>>

Invalidate ==
  /\ state' = IF state = "WRITING" THEN "ABORT_PENDING" ELSE state
  /\ live' = FALSE
  /\ UNCHANGED <<epoch, nextEpoch, handle, size, written, sectors, dirty, call, ret, flash>>

(* ota_sink_session_abort *)
Abort(e) ==
  /\ InCall("idle")
  /\ \/ /\ ~(live /\ e = epoch)
        /\ Return("STALE")
        /\ UNCHANGED <<state, live, handle, ops>>
     \/ /\ live /\ e = epoch
        /\ IF state = "WRITING" /\ handle # 0
             THEN ops' = CloseHandle(handle) /\ handle' = 0
             ELSE UNCHANGED <<ops, handle>>
        /\ ToIdle
        /\ Return("OK")
  /\ UNCHANGED <<epoch, nextEpoch, size, written, sectors, dirty, slots, boot, running, nvs>>

-----------------------------------------------------------------------------
(* ota_sink_finish: the handle is taken from the session under the mutex,
   esp_ota_end runs without it, the outcome is recorded under it.          *)

FinishEnter(e) ==
  /\ InCall("idle")
  /\ IF live /\ e = epoch /\ state = "WRITING"
       THEN /\ call' = [op |-> "end", epoch |-> e, data |-> <<>>,
                        handle |-> handle, reboot |-> FALSE]
            /\ handle' = 0
            /\ UNCHANGED ret
       ELSE /\ Return(IF live /\ e = epoch THEN "NO_SESSION" ELSE "STALE")
            /\ UNCHANGED handle
  /\ UNCHANGED <<state, epoch, live, nextEpoch, size, written, sectors, dirty, flash>>

FinishOk ==
  /\ InCall("end")
  /\ ops[call.handle] # Closed /\ slots[Target] \in Images
  /\ state' = "VALIDATED"
  /\ ops' = CloseHandle(call.handle)
  /\ Return("OK")
  /\ UNCHANGED <<epoch, live, nextEpoch, handle, size, written, sectors, dirty,
                 slots, boot, running, nvs>>

FinishFail ==
  /\ InCall("end")
  /\ ToIdle
  /\ ops' = CloseHandle(call.handle)
  /\ Return("VALIDATE_FAIL")
  /\ UNCHANGED <<epoch, nextEpoch, handle, size, written, sectors, dirty,
                 slots, boot, running, nvs>>

-----------------------------------------------------------------------------
(* ota_sink_activate: the gate is under the mutex, esp_ota_set_boot_partition
   (which verifies the image again) and ota_progress_clear are not.           *)

FaultyActivatable(e) == e = epoch /\ state = "VALIDATED"
FaultyEpochActivatable(e) == live /\ state = "VALIDATED"
Activatable(e) == live /\ e = epoch /\ state = "VALIDATED"

ActivateEnter(e, reboot) ==
  /\ InCall("idle")
  /\ IF Activatable(e)
       THEN /\ state' = "ACTIVATED"
            /\ call' = [op |-> "boot", epoch |-> e, data |-> <<>>,
                        handle |-> 0, reboot |-> reboot]
            /\ UNCHANGED ret
       ELSE /\ Return(IF live /\ e = epoch THEN "NO_SESSION" ELSE "STALE")
            /\ UNCHANGED state
  /\ UNCHANGED <<epoch, live, nextEpoch, handle, size, written, sectors, dirty, flash>>

SetBootOk ==
  /\ InCall("boot") /\ slots[Target] \in Images
  /\ boot' = Target
  /\ call' = [call EXCEPT !.op = "close"]
  /\ UNCHANGED <<sink, ret, ops, slots, running, nvs>>

FaultySetBootFail ==
  /\ InCall("boot")
  /\ state' = "VALIDATED" /\ live' = TRUE
  /\ Return("ACTIVATE_FAIL")
  /\ UNCHANGED <<epoch, nextEpoch, handle, size, written, sectors, dirty, flash>>

SetBootFail ==
  /\ InCall("boot")
  /\ state' = "VALIDATED"
  /\ Return("ACTIVATE_FAIL")
  /\ UNCHANGED <<epoch, live, nextEpoch, handle, size, written, sectors, dirty, flash>>

ActivateClose ==
  /\ InCall("close")
  /\ nvs' \in {nvs, NoProgress}
  /\ live' = FALSE
  /\ IF call.reboot
       THEN call' = [call EXCEPT !.op = "restart"] /\ UNCHANGED ret
       ELSE Return("OK")
  /\ UNCHANGED <<state, epoch, nextEpoch, handle, size, written, sectors, dirty,
                 ops, slots, boot, running>>

-----------------------------------------------------------------------------
(* esp_restart or a power failure, then the boot loader: it starts the slot
   otadata names, or the other one when that image is bad or rolled back.
   RAM is lost, and ota_sink_init runs again.  DeviceBoot has the boot loader
   in detail, and BootSlots what it and the sink rely on each other for.      *)
Restart ==
  /\ running' \in {s \in Slot : slots[s] \in Images}
  /\ state' = "IDLE" /\ epoch' = 0 /\ live' = FALSE /\ nextEpoch' = 1 /\ handle' = 0
  /\ size' = 0 /\ written' = 0 /\ sectors' = 0 /\ dirty' = FALSE
  /\ call' = NoCall /\ ret' = "OK"
  /\ ops' = [h \in Handle |-> Closed]
  /\ UNCHANGED <<slots, boot, nvs>>

(* What the serial caller does next inside a call it has begun *)
CallStep ==
  \/ WriteFlash \/ WriteStale \/ WriteAccount
  \/ FinishOk \/ FinishFail
  \/ SetBootOk \/ SetBootFail \/ ActivateClose

=============================================================================
