------------------------------ MODULE OtaHost ------------------------------
(***************************************************************************)
(* The flashing client (host/ble_ota_host.py: run_flash, send_start,        *)
(* send_sector, send_stop, wait_reboot_with_gap) over a BLE connection to   *)
(* the component of NimbleOta.                                              *)
(*                                                                         *)
(* One coroutine awaits two things at a time: the ATT response to its write *)
(* and, through a future armed before the write, a notification.  Both are  *)
(* in flight on their own and the future has a timer; the connection may    *)
(* drop, the device may restart, a notification may not be sent at all.     *)
(* Responses are never lost while the connection lasts (ATT), and frames    *)
(* arrive intact.  Connecting, scanning and the radio are external.         *)
(***************************************************************************)
EXTENDS NimbleOta

CONSTANTS
  AckRetries,   \* ACK_RETRIES
  MaxJumps,     \* max_jumps of send_sector
  Troubles      \* what may go wrong in a run of the model: sets of Trouble

(* A notification is not sent; a timer runs out while something is in flight;
   the connection drops or an attempt to connect fails; the device restarts for
   reasons of its own; a scan misses a device that advertises.                *)
Trouble == {"lost", "slow", "drop", "crash", "blind"}

ASSUME HostAssumption ==
  /\ AckRetries \in Nat \ {0} /\ MaxJumps \in Nat \ {0}
  /\ Troubles \subseteq SUBSET Trouble

VARIABLES
  hpc,       \* where the coroutine is
  outcome,   \* "running", or the exit code of the last run
  reconnects,          \* reconnect_budget of run_flash
  current,             \* run_flash: sectors confirmed
  sector, attempt, jumps, nextPacket,   \* locals of send_sector
  preVisible, seenGap, \* what the scans have seen
  waiter,    \* the future: which characteristic, its state, its frame
  answer,    \* ATT response in flight, "none" if there is none
  wire,      \* notifications in flight
  link,      \* the connection is up
  device,    \* "up" or "rebooting"
  newImage,  \* the device has restarted into the image (history)
  trouble    \* what may go wrong, of Troubles

locals  == <<reconnects, current, sector, attempt, jumps, nextPacket>>
watch   == <<preVisible, seenGap>>
radio   == <<waiter, answer, wire, link>>
world   == <<device, newImage, trouble>>
hostVars == <<hpc, outcome, locals, watch, radio, world>>
vars == <<nimbleVars, hostVars>>

Idle == [chr |-> "none", state |-> "none", frame |-> NoFrame]
Armed(chr) == [chr |-> chr, state |-> "armed", frame |-> NoFrame]

Init ==
  /\ NimbleInit
  /\ hpc = "connect" /\ outcome = "running" /\ reconnects = 1
  /\ current = 0 /\ sector = 0 /\ attempt = 0 /\ jumps = 0 /\ nextPacket = 0
  /\ preVisible = FALSE /\ seenGap = FALSE
  /\ waiter = Idle /\ answer = "none" /\ wire = <<>> /\ link = FALSE
  /\ device = "up" /\ newImage = FALSE /\ trouble \in Troubles

Exit(code) == hpc' = "end" /\ outcome' = code

(* disconnect(): what is in flight is lost, on either side *)
HangUp == link' = FALSE /\ wire' = <<>> /\ answer' = "none" /\ waiter' = Idle

Fail == Exit("1") /\ HangUp

-----------------------------------------------------------------------------
(* Connecting: one automatic retry *)
Connect ==
  /\ hpc = "connect" /\ device = "up"
  /\ link' = TRUE /\ hpc' = "start"
  /\ UNCHANGED <<nimbleVars, outcome, locals, watch, waiter, answer, wire, world>>

ConnectFails ==
  /\ hpc = "connect" /\ ("drop" \in trouble \/ device # "up")
  /\ IF reconnects = 0
       THEN Exit("1") /\ UNCHANGED reconnects
       ELSE reconnects' = reconnects - 1 /\ UNCHANGED <<hpc, outcome>>
  /\ UNCHANGED <<nimbleVars, current, sector, attempt, jumps, nextPacket, watch, radio, world>>

(* write_gatt_char: the device handles the write, its answer and its
   notification set out.  On a dead connection it raises.                    *)
Written ==
  /\ answer' = att'
  /\ \/ wire' = IF frame' = NoFrame THEN wire ELSE Append(wire, frame')
     \/ "lost" \in trouble /\ wire' = wire
  /\ UNCHANGED link

WriteRaises ==
  /\ hpc \in {"start", "packet", "stop"} /\ ~link
  /\ Fail
  /\ UNCHANGED <<nimbleVars, locals, watch, world>>

(* The write was refused, or the connection died before the answer *)
AnswerRaises ==
  /\ hpc \in {"starting", "writing", "stopping"}
  /\ answer = "err" \/ (answer = "none" /\ ~link)
  /\ Fail
  /\ UNCHANGED <<nimbleVars, locals, watch, world>>

FaultyFirstSector == current
FirstSector == 0

FaultyMoreToSend(n) == n + 1 < Sectors
MoreToSend(n) == n < Sectors

SendStart ==
  /\ hpc = "start" /\ link
  /\ StartWrite(Sectors) /\ Written
  /\ waiter' = Armed("cmd")
  /\ hpc' = "starting"
  /\ UNCHANGED <<outcome, locals, watch, world>>

(* The command was accepted; the coroutine goes on to await its ACK. *)
Answered ==
  /\ hpc \in {"starting", "stopping"} /\ answer = "ok"
  /\ answer' = "none"
  /\ hpc' = IF hpc = "starting" THEN "startAck" ELSE "stopAck"
  /\ UNCHANGED <<nimbleVars, outcome, locals, watch, waiter, wire, link, world>>

Started ==
  /\ hpc = "startAck" /\ waiter.state \in {"set", "expired"}
  /\ IF waiter.state = "set"
       THEN /\ hpc' = "sector" /\ current' = FirstSector /\ sector' = current'
            /\ attempt' = 0 /\ jumps' = 0
            /\ waiter' = Idle
            /\ UNCHANGED <<outcome, answer, wire, link>>
       ELSE Fail /\ UNCHANGED <<current, sector, attempt, jumps>>
  /\ UNCHANGED <<nimbleVars, reconnects, nextPacket, watch, world>>

-----------------------------------------------------------------------------
(* send_sector *)

(* The ACK's future, and so its timer, starts before the first packet. *)
BeginAttempt ==
  /\ hpc = "sector"
  /\ waiter' = Armed("fw") /\ nextPacket' = 0
  /\ hpc' = "packet"
  /\ UNCHANGED <<nimbleVars, outcome, reconnects, current, sector, attempt, jumps, watch,
                 answer, wire, link, world>>

SendPacket ==
  /\ hpc = "packet" /\ link
  /\ WriteChr(Packet(sector, nextPacket, "whole")) /\ Written
  /\ hpc' = "writing"
  /\ UNCHANGED <<outcome, locals, watch, waiter, world>>

PacketWritten ==
  /\ hpc = "writing" /\ answer = "ok"
  /\ answer' = "none" /\ nextPacket' = nextPacket + 1
  /\ hpc' = IF nextPacket' < Packets[sector] THEN "packet" ELSE "await"
  /\ UNCHANGED <<nimbleVars, outcome, reconnects, current, sector, attempt, jumps, watch,
                 waiter, wire, link, world>>

AckTimedOut ==
  /\ hpc = "await" /\ waiter.state = "expired"
  /\ attempt' = attempt + 1
  /\ IF attempt' >= AckRetries
       THEN Fail
       ELSE hpc' = "sector" /\ UNCHANGED <<outcome, radio>>
  /\ UNCHANGED <<nimbleVars, reconnects, current, sector, jumps, nextPacket, watch, world>>

(* A success ends send_sector; a NACK sends it to the sector named. *)
Acknowledged ==
  /\ hpc = "await" /\ waiter.state = "set"
  /\ attempt' = 0
  /\ IF waiter.frame.status = "success"
       THEN /\ current' = sector + 1 /\ sector' = current' /\ jumps' = 0
            /\ hpc' = IF MoreToSend(current') THEN "sector" ELSE "stop"
            /\ UNCHANGED <<outcome, radio>>
       ELSE /\ jumps' = jumps + 1
            /\ IF jumps' >= MaxJumps
                 THEN Fail /\ UNCHANGED sector
                 ELSE /\ hpc' = "sector" /\ sector' = waiter.frame.expected
                      /\ UNCHANGED <<outcome, radio>>
            /\ UNCHANGED current
  /\ UNCHANGED <<nimbleVars, reconnects, nextPacket, watch, world>>

-----------------------------------------------------------------------------
(* send_stop, then disconnect: the ACK is not needed *)
SendStop ==
  /\ hpc = "stop" /\ link
  /\ StopWrite /\ Written
  /\ waiter' = Armed("cmd")
  /\ hpc' = "stopping"
  /\ UNCHANGED <<outcome, locals, watch, world>>

Stopped ==
  /\ hpc = "stopAck" /\ waiter.state \in {"set", "expired"}
  /\ HangUp
  /\ hpc' = "baseline"
  /\ UNCHANGED <<nimbleVars, outcome, locals, watch, world>>

(* A scan sees the device if it advertises, which it does when it is up and
   nobody is connected.                                                      *)
Scan(seen) ==
  IF device = "up" /\ ~link THEN seen \/ "blind" \in trouble ELSE ~seen

Baseline ==
  /\ hpc = "baseline"
  /\ \E seen \in BOOLEAN : Scan(seen) /\ preVisible' = seen
  /\ seenGap' = FALSE
  /\ hpc' = "watch"
  /\ UNCHANGED <<nimbleVars, outcome, locals, radio, world>>

(* wait_reboot_with_gap: vanished and back again means rebooted *)
Probe ==
  /\ hpc = "watch"
  /\ \E seen \in BOOLEAN :
       /\ Scan(seen)
       /\ IF seen /\ seenGap THEN Exit("0") ELSE UNCHANGED <<hpc, outcome>>
       /\ seenGap' = (seenGap \/ ~seen)
  /\ UNCHANGED <<nimbleVars, locals, preVisible, radio, world>>

(* The watch ends; one more look decides. *)
WatchOver ==
  /\ hpc = "watch"
  /\ \E seen \in BOOLEAN :
       Scan(seen) /\ Exit(IF preVisible /\ ~seen THEN "0" ELSE "1")
  /\ UNCHANGED <<nimbleVars, locals, watch, radio, world>>

(* The user runs the tool again. *)
Rerun ==
  /\ hpc = "end"
  /\ hpc' = "connect" /\ outcome' = "running" /\ reconnects' = 1
  /\ newImage' = FALSE
  /\ UNCHANGED <<nimbleVars, current, sector, attempt, jumps, nextPacket, watch, radio, device, trouble>>

-----------------------------------------------------------------------------
(* The radio and the device *)

(* _on_frame: a frame nobody waits for is dropped *)
Deliver ==
  /\ wire # <<>>
  /\ wire' = Tail(wire)
  /\ waiter' = IF waiter.state = "armed" /\ waiter.chr = Head(wire).chr
                 THEN [waiter EXCEPT !.state = "set", !.frame = Head(wire)]
                 ELSE waiter
  /\ UNCHANGED <<nimbleVars, hpc, outcome, locals, watch, answer, link, world>>

(* asyncio.wait_for in _wait_indicate *)
TimerRunsOut ==
  "slow" \in trouble \/ (wire = <<>> /\ hpc \in {"startAck", "await", "stopAck"})

FaultyExpire ==
  /\ waiter.state = "armed" /\ waiter.chr = "cmd" /\ TimerRunsOut
  /\ waiter' = [waiter EXCEPT !.state = "expired"]
  /\ UNCHANGED <<nimbleVars, hpc, outcome, locals, watch, answer, wire, link, world>>

Expire ==
  /\ waiter.state = "armed" /\ TimerRunsOut
  /\ waiter' = [waiter EXCEPT !.state = "expired"]
  /\ UNCHANGED <<nimbleVars, hpc, outcome, locals, watch, answer, wire, link, world>>

LinkLost == link' = FALSE /\ wire' = <<>> /\ answer' = "none"

Drop ==
  /\ "drop" \in trouble /\ link
  /\ LinkLost
  /\ UNCHANGED <<nimbleVars, hpc, outcome, locals, watch, waiter, world>>

(* esp_restart once the pump has the image, or a restart of another cause *)
Reboot ==
  /\ device = "up"
  /\ \/ Len(delivered) = Sectors /\ newImage' = TRUE
     \/ "crash" \in trouble /\ UNCHANGED newImage
  /\ device' = "rebooting"
  /\ startOta' = FALSE /\ totalLen' = 0 /\ curSector' = 0 /\ curPacket' = 0
  /\ sequenceError' = FALSE /\ hasBuf' = FALSE /\ fwBuf' = <<>>
  /\ att' = "ok" /\ frame' = NoFrame
  /\ LinkLost
  /\ UNCHANGED <<delivered, hpc, outcome, locals, watch, waiter, trouble>>

ComeBack ==
  /\ device = "rebooting" /\ device' = "up"
  /\ UNCHANGED <<nimbleVars, hpc, outcome, locals, watch, radio, newImage, trouble>>

Host ==
  \/ Connect \/ ConnectFails \/ WriteRaises \/ AnswerRaises
  \/ SendStart \/ Answered \/ Started
  \/ BeginAttempt \/ SendPacket \/ PacketWritten \/ AckTimedOut \/ Acknowledged
  \/ SendStop \/ Stopped \/ Baseline \/ WatchOver

Next == Host \/ Probe \/ Rerun \/ Deliver \/ Expire \/ Drop \/ Reboot \/ ComeBack

Spec == Init /\ [][Next]_vars

(* The event loop runs, timers run out, notifications arrive, a scan window
   ends, and a restarting device comes back.  The user owes nothing.         *)
FairSpec ==
  /\ Spec
  /\ WF_vars(Host) /\ WF_vars(Deliver) /\ WF_vars(Expire) /\ WF_vars(ComeBack)

-----------------------------------------------------------------------------
(* Where the run is, what is in flight and what has been seen have their types. *)
TypeOK ==
  /\ hpc \in {"connect", "start", "starting", "startAck", "sector", "packet", "writing",
              "await", "stop", "stopping", "stopAck", "baseline", "watch", "end"}
  /\ outcome \in {"running", "0", "1"} /\ reconnects \in 0 .. 1
  /\ current \in 0 .. Sectors /\ sector \in 0 .. Sectors
  /\ attempt \in 0 .. AckRetries /\ jumps \in 0 .. MaxJumps
  /\ waiter.chr \in {"none", "cmd", "fw"}
  /\ waiter.state \in {"none", "armed", "set", "expired"}
  /\ answer \in {"none", "ok", "err"}
  /\ Len(wire) \in 0 .. 2

Sending == {"sector", "packet", "writing", "await"}

(* While it sends, the client is never ahead of the device and never more than
   the sector in hand behind it, whatever was lost, late or repeated, and in
   whatever state an earlier run left the device.  (The types hold, too.)       *)
HostInStep ==
  /\ TypeOK
  /\ hpc \in Sending => Len(delivered) \in {current, current + 1}
  /\ hpc \in {"sector", "packet"} /\ attempt = 0 /\ jumps = 0 => Len(delivered) = current

(* Exit code 0 is only ever reported for a device whose transport was handed the
   whole image, sector by sector, in this very run.                            *)
SuccessHadWholeImage ==
  outcome = "0" => delivered = [i \in 1 .. Sectors |-> SectorData(i - 1)]

(* Whatever the radio and the device do, the tool comes to an end: no await of
   it waits for something that may never come.                                 *)
EveryRunEnds == outcome = "running" ~> outcome # "running"

(* Over a radio that loses nothing and is quick, the image gets through unless
   the device has no memory for its sector buffer.                             *)
CleanTransferArrives ==
  trouble = {} => <>(Len(delivered) = Sectors \/ (hpc = "end" /\ startOta /\ ~hasBuf))
-----------------------------------------------------------------------------
(* The inductive invariant behind the two safety properties.  Its heart: as long
   as the connection lasts, the component has taken exactly the packets the client
   sent, so the tail it is sent completes the sector; and the only frame that can
   reach a waiting send_sector is the success of the sector in hand, however late. *)
Frame == [chr : {"none", "fw", "cmd"},
          status : {"none", "success", "resend", "started", "stopped"},
          sector : Nat, expected : Nat]
Waiter == [chr : {"none", "cmd", "fw"}, state : {"none", "armed", "set", "expired"},
           frame : Frame]

RadioTypeOK ==
  /\ wire \in Seq(Frame) /\ waiter \in Waiter
  /\ curSector \in Nat /\ nextPacket \in Nat /\ link \in BOOLEAN

(* The first n sectors of the image, and the first k units of sector n *)
Image(n) == [i \in 1 .. n |-> SectorData(i - 1)]
Units(n, k) == [i \in 1 .. k |-> <<n, i - 1>>]

Behind == delivered = Image(current)       \* the device has what was confirmed
Ahead == delivered = Image(current + 1)    \* it has the sector in hand as well

(* A connection is to a device that is up; without one, nothing is in flight. *)
LinkInv ==
  /\ link => device = "up"
  /\ ~link => wire = <<>> /\ answer = "none"
  /\ answer # "none" => hpc \in {"starting", "writing", "stopping"}
  /\ hpc \in {"connect", "baseline", "watch", "end"} => ~link
  /\ hpc \in {"start", "stop"} => wire = <<>>

(* The component has no part of a sector. *)
Clean == curPacket = 0 /\ fwBuf = <<>> /\ ~sequenceError

(* A Start that was accepted left the component as good as new. *)
StartInv ==
  hpc \in {"starting", "startAck"} =>
    /\ delivered = <<>>
    /\ wire = <<>> \/ (wire = <<wire[1]>> /\ waiter.state # "set")
    /\ link => startOta /\ curSector = 0 /\ Clean

(* The packets of the sector in hand that the component has taken *)
TakenPackets == IF hpc = "writing" THEN nextPacket + 1 ELSE nextPacket

(* A write that failed will end the run: nothing is promised of it. *)
Sound == hpc \in Sending /\ (hpc = "writing" => answer = "ok")

SendInv ==
  hpc \in Sending =>
    /\ sector = current /\ current \in Sector /\ attempt < AckRetries /\ jumps = 0
    /\ Behind \/ Ahead
    /\ link => startOta /\ curSector = Len(delivered)

OneSuccess ==
  Sound =>
    /\ wire = <<>> \/ (wire = <<wire[1]>> /\ wire[1].status = "success" /\ waiter.state # "set")
    /\ waiter.state = "set" => waiter.frame.status = "success"

BehindInv ==
  Sound /\ Behind =>
    /\ attempt = 0 /\ wire = <<>> /\ hpc # "await"
    /\ hpc = "sector" /\ link => Clean
    /\ hpc # "sector" =>
         /\ waiter.state # "set" /\ TakenPackets < Packets[current]
         /\ link => /\ curPacket = TakenPackets /\ fwBuf = Units(current, TakenPackets)
                    /\ ~sequenceError

AheadInv ==
  Sound /\ Ahead =>
    /\ link => Clean
    /\ hpc \in {"sector", "packet"} => attempt > 0
    /\ hpc = "writing" => TakenPackets = Packets[current]

(* Once the last sector is confirmed, the image is there and stays. *)
EndInv ==
  /\ hpc \in {"stop", "stopping", "stopAck", "baseline", "watch"} => delivered = Image(Sectors)
  /\ hpc # "end" => outcome = "running"
  /\ outcome = "0" => delivered = Image(Sectors)

HostInv ==
  /\ TypeOK /\ RadioTypeOK /\ LinkInv /\ StartInv
  /\ SendInv /\ OneSuccess /\ BehindInv /\ AheadInv /\ EndInv
=============================================================================
