----------------------------- MODULE NimbleOta -----------------------------
(***************************************************************************)
(* The vendor component, packet by packet (ble_ota/src/nimble_ota.c, the    *)
(* NimBLE variant without protocomm and without pre-encryption): what a     *)
(* GATT write to the firmware or the command characteristic does to it,     *)
(* the notification it sends and the ATT result it returns.  Every write    *)
(* and every GAP event runs to its end in the NimBLE task, so each is one   *)
(* action.                                                                  *)
(*                                                                         *)
(* A unit is the payload of one packet: <<n, k>> is packet k of sector n of *)
(* the image.  What else a packet may be (cut short, too long, its tail     *)
(* without the CRC) is its form.  The 16-bit sector index does not wrap: an *)
(* image has far fewer sectors than that.                                   *)
(***************************************************************************)
EXTENDS Naturals, Sequences

CONSTANTS
  Sectors,    \* number of sectors of the image
  Packets,    \* Packets[n]: number of packets sector n is sent in, tail included
  SeqMod,     \* number of packet sequence numbers, 256 (uint8_t)
  BlockUnits  \* ota_block_size, in units

Sector == 0 .. (Sectors - 1)

ASSUME ComponentAssumption ==
  /\ Sectors \in Nat \ {0} /\ SeqMod \in Nat \ {0}
  /\ Packets \in [Sector -> 1 .. SeqMod]
  /\ BlockUnits \in Nat
  /\ \A n \in Sector : Packets[n] < BlockUnits

VARIABLES
  startOta, totalLen, curSector, curPacket, sequenceError,
  hasBuf,     \* fw_buf # NULL
  fwBuf,      \* the units in it, up to fw_buf_offset
  att,        \* how the last GATT write ended: "ok" or "err"
  frame,      \* the notification it sent, NoFrame if it sent none
  delivered   \* the sectors given to recv_fw_cb since the last Start (history)

component == <<startOta, totalLen, curSector, curPacket, sequenceError,
               hasBuf, fwBuf, delivered>>
nimbleVars == <<component, att, frame>>

Eof == SeqMod - 1          \* sequence number 0xff: the tail of a sector
LastMark == Sectors        \* sector index 0xffff: "the last sector"
NoFrame == [chr |-> "none", status |-> "none", sector |-> 0, expected |-> 0]

SectorData(n) == [k \in 1 .. Packets[n] |-> <<n, k - 1>>]

(* What a sender makes of packet k of sector n *)
FaultyPacketSeq(n, k) == k
PacketSeq(n, k) == IF k = Packets[n] - 1 THEN Eof ELSE k
Packet(n, k, form) == [sector |-> n, seq |-> PacketSeq(n, k), unit |-> <<n, k>>, form |-> form]

NimbleInit ==
  /\ startOta = FALSE /\ totalLen = 0 /\ curSector = 0 /\ curPacket = 0
  /\ sequenceError = FALSE /\ hasBuf = FALSE /\ fwBuf = <<>>
  /\ att = "ok" /\ frame = NoFrame /\ delivered = <<>>

Reply(result, f) == att' = result /\ frame' = f
Refuse(f) == Reply("err", f)

Success(p) == [chr |-> "fw", status |-> "success", sector |-> p.sector, expected |-> 0]
Nack(p) == [chr |-> "fw", status |-> "resend", sector |-> p.sector, expected |-> curSector]
CommandAck(status) == [chr |-> "cmd", status |-> status, sector |-> 0, expected |-> 0]

-----------------------------------------------------------------------------
(* A write to the firmware characteristic: esp_ble_ota_write_chr, one action
   for each way it can end.                                                  *)

FaultyRestartSector == fwBuf' = <<>> /\ UNCHANGED curPacket
RestartSector == curPacket' = 0 /\ fwBuf' = <<>>

(* Without a Start the write succeeds and is lost. *)
Ignored(p) ==
  /\ ~startOta
  /\ Reply("ok", NoFrame)
  /\ UNCHANGED component

Runt(p) ==
  /\ startOta /\ p.form = "runt"
  /\ Refuse(NoFrame)
  /\ UNCHANGED component

Received(p) == startOta /\ p.form # "runt"
RightSector(p) == p.sector \in {curSector, LastMark}
RightPacket(p) == p.seq = curPacket % SeqMod

WrongSector(p) ==
  /\ Received(p) /\ ~RightSector(p)
  /\ RestartSector /\ sequenceError' = FALSE
  /\ Refuse(Nack(p))
  /\ UNCHANGED <<startOta, totalLen, curSector, hasBuf, delivered>>

StaleEof(p) ==
  /\ Received(p) /\ RightSector(p) /\ ~RightPacket(p) /\ p.seq = Eof /\ sequenceError
  /\ RestartSector /\ sequenceError' = FALSE
  /\ Refuse(Nack(p))
  /\ UNCHANGED <<startOta, totalLen, curSector, hasBuf, delivered>>

FaultyWrongPacket(p) ==
  /\ Received(p) /\ RightSector(p) /\ ~RightPacket(p) /\ p.seq # Eof
  /\ RestartSector
  /\ Refuse(NoFrame)
  /\ UNCHANGED <<startOta, totalLen, curSector, sequenceError, hasBuf, delivered>>

WrongPacket(p) ==
  /\ Received(p) /\ RightSector(p) /\ ~RightPacket(p) /\ p.seq # Eof
  /\ RestartSector /\ sequenceError' = TRUE
  /\ Refuse(NoFrame)
  /\ UNCHANGED <<startOta, totalLen, curSector, hasBuf, delivered>>

(* A tail may come early: only a sequence error seen before makes it stale. *)
InOrder(p) ==
  Received(p) /\ RightSector(p) /\ (RightPacket(p) \/ (p.seq = Eof /\ ~sequenceError))

SequenceErrorAfter(p) == p.seq = Eof /\ sequenceError

(* Too short for the CRC, too long for the buffer, or not copied: what was
   collected is thrown away, cur_packet is not.                              *)
NoCrc(p) == p.form = "noCrc" /\ p.seq = Eof
Overflows(p) == p.form = "huge" \/ Len(fwBuf) + 1 > BlockUnits

Damaged(p) ==
  /\ InOrder(p) /\ (NoCrc(p) \/ (hasBuf /\ Overflows(p)))
  /\ fwBuf' = <<>> /\ sequenceError' = SequenceErrorAfter(p)
  /\ Refuse(NoFrame)
  /\ UNCHANGED <<startOta, totalLen, curSector, curPacket, hasBuf, delivered>>

NoBuffer(p) ==
  /\ InOrder(p) /\ ~hasBuf /\ ~NoCrc(p)
  /\ sequenceError' = SequenceErrorAfter(p)
  /\ Refuse(NoFrame)
  /\ UNCHANGED <<startOta, totalLen, curSector, curPacket, hasBuf, fwBuf, delivered>>

Copied(p) == InOrder(p) /\ p.form = "whole" /\ hasBuf /\ ~Overflows(p)

BodyTaken(p) ==
  /\ Copied(p) /\ p.seq # Eof
  /\ fwBuf' = Append(fwBuf, p.unit)
  /\ curPacket' = curPacket + 1 /\ sequenceError' = FALSE
  /\ Reply("ok", NoFrame)
  /\ UNCHANGED <<startOta, totalLen, curSector, hasBuf, delivered>>

(* sector_end: the sector goes to recv_fw_cb, which returns nothing, and is
   acknowledged.  A buffer filled to the brim is passed on without its end.   *)
SectorOut(buf) == IF Len(buf) < BlockUnits THEN buf ELSE SubSeq(buf, 1, BlockUnits - 1)

TailTaken(p) ==
  /\ Copied(p) /\ p.seq = Eof
  /\ delivered' = Append(delivered, SectorOut(Append(fwBuf, p.unit)))
  /\ curSector' = curSector + 1 /\ curPacket' = 0
  /\ fwBuf' = <<>> /\ sequenceError' = FALSE
  /\ Reply("ok", Success(p))
  /\ UNCHANGED <<startOta, totalLen, hasBuf>>

WriteChr(p) ==
  \/ Ignored(p) \/ Runt(p)
  \/ WrongSector(p) \/ StaleEof(p) \/ WrongPacket(p)
  \/ Damaged(p) \/ NoBuffer(p) \/ BodyTaken(p) \/ TailTaken(p)

-----------------------------------------------------------------------------
(* A write to the command characteristic: ble_ota_start_write_chr.  The
   session callbacks are the transport's business (BleTransport).           *)

FaultyResetSector ==
  sequenceError' = FALSE /\ curPacket' = 0 /\ UNCHANGED curSector
ResetSector == sequenceError' = FALSE /\ curSector' = 0 /\ curPacket' = 0

(* The allocation of fw_buf may fail; the Start is acknowledged all the same. *)
StartWrite(len) ==
  /\ startOta' = TRUE /\ totalLen' = len
  /\ ResetSector
  /\ hasBuf' \in BOOLEAN /\ fwBuf' = <<>>
  /\ delivered' = <<>>
  /\ Reply("ok", CommandAck("started"))

StopWrite ==
  /\ startOta' = FALSE /\ totalLen' = 0
  /\ sequenceError' = FALSE /\ curSector' = 0 /\ curPacket' = 0
  /\ hasBuf' = FALSE /\ fwBuf' = <<>>
  /\ Reply("ok", CommandAck("stopped"))
  /\ UNCHANGED delivered
=============================================================================
