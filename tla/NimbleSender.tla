---------------------------- MODULE NimbleSender ----------------------------
(***************************************************************************)
(* The component of NimbleOta under any sender that keeps to the format:    *)
(* it sends a sector's packets in order from packet 0, but may give up in   *)
(* the middle, begin any sector at any time, ignore errors until the end of *)
(* the sector or act on them at once, send packets the component cannot     *)
(* use, and issue Start and Stop whenever it likes.  The vendor's app and   *)
(* ble_ota_host.py are two such senders.                                    *)
(***************************************************************************)
EXTENDS NimbleOta

VARIABLES sending, next   \* the sector it is sending and the packet that comes next
senderVars == <<sending, next>>
vars == <<nimbleVars, senderVars>>

Init == NimbleInit /\ sending = 0 /\ next = 0

Begin == sending' \in Sector /\ next' = 0
IsTail(k) == k = Packets[sending] - 1

(* What a sender does after its packet: whatever the result, after a tail it
   begins a sector; after another packet it goes on or, on an error, begins a
   sector at once.                                                           *)
Proceed ==
  \/ IsTail(next) /\ Begin
  \/ ~IsTail(next) /\ sending' = sending /\ next' = next + 1
  \/ att' = "err" /\ Begin

Send ==
  /\ WriteChr(Packet(sending, next, "whole"))
  /\ Proceed

(* The sender may call the last sector 0xffff; since the component takes that
   for whatever it expects, the sender must know that it is the last.        *)
SendMarked ==
  /\ startOta /\ curSector = Sectors - 1 /\ sending = curSector
  /\ WriteChr([Packet(sending, next, "whole") EXCEPT !.sector = LastMark])
  /\ Proceed

(* A packet that arrives damaged; the sender sees the error and begins again. *)
SendDamaged ==
  /\ startOta
  /\ \E form \in {"runt", "noCrc", "huge"} :
       /\ form = "noCrc" => IsTail(next)
       /\ WriteChr(Packet(sending, next, form))
  /\ Begin

GiveUp == Begin /\ UNCHANGED nimbleVars

Start == \E len \in {0, Sectors} : StartWrite(len) /\ Begin
Stop == StopWrite /\ Begin

Next == Send \/ SendMarked \/ SendDamaged \/ GiveUp \/ Start \/ Stop

Spec == Init /\ [][Next]_vars

(* The sender as the protocol wants it: after a success the next sector, after
   a NACK the sector it names, after an error without one the sector again.   *)
Obey ==
  /\ startOta /\ sending < Sectors /\ curSector < Sectors
  /\ WriteChr(Packet(sending, next, "whole"))
  /\ IF att' = "ok" /\ ~IsTail(next)
       THEN sending' = sending /\ next' = next + 1
       ELSE /\ next' = 0
            /\ sending' = CASE frame'.status = "resend"  -> frame'.expected
                            [] frame'.status = "success" /\ sending + 1 \in Sector -> sending + 1
                            [] OTHER -> sending

FairSpec == Spec /\ WF_vars(Obey)

-----------------------------------------------------------------------------
Form == {"whole", "runt", "noCrc", "huge"}
Unit == Sector \X (0 .. SeqMod)

TypeOK ==
  /\ startOta \in BOOLEAN /\ sequenceError \in BOOLEAN
  /\ totalLen \in Nat /\ curSector \in 0 .. Sectors /\ curPacket \in 0 .. SeqMod
  /\ hasBuf \in BOOLEAN /\ fwBuf \in Seq(Unit)
  /\ att \in {"ok", "err"}
  /\ frame \in [chr : {"none", "fw", "cmd"},
                status : {"none", "success", "resend", "started", "stopped"},
                sector : 0 .. Sectors, expected : 0 .. Sectors]
  /\ delivered \in Seq(Seq(Unit))
  /\ sending \in Sector /\ next \in 0 .. SeqMod

(* What the component hands to the transport since a Start is the image from
   its beginning: each sector whole, once, in order, whatever was given up,
   repeated, damaged or sent out of turn in between.                          *)
DeliversImage == \A i \in DOMAIN delivered : delivered[i] = SectorData(i - 1)

(* What it answers, seen from the sender: the last sector taken or the one
   needed.                                                                     *)
Stream == INSTANCE SectorStream WITH
  open  <- startOta,
  got   <- delivered,
  reply <- CASE frame.status = "success" ->
                  <<"taken", IF frame.sector = LastMark THEN Sectors - 1 ELSE frame.sector>>
             [] frame.status = "resend"  -> <<"needed", frame.expected>>
             [] OTHER -> <<>>

(* The component implements SectorStream, the component that the transport is
   modelled against: a success answers the write that delivers its sector and no
   other, and a NACK names the sector needed next, so that a sender that goes
   there neither skips a sector nor sends one twice.                           *)
ImplementsStream == Stream!Spec

(* No packet, and no order of packets, leaves the component unusable: once the
   sender does what it is told, the whole image gets through, provided a Start
   was accepted and found memory for the sector buffer.                       *)
Usable == startOta /\ hasBuf
GetsThrough ==
  (<>[][Obey]_vars /\ <>[]Usable) => <>[](Len(delivered) = Sectors)

-----------------------------------------------------------------------------
(* The inductive invariant behind DeliversImage: how far the component and the
   sender are in the sector, and what the buffer then holds.  A packet that could
   not be used empties the buffer but leaves curPacket: the sender is then back at
   packet 0, which the component takes for an error if curPacket has moved on.  *)

Collected(n, k) == [i \in 1 .. k |-> <<n, i - 1>>]

SectorInv ==
  /\ startOta => Len(delivered) = curSector
  /\ curPacket > 0 => startOta /\ hasBuf /\ curSector \in Sector /\ curPacket < Packets[curSector]
  /\ sequenceError => curPacket = 0
  /\ next < Packets[sending]

BufferInv ==
  /\ curPacket = 0 => fwBuf = <<>>
  /\ curPacket > 0 => \/ fwBuf = Collected(curSector, curPacket)
                      \/ fwBuf = <<>> /\ next = 0

InStep ==
  startOta /\ hasBuf /\ next > 0 /\ sending = curSector => sequenceError \/ curPacket = next

(* Sender and component agree on how much of the sector is in the buffer, or the
   component knows that they do not.                                           *)
IInv == TypeOK /\ DeliversImage /\ SectorInv /\ BufferInv /\ InStep
=============================================================================
