----------------------------- MODULE PacketPlan -----------------------------
(***************************************************************************)
(* How the flashing client cuts a sector into packets (ble_ota_host.py,     *)
(* plan_sector_packets), one action for each turn of its loop, over the     *)
(* real sizes.  A packet is where its payload begins, how long that is, its *)
(* sequence number and whether it ends with the CRC of the sector.          *)
(***************************************************************************)
EXTENDS Naturals, Sequences

CONSTANTS
  Lengths,  \* lengths of the sector's data, in bytes
  Mtus      \* ATT MTUs the connection may have

Header == 3   \* sector index and sequence number
AttHeader == 3
CrcLen == 2
TailSeq == 255  \* 0xff

SectorBytes == 4096
MinMtu == 23  \* the default, and the least that ATT allows

ASSUME PlanAssumption ==
  /\ Lengths \subseteq 0 .. SectorBytes
  /\ Mtus \subseteq Nat /\ \A m \in Mtus : m >= MinMtu

VARIABLES length, mtu, offset, packets, done
planVars == <<length, mtu, offset, packets, done>>

Chunk == mtu - AttHeader - Header

PlanInit ==
  /\ length \in Lengths /\ mtu \in Mtus
  /\ offset = 0 /\ packets = <<>> /\ done = FALSE

FaultyIsLast(left) == left < Chunk
IsLast(left) == left = 0

Cut ==
  /\ ~done /\ offset < length
  /\ LET piece == IF length - offset < Chunk THEN length - offset ELSE Chunk
         last  == IsLast(length - offset - piece)
     IN /\ offset' = offset + piece
        /\ packets' = Append(packets,
             [from |-> offset, size |-> piece, crc |-> last,
              seq |-> IF last THEN TailSeq ELSE Len(packets) % 256])
  /\ UNCHANGED <<length, mtu, done>>

(* A sector without data is still a tail. *)
Finish ==
  /\ ~done /\ offset >= length
  /\ done' = TRUE
  /\ packets' = IF packets = <<>>
                  THEN <<[from |-> 0, size |-> 0, crc |-> TRUE, seq |-> TailSeq]>> ELSE packets
  /\ UNCHANGED <<length, mtu, offset>>

PlanNext == Cut \/ Finish

PlanSpec == PlanInit /\ [][PlanNext]_planVars /\ WF_planVars(PlanNext)

-----------------------------------------------------------------------------
(* The packets, in the order they are sent, are the sector's data: no byte is
   left out or sent twice, and the tail is the last packet and the only one
   with the CRC.  What the component counts is what the client numbers: packet i
   carries i in its one byte, and no packet but the tail carries 0xff, at any MTU
   that BLE allows (23 and up).                                                *)
PlanIsTheSector ==
  /\ done =>
       /\ packets[1].from = 0
       /\ \A i \in 1 .. (Len(packets) - 1) :
            packets[i + 1].from = packets[i].from + packets[i].size
       /\ packets[Len(packets)].from + packets[Len(packets)].size = length
       /\ \A i \in DOMAIN packets : packets[i].crc <=> i = Len(packets)
  /\ \A i \in DOMAIN packets : ~packets[i].crc => packets[i].seq = i - 1 /\ packets[i].seq # TailSeq

(* The inductive invariant behind it: what is cut so far is a plan of what lies in
   front of the offset.  A packet that is not the last holds MinPayload bytes or
   more, so a sector has far fewer of them than there are sequence numbers.       *)
MinPayload == MinMtu - AttHeader - Header
PacketRecord == [from : Nat, size : Nat, crc : BOOLEAN, seq : Nat]

PlanTypeOK ==
  /\ length \in Nat /\ length <= SectorBytes /\ mtu \in Nat /\ mtu >= MinMtu
  /\ offset \in Nat /\ offset <= length /\ done \in BOOLEAN
  /\ packets \in Seq(PacketRecord)

Chained ==
  packets # <<>> =>
    /\ packets[1].from = 0
    /\ \A i \in 1 .. (Len(packets) - 1) :
         packets[i + 1].from = packets[i].from + packets[i].size
    /\ packets[Len(packets)].from + packets[Len(packets)].size = offset

TailMarked ==
  \A i \in 1 .. Len(packets) :
    /\ packets[i].crc <=> i = Len(packets) /\ offset = length
    /\ ~packets[i].crc => packets[i].seq = i - 1 /\ packets[i].seq # TailSeq

FewPackets ==
  /\ packets = <<>> => offset = 0
  /\ offset < length => MinPayload * Len(packets) <= offset
  /\ done => packets # <<>> /\ offset = length

PlanInv == PlanTypeOK /\ Chained /\ TailMarked /\ FewPackets
=============================================================================
