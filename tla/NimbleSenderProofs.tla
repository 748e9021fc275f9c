------------------------- MODULE NimbleSenderProofs -------------------------
(***************************************************************************)
(* Proofs about the component under any sender that keeps to the format, for *)
(* every image, every way to cut it into packets and any buffer it fits.    *)
(***************************************************************************)
EXTENDS NimbleSender, SequenceTheorems, TLAPS

(* What the sender can put on the wire, and what it does next: the facts that
   the proofs need of a write, whichever sender action it came from.          *)
Sent(p) ==
  /\ p.sector \in 0 .. Sectors /\ p.seq \in 0 .. Eof /\ p.form \in Form
  /\ p.unit = <<sending, next>>
  /\ p.sector = sending \/ (p.sector = LastMark /\ startOta /\ curSector = sending
                            /\ curSector = Sectors - 1)
  /\ p.seq = Eof <=> IsTail(next)
  /\ p.seq # Eof => p.seq = next
  /\ \/ Begin
     \/ ~IsTail(next) /\ p.form = "whole" /\ sending' = sending /\ next' = next + 1

(* The constants are the numbers they should be. *)
LEMMA Sizes ==
  ASSUME NEW n \in Sector
  PROVE  /\ Sectors \in Nat \ {0} /\ SeqMod \in Nat \ {0} /\ Eof \in Nat /\ n \in Nat
         /\ Packets[n] \in Nat \ {0} /\ Packets[n] <= SeqMod
         /\ BlockUnits \in Nat /\ Packets[n] < BlockUnits
         /\ n # LastMark
BY ComponentAssumption DEF Sector, Eof, LastMark

(* A packet made by the sender is numbered by its place, or marked as the tail. *)
LEMMA PacketMade ==
  ASSUME TypeOK, SectorInv, NEW form \in Form
  PROVE  LET p == Packet(sending, next, form)
         IN /\ p.sector = sending /\ p.seq \in 0 .. Eof /\ p.form = form
            /\ p.unit = <<sending, next>>
            /\ p.seq = Eof <=> IsTail(next)
            /\ p.seq # Eof => p.seq = next
<1>1. /\ sending \in Sector /\ next \in Nat /\ next < Packets[sending]
  BY DEF TypeOK, SectorInv
<1> QED
  BY <1>1, Sizes DEF Packet, PacketSeq, IsTail, Eof

(* Each action of the sender that writes data sends such a packet. *)
LEMMA SendIsSent ==
  ASSUME TypeOK, SectorInv, Send
  PROVE  \E p : Sent(p) /\ WriteChr(p)
<1> DEFINE p == Packet(sending, next, "whole")
<1>1. /\ p.sector = sending /\ p.seq \in 0 .. Eof /\ p.form = "whole"
      /\ p.unit = <<sending, next>> /\ (p.seq = Eof <=> IsTail(next))
      /\ p.seq # Eof => p.seq = next
  BY PacketMade DEF Form
<1>2. sending \in 0 .. Sectors
  BY ComponentAssumption DEF TypeOK, Sector
<1>3. WriteChr(p) /\ Proceed
  BY DEF Send
<1>4. Sent(p)
  BY <1>1, <1>2, <1>3 DEF Sent, Proceed, Form
<1> QED
  BY <1>3, <1>4

(* The last sector under its other name is still that sector. *)
LEMMA MarkedIsSent ==
  ASSUME TypeOK, SectorInv, SendMarked
  PROVE  \E p : Sent(p) /\ WriteChr(p)
<1> DEFINE q == Packet(sending, next, "whole")
           p == [q EXCEPT !.sector = LastMark]
<1>1. /\ q.seq \in 0 .. Eof /\ q.form = "whole"
      /\ q.unit = <<sending, next>> /\ (q.seq = Eof <=> IsTail(next))
      /\ q.seq # Eof => q.seq = next
  BY PacketMade DEF Form
<1>2. /\ p.sector = LastMark /\ p.seq = q.seq /\ p.form = q.form /\ p.unit = q.unit
  BY DEF Packet
<1>3. LastMark \in 0 .. Sectors
  BY ComponentAssumption DEF LastMark
<1>4. WriteChr(p) /\ Proceed /\ startOta /\ curSector = Sectors - 1 /\ sending = curSector
  BY DEF SendMarked
<1>5. Sent(p)
  BY <1>1, <1>2, <1>3, <1>4 DEF Sent, Proceed, Form
<1> QED
  BY <1>4, <1>5

(* So is a packet that arrives damaged. *)
LEMMA DamagedIsSent ==
  ASSUME TypeOK, SectorInv, SendDamaged
  PROVE  \E p : Sent(p) /\ WriteChr(p)
<1>1. PICK form \in {"runt", "noCrc", "huge"} : WriteChr(Packet(sending, next, form))
  BY DEF SendDamaged
<1> DEFINE p == Packet(sending, next, form)
<1>2. /\ p.sector = sending /\ p.seq \in 0 .. Eof /\ p.form = form
      /\ p.unit = <<sending, next>> /\ (p.seq = Eof <=> IsTail(next))
      /\ p.seq # Eof => p.seq = next
  BY PacketMade DEF Form
<1>3. sending \in 0 .. Sectors
  BY ComponentAssumption DEF TypeOK, Sector
<1>4. Sent(p)
  BY <1>2, <1>3 DEF Sent, SendDamaged, Form
<1> QED
  BY <1>1, <1>4

-----------------------------------------------------------------------------
(* Facts about the sector being collected *)

(* One more packet in its turn makes one more unit collected. *)
LEMMA CollectedGrows ==
  ASSUME NEW n, NEW k \in Nat
  PROVE  /\ Append(Collected(n, k), <<n, k>>) = Collected(n, k + 1)
         /\ Len(Collected(n, k)) = k
<1>1. Collected(n, k) \in Seq({<<n, i>> : i \in Nat}) /\ Len(Collected(n, k)) = k
  BY IsASeq DEF Collected
<1>2. Collected(n, k + 1) \in Seq({<<n, i>> : i \in Nat}) /\ Len(Collected(n, k + 1)) = k + 1
  BY IsASeq DEF Collected
<1>3. /\ Append(Collected(n, k), <<n, k>>) \in Seq({<<n, i>> : i \in Nat})
      /\ Len(Append(Collected(n, k), <<n, k>>)) = k + 1
      /\ \A i \in 1 .. k : Append(Collected(n, k), <<n, k>>)[i] = Collected(n, k)[i]
      /\ Append(Collected(n, k), <<n, k>>)[k + 1] = <<n, k>>
  BY <1>1, AppendProperties
<1>4. \A i \in 1 .. k + 1 :
        Append(Collected(n, k), <<n, k>>)[i] = Collected(n, k + 1)[i]
  BY <1>3 DEF Collected
<1> QED
  BY <1>1, <1>2, <1>3, <1>4, SeqEqual

(* Nothing collected is the empty buffer. *)
LEMMA NothingCollected ==
  ASSUME NEW n PROVE Collected(n, 0) = <<>>
<1>1. Collected(n, 0) \in Seq({<<n, i>> : i \in Nat}) /\ Len(Collected(n, 0)) = 0
  BY IsASeq DEF Collected
<1> QED
  BY <1>1, EmptySeq

(* A sector is complete when all its packets are collected. *)
LEMMA AllCollected == ASSUME NEW n \in Sector PROVE Collected(n, Packets[n]) = SectorData(n)
BY DEF Collected, SectorData

-----------------------------------------------------------------------------
(* Where component and sender are *)

(* The packet counter stays below the number of sequence numbers. *)
LEMMA CounterSmall ==
  ASSUME IInv
  PROVE  /\ curPacket \in Nat /\ curPacket % SeqMod = curPacket
         /\ curPacket < SeqMod /\ sending \in Sector /\ next \in Nat
<1>1. curPacket \in Nat /\ sending \in Sector /\ next \in 0 .. SeqMod
  BY ComponentAssumption DEF IInv, TypeOK
<1>2. curPacket < SeqMod
  <2>1. CASE curPacket = 0
    BY <2>1, ComponentAssumption
  <2>2. CASE curPacket > 0
    <3>1. curSector \in Sector /\ curPacket < Packets[curSector]
      BY <2>2 DEF IInv, SectorInv
    <3> QED
      BY <1>1, <3>1, Sizes
  <2> QED
    BY <1>1, <2>1, <2>2
<1>3. curPacket % SeqMod = curPacket
  BY <1>1, <1>2, ComponentAssumption, SMTT(30)
<1> QED
  BY <1>1, <1>2, <1>3, ComponentAssumption

(* The component takes the sector for the one it expects exactly when it is. *)
LEMMA RightSectorIsSending ==
  ASSUME IInv, NEW p, Sent(p)
  PROVE  RightSector(p) <=> sending = curSector
<1>1. sending \in Sector
  BY CounterSmall
<1> QED
  BY <1>1, Sizes DEF Sent, RightSector

(* The buffer has room for one packet more, whatever is being collected. *)
LEMMA RoomLeft ==
  ASSUME IInv
  PROVE  Len(fwBuf) \in Nat /\ Len(fwBuf) + 1 <= BlockUnits
<1>1. curPacket \in Nat /\ sending \in Sector
  BY CounterSmall
<1>2. CASE fwBuf = <<>>
  <2>1. BlockUnits \in Nat /\ Packets[sending] \in Nat \ {0} /\ Packets[sending] < BlockUnits
    BY <1>1, Sizes
  <2> QED
    BY <1>2, <2>1
<1>3. CASE fwBuf # <<>>
  <2>1. curPacket > 0 /\ fwBuf = Collected(curSector, curPacket)
    BY <1>1, <1>3 DEF IInv, BufferInv
  <2>2. curSector \in Sector /\ curPacket < Packets[curSector]
    BY <2>1 DEF IInv, SectorInv
  <2>3. Len(fwBuf) = curPacket
    BY <1>1, <2>1, CollectedGrows
  <2> QED
    BY <1>1, <2>2, <2>3, Sizes
<1> QED
  BY <1>2, <1>3

(* A packet taken is the one that comes next, and everything before it is in
   the buffer.  For a tail this rests on the sequence error: without one, the
   component has followed the sender through the sector.                       *)
LEMMA TakenInTurn ==
  ASSUME IInv, NEW p, Sent(p), Copied(p)
  PROVE  /\ sending = curSector /\ curPacket = next
         /\ Append(fwBuf, p.unit) = Collected(sending, next + 1)
<1>1. /\ curPacket \in Nat /\ curPacket % SeqMod = curPacket /\ curPacket < SeqMod
      /\ sending \in Sector /\ next \in Nat
  BY CounterSmall
<1>2. /\ startOta /\ hasBuf /\ RightSector(p)
      /\ RightPacket(p) \/ (p.seq = Eof /\ ~sequenceError)
  BY DEF Copied, InOrder, Received
<1>3. sending = curSector
  BY <1>2, RightSectorIsSending
<1>4. /\ SeqMod \in Nat \ {0} /\ Eof = SeqMod - 1
      /\ Packets[sending] \in Nat \ {0} /\ Packets[sending] <= SeqMod
      /\ next < Packets[sending]
  BY <1>1, Sizes DEF Eof, IInv, SectorInv
<1>5. curPacket > 0 => curPacket < Packets[sending]
  BY <1>3 DEF IInv, SectorInv
<1>6. curPacket = next
  <2>1. CASE p.seq # Eof
    <3>1. p.seq = next /\ p.seq = curPacket
      BY <1>1, <1>2, <2>1 DEF Sent, RightPacket
    <3> QED
      BY <3>1
  <2>2. CASE p.seq = Eof /\ RightPacket(p)
    <3>1. curPacket = Eof /\ next = Packets[sending] - 1
      BY <1>1, <2>2 DEF RightPacket, Sent, IsTail
    <3> QED
      BY <1>1, <1>4, <1>5, <3>1
  <2>3. CASE p.seq = Eof /\ ~sequenceError
    <3>1. next = Packets[sending] - 1
      BY <2>3 DEF Sent, IsTail
    <3>2. CASE next > 0
      BY <1>2, <1>3, <2>3, <3>2 DEF IInv, InStep
    <3>3. CASE next = 0
      BY <1>1, <1>4, <1>5, <3>1, <3>3
    <3> QED
      BY <1>1, <3>2, <3>3
  <2> QED
    BY <1>2, <2>1, <2>2, <2>3
<1>7. fwBuf = Collected(sending, next)
  <2>1. CASE curPacket = 0
    <3>1. fwBuf = <<>>
      BY <2>1 DEF IInv, BufferInv
    <3> QED
      BY <1>6, <2>1, <3>1, NothingCollected
  <2>2. CASE curPacket > 0
    <3>1. fwBuf = Collected(curSector, curPacket)
      BY <1>1, <1>6, <2>2 DEF IInv, BufferInv
    <3> QED
      BY <1>3, <1>6, <3>1
  <2> QED
    BY <1>1, <2>1, <2>2
<1>8. p.unit = <<sending, next>>
  BY DEF Sent
<1> QED
  BY <1>1, <1>3, <1>6, <1>7, <1>8, CollectedGrows

-----------------------------------------------------------------------------
(* The invariant, one lemma for each way a write can end *)

(* The sender's own variables stay in range and within its sector. *)
LEMMA SenderStays ==
  ASSUME IInv, NEW p, Sent(p)
  PROVE  sending' \in Sector /\ next' \in 0 .. SeqMod /\ next' < Packets[sending']
<1>1. /\ sending \in Sector /\ next \in Nat /\ next < Packets[sending]
  BY DEF IInv, TypeOK, SectorInv
<1>2. CASE Begin
  BY <1>2, Sizes DEF Begin
<1>3. CASE ~IsTail(next) /\ sending' = sending /\ next' = next + 1
  BY <1>1, <1>3, Sizes DEF IsTail
<1> QED
  BY <1>2, <1>3 DEF Sent

(* The frames the component sends have their type. *)
LEMMA FramesTyped ==
  ASSUME IInv, NEW p, Sent(p)
  PROVE  LET F == [chr : {"none", "fw", "cmd"},
                   status : {"none", "success", "resend", "started", "stopped"},
                   sector : 0 .. Sectors, expected : 0 .. Sectors]
         IN NoFrame \in F /\ Success(p) \in F /\ Nack(p) \in F
<1>1. curSector \in 0 .. Sectors /\ p.sector \in 0 .. Sectors /\ 0 \in 0 .. Sectors
  BY ComponentAssumption DEF IInv, TypeOK, Sent
<1> QED
  BY <1>1 DEF NoFrame, Success, Nack

(* A write that changes nothing but the answer, and is not a packet taken. *)
LEMMA IgnoredInv ==
  ASSUME IInv, NEW p, Sent(p), Ignored(p) \/ Runt(p)
  PROVE  IInv'
<1>1. /\ UNCHANGED <<startOta, totalLen, curSector, curPacket, sequenceError,
                     hasBuf, fwBuf, delivered>>
      /\ att' \in {"ok", "err"} /\ frame' = NoFrame
  BY DEF Ignored, Runt, Refuse, Reply, component
<1>2. ~startOta \/ next' = 0
  BY DEF Ignored, Runt, Sent, Begin
<1>3. TypeOK'
  BY <1>1, SenderStays, FramesTyped DEF IInv, TypeOK
<1>4. DeliversImage' /\ SectorInv'
  BY <1>1, SenderStays DEF IInv, DeliversImage, SectorInv
<1>5. BufferInv'
  BY <1>1, <1>2 DEF IInv, BufferInv, SectorInv
<1>6. InStep'
  BY <1>1, <1>2 DEF InStep
<1> QED
  BY <1>3, <1>4, <1>5, <1>6 DEF IInv

(* A write that sends the sector back to its first packet. *)
LEMMA RestartInv ==
  ASSUME IInv, NEW p, Sent(p), WrongSector(p) \/ StaleEof(p) \/ WrongPacket(p)
  PROVE  IInv'
<1>1. /\ UNCHANGED <<startOta, totalLen, curSector, hasBuf, delivered>>
      /\ curPacket' = 0 /\ fwBuf' = <<>> /\ sequenceError' \in BOOLEAN
      /\ att' = "err" /\ frame' \in {NoFrame, Nack(p)}
  BY DEF WrongSector, StaleEof, WrongPacket, RestartSector, Refuse, Reply
<1>2. sequenceError' \/ next' = 0 \/ sending' # curSector'
  <2>1. CASE WrongSector(p)
    BY <1>1, <2>1, RightSectorIsSending DEF WrongSector, Sent, Begin
  <2>2. CASE StaleEof(p)
    BY <2>2 DEF StaleEof, Sent, Begin
  <2>3. CASE WrongPacket(p)
    BY <2>3 DEF WrongPacket
  <2> QED
    BY <2>1, <2>2, <2>3
<1>3. TypeOK'
  <2>1. <<>> \in Seq(Unit) /\ 0 \in 0 .. SeqMod
    BY ComponentAssumption
  <2> QED
    BY <1>1, <2>1, SenderStays, FramesTyped DEF IInv, TypeOK
<1>4. DeliversImage' /\ SectorInv'
  BY <1>1, SenderStays DEF IInv, DeliversImage, SectorInv
<1>5. BufferInv' /\ InStep'
  BY <1>1, <1>2 DEF BufferInv, InStep
<1> QED
  BY <1>3, <1>4, <1>5 DEF IInv

(* A write whose packet cannot be used. *)
LEMMA UnusedInv ==
  ASSUME IInv, NEW p, Sent(p), Damaged(p) \/ NoBuffer(p)
  PROVE  IInv'
<1>1. /\ UNCHANGED <<startOta, totalLen, curSector, curPacket, hasBuf, delivered>>
      /\ sequenceError' = SequenceErrorAfter(p) /\ SequenceErrorAfter(p) \in BOOLEAN
      /\ fwBuf' \in {<<>>, fwBuf} /\ att' = "err" /\ frame' = NoFrame
  BY DEF Damaged, NoBuffer, Refuse, Reply, SequenceErrorAfter, IInv, TypeOK
<1>2. sequenceError' => curPacket' = 0
  BY <1>1 DEF SequenceErrorAfter, IInv, SectorInv
<1>3. ~hasBuf \/ (next' = 0 /\ fwBuf' = <<>>)
  <2>1. CASE NoBuffer(p)
    BY <2>1 DEF NoBuffer
  <2>2. CASE Damaged(p) /\ p.form = "whole"
    <3>1. Len(fwBuf) + 1 > BlockUnits
      BY <2>2 DEF Damaged, NoCrc, Overflows
    <3>2. BlockUnits \in Nat
      BY ComponentAssumption
    <3> QED
      BY <3>1, <3>2, RoomLeft
  <2>3. CASE Damaged(p) /\ p.form # "whole"
    BY <2>3 DEF Damaged, Sent, Begin
  <2> QED
    BY <2>1, <2>2, <2>3
<1>4. TypeOK'
  <2>1. fwBuf' \in Seq(Unit)
    <3>1. <<>> \in Seq(Unit) /\ fwBuf \in Seq(Unit)
      BY DEF IInv, TypeOK
    <3>2. fwBuf' = <<>> \/ fwBuf' = fwBuf
      BY <1>1
    <3> QED
      BY <3>1, <3>2
  <2>2. sequenceError' \in BOOLEAN
    BY <1>1
  <2> QED
    BY <1>1, <2>1, <2>2, SenderStays, FramesTyped DEF IInv, TypeOK
<1>5. DeliversImage' /\ SectorInv'
  BY <1>1, <1>2, SenderStays DEF IInv, DeliversImage, SectorInv
<1>6. BufferInv'
  BY <1>1, <1>3 DEF IInv, BufferInv, SectorInv
<1>7. InStep'
  BY <1>1, <1>3 DEF InStep
<1> QED
  BY <1>4, <1>5, <1>6, <1>7 DEF IInv

(* A packet in the middle of a sector joins the others. *)
LEMMA BodyInv ==
  ASSUME IInv, NEW p, Sent(p), BodyTaken(p)
  PROVE  IInv'
<1>1. /\ UNCHANGED <<startOta, totalLen, curSector, hasBuf, delivered>>
      /\ fwBuf' = Append(fwBuf, p.unit) /\ curPacket' = curPacket + 1
      /\ sequenceError' = FALSE /\ att' = "ok" /\ frame' = NoFrame
      /\ startOta /\ hasBuf /\ p.seq # Eof
  BY DEF BodyTaken, Copied, InOrder, Received, Reply
<1>2. /\ sending = curSector /\ curPacket = next
      /\ fwBuf' = Collected(sending, next + 1)
  BY <1>1, TakenInTurn DEF BodyTaken
<1>3. /\ sending \in Sector /\ next \in Nat /\ next + 1 < Packets[sending]
      /\ Packets[sending] \in Nat /\ Packets[sending] <= SeqMod /\ SeqMod \in Nat
  <2>1. sending \in Sector /\ next \in Nat /\ next < Packets[sending]
    BY CounterSmall DEF IInv, SectorInv
  <2>2. next # Packets[sending] - 1
    BY <1>1 DEF Sent, IsTail
  <2> QED
    BY <2>1, <2>2, Sizes
<1>4. TypeOK'
  <2>1. p.unit \in Unit
    BY <1>3 DEF Sent, Unit
  <2>2. fwBuf' \in Seq(Unit)
    BY <1>1, <2>1 DEF IInv, TypeOK
  <2>3. curPacket' \in 0 .. SeqMod
    BY <1>1, <1>2, <1>3
  <2> QED
    BY <1>1, <2>2, <2>3, SenderStays, FramesTyped DEF IInv, TypeOK
<1>5. DeliversImage'
  BY <1>1 DEF IInv, DeliversImage
<1>6. SectorInv'
  BY <1>1, <1>2, <1>3, SenderStays DEF IInv, SectorInv
<1>7. BufferInv'
  BY <1>1, <1>2, <1>3 DEF BufferInv
<1>8. InStep'
  <2>1. next' = 0 \/ next' = next + 1
    BY DEF Sent, Begin
  <2> QED
    BY <1>1, <1>2, <2>1 DEF InStep
<1> QED
  BY <1>4, <1>5, <1>6, <1>7, <1>8 DEF IInv

(* What the tail completes is the sector, all of it. *)
LEMMA TailCompletes ==
  ASSUME IInv, NEW p, Sent(p), TailTaken(p)
  PROVE  /\ sending = curSector
         /\ SectorOut(Append(fwBuf, p.unit)) = SectorData(curSector)
<1>1. /\ sending = curSector /\ curPacket = next
      /\ Append(fwBuf, p.unit) = Collected(sending, next + 1)
  BY TakenInTurn DEF TailTaken
<1>2. /\ sending \in Sector /\ next \in Nat /\ Packets[sending] \in Nat
      /\ next = Packets[sending] - 1
  BY CounterSmall, Sizes DEF TailTaken, Sent, IsTail
<1>3. next + 1 = Packets[sending]
  BY <1>2
<1>4. Append(fwBuf, p.unit) = Collected(sending, Packets[sending])
  BY <1>1, <1>3
<1>5. Append(fwBuf, p.unit) = SectorData(sending)
  BY <1>2, <1>4, AllCollected
<1>6. Len(Append(fwBuf, p.unit)) < BlockUnits
  BY <1>2, <1>4, CollectedGrows, Sizes
<1> QED
  BY <1>1, <1>5, <1>6 DEF SectorOut

(* A whole sector is a sequence of units. *)
LEMMA SectorTyped == ASSUME NEW n \in Sector PROVE SectorData(n) \in Seq(Unit)
<1>1. \A k \in 1 .. Packets[n] : <<n, k - 1>> \in Unit
  BY Sizes DEF Unit
<1>2. Packets[n] \in Nat
  BY Sizes
<1> QED
  BY <1>1, <1>2, IsASeq DEF SectorData

(* The tail hands the sector over and opens the next. *)
LEMMA TailInv ==
  ASSUME IInv, NEW p, Sent(p), TailTaken(p)
  PROVE  IInv'
<1>1. /\ UNCHANGED <<startOta, totalLen, hasBuf>>
      /\ delivered' = Append(delivered, SectorOut(Append(fwBuf, p.unit)))
      /\ curSector' = curSector + 1 /\ curPacket' = 0 /\ fwBuf' = <<>>
      /\ sequenceError' = FALSE /\ att' = "ok" /\ frame' = Success(p)
      /\ startOta /\ p.seq = Eof
  BY DEF TailTaken, Copied, InOrder, Received, Reply
<1>2. sending = curSector /\ delivered' = Append(delivered, SectorData(curSector))
  BY <1>1, TailCompletes
<1>3. /\ curSector \in Sector /\ curSector \in Nat /\ curSector + 1 \in 0 .. Sectors
      /\ Len(delivered) = curSector /\ delivered \in Seq(Seq(Unit))
  <2>1. curSector \in Sector /\ Len(delivered) = curSector /\ delivered \in Seq(Seq(Unit))
    BY <1>1, <1>2 DEF IInv, TypeOK, SectorInv
  <2> QED
    BY <2>1, ComponentAssumption DEF Sector
<1>4. /\ delivered' \in Seq(Seq(Unit)) /\ Len(delivered') = curSector + 1
      /\ \A i \in 1 .. curSector : delivered'[i] = delivered[i]
      /\ delivered'[curSector + 1] = SectorData(curSector)
  BY <1>2, <1>3, SectorTyped, AppendProperties
<1>5. TypeOK'
  <2>1. <<>> \in Seq(Unit) /\ 0 \in 0 .. SeqMod
    BY ComponentAssumption
  <2> QED
    BY <1>1, <1>3, <1>4, <2>1, SenderStays, FramesTyped DEF IInv, TypeOK
<1>6. DeliversImage'
  <2>1. DOMAIN delivered = 1 .. curSector /\ DOMAIN delivered' = 1 .. curSector + 1
    BY <1>3, <1>4
  <2>2. \A i \in 1 .. curSector : delivered'[i] = SectorData(i - 1)
    BY <1>4, <2>1 DEF IInv, DeliversImage
  <2>3. delivered'[curSector + 1] = SectorData((curSector + 1) - 1)
    BY <1>3, <1>4
  <2>4. \A i \in 1 .. curSector + 1 : i \in 1 .. curSector \/ i = curSector + 1
    BY <1>3
  <2> QED
    BY <2>1, <2>2, <2>3, <2>4 DEF DeliversImage
<1>7. SectorInv'
  BY <1>1, <1>3, <1>4, SenderStays DEF SectorInv
<1>8. BufferInv'
  BY <1>1 DEF BufferInv
<1>9. InStep'
  <2>1. next' = 0
    BY <1>1 DEF Sent, Begin
  <2> QED
    BY <2>1 DEF InStep
<1> QED
  BY <1>5, <1>6, <1>7, <1>8, <1>9 DEF IInv

(* Every write the sender makes. *)
LEMMA WriteInv ==
  ASSUME IInv, NEW p, Sent(p), WriteChr(p)
  PROVE  IInv'
BY IgnoredInv, RestartInv, UnusedInv, BodyInv, TailInv DEF WriteChr

(* Start and Stop: the component forgets the sector, the sender its place. *)
LEMMA CommandInv ==
  ASSUME IInv, Begin, StopWrite \/ \E len \in {0, Sectors} : StartWrite(len)
  PROVE  IInv'
<1>1. /\ startOta' \in BOOLEAN /\ totalLen' \in Nat /\ curSector' = 0 /\ curPacket' = 0
      /\ sequenceError' = FALSE /\ hasBuf' \in BOOLEAN /\ fwBuf' = <<>>
      /\ att' = "ok" /\ frame' \in {CommandAck("started"), CommandAck("stopped")}
      /\ (startOta' = FALSE /\ delivered' = delivered) \/ delivered' = <<>>
  <2>1. CASE StopWrite
    BY <2>1 DEF StopWrite, Reply
  <2>2. CASE \E len \in {0, Sectors} : StartWrite(len)
    <3>1. PICK len \in {0, Sectors} : StartWrite(len)
      BY <2>2
    <3>2. len \in Nat
      BY ComponentAssumption
    <3> QED
      BY <3>1, <3>2 DEF StartWrite, ResetSector, Reply
  <2> QED
    BY <2>1, <2>2
<1>2. sending' \in Sector /\ next' = 0
  BY DEF Begin
<1>3. /\ frame' \in [chr : {"none", "fw", "cmd"},
                     status : {"none", "success", "resend", "started", "stopped"},
                     sector : 0 .. Sectors, expected : 0 .. Sectors]
      /\ <<>> \in Seq(Unit) /\ <<>> \in Seq(Seq(Unit)) /\ 0 \in 0 .. SeqMod
      /\ 0 \in 0 .. Sectors
  BY <1>1, ComponentAssumption DEF CommandAck
<1>4. delivered' \in Seq(Seq(Unit)) /\ DeliversImage' /\ (startOta' => Len(delivered') = 0)
  <2>1. CASE delivered' = <<>>
    BY <1>3, <2>1 DEF DeliversImage
  <2>2. CASE startOta' = FALSE /\ delivered' = delivered
    BY <2>2 DEF IInv, TypeOK, DeliversImage
  <2> QED
    BY <1>1, <2>1, <2>2
<1>5. TypeOK'
  BY <1>1, <1>2, <1>3, <1>4 DEF TypeOK
<1>6. SectorInv'
  BY <1>1, <1>2, <1>4, Sizes DEF SectorInv
<1>7. BufferInv' /\ InStep'
  BY <1>1, <1>2 DEF BufferInv, InStep
<1> QED
  BY <1>4, <1>5, <1>6, <1>7 DEF IInv

(* A sender that gives up and begins again somewhere. *)
LEMMA GiveUpInv == ASSUME IInv, GiveUp PROVE IInv'
<1>1. UNCHANGED nimbleVars /\ sending' \in Sector /\ next' = 0
  BY DEF GiveUp, Begin
<1>2. UNCHANGED <<startOta, totalLen, curSector, curPacket, sequenceError,
                  hasBuf, fwBuf, delivered, att, frame>>
  BY <1>1 DEF nimbleVars, component
<1>3. TypeOK'
  BY <1>1, <1>2, ComponentAssumption DEF IInv, TypeOK
<1>4. DeliversImage' /\ SectorInv'
  BY <1>1, <1>2, Sizes DEF IInv, DeliversImage, SectorInv
<1>5. BufferInv' /\ InStep'
  BY <1>1, <1>2 DEF IInv, BufferInv, InStep
<1> QED
  BY <1>3, <1>4, <1>5 DEF IInv

(* The invariant holds before the first write. *)
LEMMA InitInv == Init => IInv
<1> SUFFICES ASSUME Init PROVE IInv
  OBVIOUS
<1>1. /\ NoFrame \in [chr : {"none", "fw", "cmd"},
                      status : {"none", "success", "resend", "started", "stopped"},
                      sector : 0 .. Sectors, expected : 0 .. Sectors]
      /\ 0 \in Sector /\ 0 \in 0 .. SeqMod /\ 0 \in 0 .. Sectors
      /\ <<>> \in Seq(Unit) /\ <<>> \in Seq(Seq(Unit))
  BY ComponentAssumption DEF NoFrame, Sector
<1>2. TypeOK
  BY <1>1 DEF Init, NimbleInit, TypeOK
<1>3. DeliversImage /\ SectorInv
  BY <1>1, Sizes DEF Init, NimbleInit, DeliversImage, SectorInv
<1>4. BufferInv /\ InStep
  BY DEF Init, NimbleInit, BufferInv, InStep
<1> QED
  BY <1>2, <1>3, <1>4 DEF IInv

(* Every step of the sender keeps the invariant. *)
LEMMA StepInv == ASSUME IInv, [Next]_vars PROVE IInv'
<1>1. TypeOK /\ SectorInv
  BY DEF IInv
<1>2. CASE Send
  BY <1>1, <1>2, SendIsSent, WriteInv
<1>3. CASE SendMarked
  BY <1>1, <1>3, MarkedIsSent, WriteInv
<1>4. CASE SendDamaged
  BY <1>1, <1>4, DamagedIsSent, WriteInv
<1>5. CASE GiveUp
  BY <1>5, GiveUpInv
<1>6. CASE Start
  BY <1>6, CommandInv DEF Start
<1>7. CASE Stop
  BY <1>7, CommandInv DEF Stop
<1>8. CASE UNCHANGED vars
  <2>1. UNCHANGED <<startOta, totalLen, curSector, curPacket, sequenceError,
                    hasBuf, fwBuf, delivered, att, frame, sending, next>>
    BY <1>8 DEF vars, nimbleVars, component, senderVars
  <2> QED
    BY <2>1 DEF IInv, TypeOK, DeliversImage, SectorInv, BufferInv, InStep
<1> QED
  BY <1>2, <1>3, <1>4, <1>5, <1>6, <1>7, <1>8 DEF Next

(* The component and any sender that keeps to the format agree on how much of the
   sector is in the buffer.                                                    *)
THEOREM SenderInvariance == Spec => []IInv
<1>1. Init => IInv
  BY InitInv
<1>2. IInv /\ [Next]_vars => IInv'
  BY StepInv
<1> QED
  BY <1>1, <1>2, PTL DEF Spec

(* So the transport gets the image, sector by sector, each whole. *)
THEOREM ImageDelivered == Spec => []DeliversImage
<1>1. IInv => DeliversImage
  BY DEF IInv
<1> QED
  BY <1>1, SenderInvariance, PTL

-----------------------------------------------------------------------------
(* The component implements the stream of sectors *)

(* What SectorStream sees of a frame. *)
Answer(f) ==
  CASE f.status = "success" ->
         <<"taken", IF f.sector = LastMark THEN Sectors - 1 ELSE f.sector>>
    [] f.status = "resend"  -> <<"needed", f.expected>>
    [] OTHER -> <<>>

LEMMA AnswersSeen ==
  /\ Answer(NoFrame) = <<>>
  /\ Answer(CommandAck("started")) = <<>> /\ Answer(CommandAck("stopped")) = <<>>
  /\ \A p : Answer(Nack(p)) = <<"needed", curSector>>
  /\ \A p : Answer(Success(p)) =
              <<"taken", IF p.sector = LastMark THEN Sectors - 1 ELSE p.sector>>
BY DEF Answer, NoFrame, CommandAck, Nack, Success

(* A write is one step of the stream: silence, a sector asked for, or one taken. *)
LEMMA WriteIsStream ==
  ASSUME IInv, NEW p, Sent(p), WriteChr(p)
  PROVE  [Stream!Next]_Stream!vars
<1> DEFINE silent == Answer(frame') = <<>> /\ UNCHANGED <<startOta, delivered>>
           asked == /\ startOta /\ Answer(frame') = <<"needed", Len(delivered)>>
                    /\ UNCHANGED <<startOta, delivered>>
           taken == /\ startOta /\ Len(delivered) < Sectors /\ UNCHANGED startOta
                    /\ delivered' = Append(delivered, SectorData(Len(delivered)))
                    /\ Answer(frame') = <<"taken", Len(delivered)>>
<1>1. CASE Ignored(p) \/ Runt(p) \/ WrongPacket(p) \/ Damaged(p) \/ NoBuffer(p) \/ BodyTaken(p)
  <2>1. frame' = NoFrame /\ UNCHANGED <<startOta, delivered>>
    BY <1>1 DEF Ignored, Runt, WrongPacket, Damaged, NoBuffer, BodyTaken, Refuse, Reply, component
  <2>2. silent
    BY <2>1, AnswersSeen
  <2> QED
    BY <2>2 DEF Answer, Stream!Next, Stream!Silence
<1>2. CASE WrongSector(p) \/ StaleEof(p)
  <2>1. startOta /\ frame' = Nack(p) /\ UNCHANGED <<startOta, delivered>>
    BY <1>2 DEF WrongSector, StaleEof, Received, Refuse, Reply
  <2>2. Len(delivered) = curSector
    BY <2>1 DEF IInv, SectorInv
  <2>3. asked
    BY <2>1, <2>2, AnswersSeen
  <2> QED
    BY <2>3 DEF Answer, Stream!Next, Stream!Ask
<1>3. CASE TailTaken(p)
  <2>1. /\ startOta /\ frame' = Success(p) /\ UNCHANGED startOta
        /\ delivered' = Append(delivered, SectorOut(Append(fwBuf, p.unit)))
    BY <1>3 DEF TailTaken, Copied, InOrder, Received, Reply
  <2>2. Len(delivered) = curSector
    BY <2>1 DEF IInv, SectorInv
  <2>3. /\ sending = curSector /\ sending \in Sector
        /\ SectorOut(Append(fwBuf, p.unit)) = SectorData(curSector)
    BY <1>3, TailCompletes, CounterSmall
  <2>4. curSector < Sectors
    BY <2>3, Sizes DEF Sector
  <2>5. Answer(frame') = <<"taken", curSector>>
    BY <2>1, <2>3, AnswersSeen, Sizes DEF Sent
  <2>6. taken
    BY <2>1, <2>2, <2>3, <2>4, <2>5
  <2> QED
    BY <2>6 DEF Answer, Stream!Next, Stream!Take
<1> QED
  BY <1>1, <1>2, <1>3 DEF WriteChr

(* A Start opens the stream, a Stop closes it, and giving up is not seen. *)
LEMMA CommandIsStream ==
  ASSUME Start \/ Stop \/ GiveUp \/ UNCHANGED vars
  PROVE  [Stream!Next]_Stream!vars
<1>1. CASE Start
  <2>1. startOta' = TRUE /\ delivered' = <<>> /\ frame' = CommandAck("started")
    BY <1>1 DEF Start, StartWrite, Reply
  <2>2. Answer(frame') = <<>>
    BY <2>1, AnswersSeen
  <2> QED
    BY <2>1, <2>2 DEF Answer, Stream!Next, Stream!Open
<1>2. CASE Stop
  <2>1. startOta' = FALSE /\ delivered' = delivered /\ frame' = CommandAck("stopped")
    BY <1>2 DEF Stop, StopWrite, Reply
  <2>2. Answer(frame') = <<>>
    BY <2>1, AnswersSeen
  <2> QED
    BY <2>1, <2>2 DEF Answer, Stream!Next, Stream!Close
<1>3. CASE GiveUp \/ UNCHANGED vars
  <2>1. UNCHANGED <<startOta, delivered, frame>>
    BY <1>3 DEF GiveUp, vars, nimbleVars, component
  <2> QED
    BY <2>1 DEF Stream!vars
<1> QED
  BY <1>1, <1>2, <1>3

(* Every answer the component sends is right: a success answers the write that
   delivered its sector and no other, a NACK names the sector needed next.      *)
THEOREM ComponentImplementsStream == Spec => ImplementsStream
<1>1. Init => Stream!Init
  <2> SUFFICES ASSUME Init PROVE Stream!Init
    OBVIOUS
  <2>1. startOta = FALSE /\ delivered = <<>> /\ frame = NoFrame
    BY DEF Init, NimbleInit
  <2>2. Answer(frame) = <<>>
    BY <2>1, AnswersSeen
  <2> QED
    BY <2>1, <2>2 DEF Answer, Stream!Init
<1>2. IInv /\ [Next]_vars => [Stream!Next]_Stream!vars
  <2> SUFFICES ASSUME IInv, [Next]_vars PROVE [Stream!Next]_Stream!vars
    OBVIOUS
  <2>1. TypeOK /\ SectorInv
    BY DEF IInv
  <2>2. CASE Send
    BY <2>1, <2>2, SendIsSent, WriteIsStream
  <2>3. CASE SendMarked
    BY <2>1, <2>3, MarkedIsSent, WriteIsStream
  <2>4. CASE SendDamaged
    BY <2>1, <2>4, DamagedIsSent, WriteIsStream
  <2>5. CASE GiveUp \/ Start \/ Stop \/ UNCHANGED vars
    BY <2>5, CommandIsStream
  <2> QED
    BY <2>2, <2>3, <2>4, <2>5 DEF Next
<1>3. Spec => []IInv
  BY SenderInvariance
<1> QED
  BY <1>1, <1>2, <1>3, PTL DEF Spec, ImplementsStream, Stream!Spec
=============================================================================
