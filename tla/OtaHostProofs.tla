--------------------------- MODULE OtaHostProofs ---------------------------
(***************************************************************************)
(* Proofs about the flashing client, for every image, every way to cut it   *)
(* into packets, any number of retries and any mix of troubles: it keeps in *)
(* step with the component, and exit code 0 means that the image was there. *)
(* And about its plan of a sector, whatever the length and at any MTU that  *)
(* ATT allows: the packets are the sector.                                  *)
(***************************************************************************)
EXTENDS OtaHost, PacketPlan, SequenceTheorems, TLAPS

(* The constants are the numbers they should be. *)
LEMMA Sizes ==
  /\ Sectors \in Nat \ {0} /\ SeqMod \in Nat \ {0} /\ BlockUnits \in Nat
  /\ AckRetries \in Nat \ {0} /\ MaxJumps \in Nat \ {0}
  /\ \A n \in Sector : /\ n \in Nat /\ n < Sectors /\ Packets[n] \in Nat \ {0}
                       /\ Packets[n] <= SeqMod /\ Packets[n] < BlockUnits
BY ComponentAssumption, HostAssumption DEF Sector

(* The first n sectors of the image are n sectors, and one more makes n + 1. *)
LEMMA ImageGrows ==
  ASSUME NEW n \in Nat
  PROVE  /\ Len(Image(n)) = n
         /\ Append(Image(n), SectorData(n)) = Image(n + 1)
<1> DEFINE S == {SectorData(i) : i \in Nat}
<1>1. Image(n) \in Seq(S) /\ Len(Image(n)) = n
  BY IsASeq DEF Image
<1>2. Image(n + 1) \in Seq(S) /\ Len(Image(n + 1)) = n + 1
  BY IsASeq DEF Image
<1>3. SectorData(n) \in S
  OBVIOUS
<1> HIDE DEF S
<1>4. /\ Append(Image(n), SectorData(n)) \in Seq(S)
      /\ Len(Append(Image(n), SectorData(n))) = n + 1
      /\ \A i \in 1 .. n : Append(Image(n), SectorData(n))[i] = Image(n)[i]
      /\ Append(Image(n), SectorData(n))[n + 1] = SectorData(n)
  BY <1>1, <1>3, AppendProperties
<1>5. \A i \in 1 .. n + 1 : Append(Image(n), SectorData(n))[i] = Image(n + 1)[i]
  BY <1>4 DEF Image
<1> QED
  BY <1>1, <1>2, <1>4, <1>5, SeqEqual

(* Without a sector, the image is the empty sequence. *)
LEMMA NoImage == Image(0) = <<>>
<1>1. Image(0) \in Seq({SectorData(i) : i \in Nat}) /\ Len(Image(0)) = 0
  BY IsASeq DEF Image
<1> QED
  BY <1>1, EmptySeq

(* One sector more is another image, so the device is behind or ahead, not both. *)
LEMMA ImagesDiffer ==
  ASSUME NEW n \in Nat
  PROVE  Image(n) # Image(n + 1)
<1>1. Len(Image(n)) = n
  BY ImageGrows
<1>2. Len(Image(n + 1)) = n + 1
  BY ImageGrows
<1> QED
  BY <1>1, <1>2

(* The first k units are k units, one more makes k + 1, and all are the sector. *)
LEMMA UnitsGrow ==
  ASSUME NEW n, NEW k \in Nat
  PROVE  /\ Len(Units(n, k)) = k
         /\ Append(Units(n, k), <<n, k>>) = Units(n, k + 1)
<1> DEFINE S == {<<n, i>> : i \in Nat}
<1>1. Units(n, k) \in Seq(S) /\ Len(Units(n, k)) = k
  BY IsASeq DEF Units
<1>2. Units(n, k + 1) \in Seq(S) /\ Len(Units(n, k + 1)) = k + 1
  BY IsASeq DEF Units
<1>3. <<n, k>> \in S
  OBVIOUS
<1> HIDE DEF S
<1>4. /\ Append(Units(n, k), <<n, k>>) \in Seq(S)
      /\ Len(Append(Units(n, k), <<n, k>>)) = k + 1
      /\ \A i \in 1 .. k : Append(Units(n, k), <<n, k>>)[i] = Units(n, k)[i]
      /\ Append(Units(n, k), <<n, k>>)[k + 1] = <<n, k>>
  BY <1>1, <1>3, AppendProperties
<1>5. \A i \in 1 .. k + 1 : Append(Units(n, k), <<n, k>>)[i] = Units(n, k + 1)[i]
  BY <1>4 DEF Units
<1> QED
  BY <1>1, <1>2, <1>4, <1>5, SeqEqual

(* Nothing taken is the empty buffer. *)
LEMMA NoUnits == ASSUME NEW n PROVE Units(n, 0) = <<>>
<1>1. Units(n, 0) \in Seq({<<n, i>> : i \in Nat}) /\ Len(Units(n, 0)) = 0
  BY IsASeq DEF Units
<1> QED
  BY <1>1, EmptySeq

(* All the units of a sector are its data. *)
LEMMA AllUnits == ASSUME NEW n \in Sector PROVE Units(n, Packets[n]) = SectorData(n)
BY DEF Units, SectorData

-----------------------------------------------------------------------------
(* Steps that leave the component and what it was given alone *)

(* Connecting begins a run. *)
LEMMA ConnectInv == ASSUME HostInv, Connect PROVE HostInv'
<1>1. /\ hpc = "connect" /\ device = "up"
      /\ link' = TRUE /\ hpc' = "start"
      /\ UNCHANGED <<startOta, totalLen, curSector, curPacket, sequenceError, hasBuf, fwBuf,
                     delivered, outcome, reconnects, current, sector, attempt, jumps,
                     nextPacket, waiter, answer, wire, device>>
  BY DEF Connect, nimbleVars, component, locals, watch, world
<1>2. TypeOK' /\ RadioTypeOK'
  BY <1>1 DEF HostInv, TypeOK, RadioTypeOK
<1>3. LinkInv' /\ StartInv'
  BY <1>1 DEF HostInv, LinkInv, StartInv
<1>4. SendInv' /\ OneSuccess' /\ BehindInv' /\ AheadInv' /\ EndInv'
  BY <1>1 DEF HostInv, SendInv, OneSuccess, BehindInv, AheadInv, EndInv, Sound, Sending
<1> QED
  BY <1>2, <1>3, <1>4 DEF HostInv

(* An attempt to connect that fails is made again or ends the run. *)
LEMMA ConnectFailsInv == ASSUME HostInv, ConnectFails PROVE HostInv'
<1>1. /\ hpc = "connect"
      /\ \/ hpc' = "end" /\ outcome' = "1" /\ reconnects' = reconnects
         \/ hpc' = hpc /\ outcome' = outcome /\ reconnects # 0 /\ reconnects' = reconnects - 1
      /\ UNCHANGED <<startOta, totalLen, curSector, curPacket, sequenceError, hasBuf, fwBuf,
                     delivered, current, sector, attempt, jumps, nextPacket,
                     waiter, answer, wire, link, device>>
  BY DEF ConnectFails, Exit, nimbleVars, component, watch, radio, world
<1>2. TypeOK' /\ RadioTypeOK'
  BY <1>1 DEF HostInv, TypeOK, RadioTypeOK
<1>3. LinkInv' /\ StartInv'
  BY <1>1 DEF HostInv, LinkInv, StartInv
<1>4. SendInv' /\ OneSuccess' /\ BehindInv' /\ AheadInv' /\ EndInv'
  BY <1>1 DEF HostInv, SendInv, OneSuccess, BehindInv, AheadInv, EndInv, Sound, Sending
<1> QED
  BY <1>2, <1>3, <1>4 DEF HostInv

(* A run that fails hangs up; what it leaves behind is in no one's way. *)
LEMMA FailInv ==
  ASSUME HostInv, Fail,
         UNCHANGED <<curSector, delivered, reconnects, current, sector, jumps, nextPacket, device>>,
         attempt' \in 0 .. AckRetries
  PROVE  HostInv'
<1>1. /\ hpc' = "end" /\ outcome' = "1"
      /\ link' = FALSE /\ wire' = <<>> /\ answer' = "none" /\ waiter' = Idle
  BY DEF Fail, Exit, HangUp
<1>2. Idle \in Waiter /\ <<>> \in Seq(Frame) /\ Len(<<>>) = 0
      /\ Idle.chr = "none" /\ Idle.state = "none"
  BY DEF Idle, Waiter, Frame, NoFrame
<1>3. TypeOK' /\ RadioTypeOK'
  <2>1. /\ waiter'.chr = "none" /\ waiter'.state = "none" /\ waiter' \in Waiter
        /\ Len(wire') = 0 /\ wire' \in Seq(Frame)
    BY <1>1, <1>2
  <2>2. RadioTypeOK'
    BY <1>1, <2>1 DEF HostInv, RadioTypeOK
  <2>3. TypeOK'
    BY <1>1, <2>1 DEF HostInv, TypeOK
  <2> QED
    BY <2>2, <2>3
<1>4. LinkInv' /\ StartInv'
  BY <1>1 DEF LinkInv, StartInv
<1>5. SendInv' /\ OneSuccess' /\ BehindInv' /\ AheadInv' /\ EndInv'
  BY <1>1 DEF SendInv, OneSuccess, BehindInv, AheadInv, EndInv, Sound, Sending
<1> QED
  BY <1>3, <1>4, <1>5 DEF HostInv

(* A write on a dead connection, or one that was refused, ends the run. *)
LEMMA RaisesInv == ASSUME HostInv, WriteRaises \/ AnswerRaises PROVE HostInv'
<1>1. /\ Fail
      /\ UNCHANGED <<curSector, delivered, reconnects, current, sector, attempt, jumps,
                     nextPacket, device>>
  BY DEF WriteRaises, AnswerRaises, nimbleVars, component, locals, world
<1>2. attempt' \in 0 .. AckRetries
  BY <1>1 DEF HostInv, TypeOK
<1> QED
  BY <1>1, <1>2, FailInv

(* The command was accepted: its ACK is awaited. *)
LEMMA AnsweredInv == ASSUME HostInv, Answered PROVE HostInv'
<1>1. /\ answer = "ok" /\ answer' = "none"
      /\ (hpc = "starting" /\ hpc' = "startAck") \/ (hpc = "stopping" /\ hpc' = "stopAck")
      /\ UNCHANGED <<startOta, curSector, curPacket, sequenceError, fwBuf, delivered, outcome,
                     reconnects, current, sector, attempt, jumps, nextPacket,
                     waiter, wire, link, device>>
  BY DEF Answered, nimbleVars, component, locals, watch, world
<1>2. TypeOK' /\ RadioTypeOK'
  BY <1>1 DEF HostInv, TypeOK, RadioTypeOK
<1>3. LinkInv' /\ StartInv'
  BY <1>1 DEF HostInv, LinkInv, StartInv, Clean
<1>4. SendInv' /\ OneSuccess' /\ BehindInv' /\ AheadInv' /\ EndInv'
  BY <1>1 DEF HostInv, SendInv, OneSuccess, BehindInv, AheadInv, EndInv, Sound, Sending
<1> QED
  BY <1>2, <1>3, <1>4 DEF HostInv

(* The ACK of Start begins the first sector of a component that has nothing. *)
LEMMA StartedInv == ASSUME HostInv, Started PROVE HostInv'
<1>1. /\ hpc = "startAck"
      /\ UNCHANGED <<startOta, curSector, curPacket, sequenceError, fwBuf, delivered,
                     reconnects, nextPacket, device>>
  BY DEF Started, nimbleVars, component, watch, world
<1>2. CASE waiter.state = "set"
  <2>1. /\ hpc' = "sector" /\ current' = 0 /\ sector' = 0 /\ attempt' = 0 /\ jumps' = 0
        /\ waiter' = Idle /\ UNCHANGED <<outcome, answer, wire, link>>
    BY <1>2 DEF Started, FirstSector
  <2>2. delivered = <<>> /\ wire = <<>> /\ (link => startOta /\ curSector = 0 /\ Clean)
    BY <1>1, <1>2 DEF HostInv, StartInv
  <2>3. /\ 0 \in Sector /\ 0 < AckRetries /\ 0 \in 0 .. Sectors
        /\ 0 \in 0 .. AckRetries /\ 0 \in 0 .. MaxJumps
    BY Sizes DEF Sector
  <2>4. Idle \in Waiter /\ Idle.chr = "none" /\ Idle.state = "none"
    BY DEF Idle, Waiter, Frame, NoFrame
  <2>5. TypeOK' /\ RadioTypeOK'
    BY <1>1, <2>1, <2>3, <2>4 DEF HostInv, TypeOK, RadioTypeOK
  <2>6. LinkInv' /\ StartInv' /\ EndInv'
    BY <1>1, <2>1 DEF HostInv, LinkInv, StartInv, EndInv
  <2>7. delivered' = Image(current') /\ Len(delivered') = 0
    BY <1>1, <2>1, <2>2, NoImage, ImageGrows
  <2>8. SendInv'
    BY <1>1, <2>1, <2>2, <2>3, <2>7 DEF SendInv, Behind
  <2>9. OneSuccess' /\ BehindInv'
    BY <1>1, <2>1, <2>2, <2>4 DEF OneSuccess, BehindInv, Clean
  <2>10. ~Ahead'
    BY <2>1, <2>7, ImagesDiffer DEF Ahead
  <2>11. AheadInv'
    BY <2>10 DEF AheadInv
  <2> QED
    BY <2>5, <2>6, <2>8, <2>9, <2>11 DEF HostInv
<1>3. CASE waiter.state # "set"
  <2>1. Fail /\ UNCHANGED <<current, sector, attempt, jumps>>
    BY <1>3 DEF Started
  <2>2. attempt' \in 0 .. AckRetries
    BY <2>1 DEF HostInv, TypeOK
  <2> QED
    BY <1>1, <2>1, <2>2, FailInv
<1> QED
  BY <1>2, <1>3

(* Arming the future for the ACK takes nothing from the component. *)
LEMMA BeginAttemptInv == ASSUME HostInv, BeginAttempt PROVE HostInv'
<1>1. /\ hpc = "sector" /\ hpc' = "packet" /\ waiter' = Armed("fw") /\ nextPacket' = 0
      /\ UNCHANGED <<startOta, curSector, curPacket, sequenceError, fwBuf, delivered, outcome,
                     reconnects, current, sector, attempt, jumps, answer, wire, link, device>>
  BY DEF BeginAttempt, nimbleVars, component, watch, world
<1>2. Armed("fw") \in Waiter /\ Armed("fw").chr = "fw" /\ Armed("fw").state = "armed"
  BY DEF Armed, Waiter, Frame, NoFrame
<1>3. TypeOK' /\ RadioTypeOK'
  BY <1>1, <1>2 DEF HostInv, TypeOK, RadioTypeOK
<1>4. LinkInv' /\ StartInv' /\ EndInv'
  BY <1>1 DEF HostInv, LinkInv, StartInv, EndInv
<1>5. Behind' = Behind /\ Ahead' = Ahead
  BY <1>1 DEF Behind, Ahead
<1>6. SendInv'
  BY <1>1, <1>5 DEF HostInv, SendInv, Sending
<1>7. OneSuccess' /\ AheadInv'
  BY <1>1, <1>2, <1>5 DEF HostInv, OneSuccess, AheadInv, Sound, Sending, Clean
<1>8. BehindInv'
  <2> SUFFICES ASSUME Behind PROVE BehindInv'
    BY <1>5 DEF BehindInv
  <2>1. /\ attempt = 0 /\ wire = <<>>
        /\ link => curPacket = 0 /\ fwBuf = <<>> /\ ~sequenceError
    BY <1>1 DEF HostInv, BehindInv, Sound, Sending, Clean
  <2>2. current \in Sector
    BY <1>1 DEF HostInv, SendInv, Sending
  <2>3. TakenPackets' = 0
    BY <1>1 DEF TakenPackets
  <2>4. Units(current', TakenPackets') = <<>>
    BY <2>3, NoUnits
  <2>5. TakenPackets' < Packets[current']
    BY <1>1, <2>2, <2>3, Sizes
  <2> QED
    BY <1>1, <1>2, <2>1, <2>3, <2>4, <2>5 DEF BehindInv
<1> QED
  BY <1>3, <1>4, <1>6, <1>7, <1>8 DEF HostInv

(* A packet accepted was taken, or was the tail that completed the sector. *)
LEMMA PacketWrittenInv == ASSUME HostInv, PacketWritten PROVE HostInv'
<1>1. /\ hpc = "writing" /\ answer = "ok" /\ answer' = "none" /\ nextPacket' = nextPacket + 1
      /\ hpc' = IF nextPacket + 1 < Packets[sector] THEN "packet" ELSE "await"
      /\ UNCHANGED <<startOta, curSector, curPacket, sequenceError, fwBuf, delivered, outcome,
                     reconnects, current, sector, attempt, jumps, waiter, wire, link, device>>
  BY DEF PacketWritten, nimbleVars, component, watch, world
<1>2. hpc' \in {"packet", "await"}
  BY <1>1
<1>3. TypeOK' /\ RadioTypeOK'
  BY <1>1, <1>2 DEF HostInv, TypeOK, RadioTypeOK
<1>4. LinkInv' /\ StartInv' /\ EndInv'
  BY <1>1, <1>2 DEF HostInv, LinkInv, StartInv, EndInv
<1>5. Behind' = Behind /\ Ahead' = Ahead
  BY <1>1 DEF Behind, Ahead
<1>6. SendInv'
  BY <1>1, <1>5 DEF HostInv, SendInv, Sending
<1>7. Sound
  BY <1>1 DEF Sound, Sending
<1>8. OneSuccess'
  BY <1>1, <1>7 DEF HostInv, OneSuccess
<1>9. sector = current /\ TakenPackets = nextPacket + 1 /\ TakenPackets' = nextPacket + 1
  BY <1>1, <1>2 DEF HostInv, SendInv, Sending, TakenPackets
<1>10. BehindInv'
  BY <1>1, <1>2, <1>5, <1>7, <1>9 DEF HostInv, BehindInv
<1>11. AheadInv'
  <2> SUFFICES ASSUME Ahead PROVE AheadInv'
    BY <1>5 DEF AheadInv
  <2>1. nextPacket + 1 = Packets[sector]
    BY <1>1, <1>7, <1>9 DEF HostInv, AheadInv
  <2>2. nextPacket + 1 \in Nat
    BY DEF HostInv, RadioTypeOK
  <2>3. hpc' = "await"
    BY <1>1, <2>1, <2>2
  <2>4. link' => Clean'
    BY <1>1, <1>7 DEF HostInv, AheadInv, Clean
  <2> QED
    BY <2>3, <2>4 DEF AheadInv
<1> QED
  BY <1>3, <1>4, <1>6, <1>8, <1>10, <1>11 DEF HostInv

(* An ACK that does not come in time: the sector is sent again, or the run fails. *)
LEMMA AckTimedOutInv == ASSUME HostInv, AckTimedOut PROVE HostInv'
<1>1. /\ hpc = "await" /\ waiter.state = "expired" /\ attempt' = attempt + 1
      /\ UNCHANGED <<startOta, curSector, curPacket, sequenceError, fwBuf, delivered,
                     reconnects, current, sector, jumps, nextPacket, device>>
  BY DEF AckTimedOut, nimbleVars, component, watch, world
<1>2. /\ attempt \in Nat /\ attempt < AckRetries /\ AckRetries \in Nat
      /\ attempt' \in 0 .. AckRetries
  BY <1>1, Sizes DEF HostInv, TypeOK, SendInv, Sending
<1>3. CASE attempt' >= AckRetries
  BY <1>1, <1>2, <1>3, FailInv DEF AckTimedOut
<1>4. CASE ~(attempt' >= AckRetries)
  <2>1. hpc' = "sector" /\ UNCHANGED <<outcome, waiter, answer, wire, link>>
    BY <1>4 DEF AckTimedOut, radio
  <2>2. TypeOK' /\ RadioTypeOK'
    BY <1>1, <1>2, <2>1 DEF HostInv, TypeOK, RadioTypeOK
  <2>3. LinkInv' /\ StartInv' /\ EndInv'
    BY <1>1, <2>1 DEF HostInv, LinkInv, StartInv, EndInv
  <2>4. Behind' = Behind /\ Ahead' = Ahead
    BY <1>1 DEF Behind, Ahead
  <2>5. Sound /\ attempt' > 0 /\ attempt' < AckRetries
    BY <1>1, <1>2, <1>4 DEF Sound, Sending
  <2>6. SendInv'
    BY <1>1, <2>1, <2>4, <2>5 DEF HostInv, SendInv, Sending
  <2>7. OneSuccess' /\ AheadInv'
    BY <1>1, <2>1, <2>4, <2>5 DEF HostInv, OneSuccess, AheadInv, Clean
  <2>8. ~Behind
    BY <1>1, <2>5 DEF HostInv, BehindInv
  <2>9. BehindInv'
    BY <2>4, <2>8 DEF BehindInv
  <2> QED
    BY <2>2, <2>3, <2>6, <2>7, <2>9 DEF HostInv
<1> QED
  BY <1>3, <1>4

(* The success of the sector in hand confirms it; the next one begins on a
   component that awaits it, or all of them are there.  No NACK gets this far:
   the write that drew it failed.                                              *)
LEMMA AcknowledgedInv == ASSUME HostInv, Acknowledged PROVE HostInv'
<1>1. /\ hpc = "await" /\ waiter.state = "set" /\ attempt' = 0
      /\ UNCHANGED <<startOta, curSector, curPacket, sequenceError, fwBuf, delivered,
                     reconnects, nextPacket, device>>
  BY DEF Acknowledged, nimbleVars, component, watch, world
<1>2. Sound
  BY <1>1 DEF Sound, Sending
<1>3. waiter.frame.status = "success" /\ wire = <<>>
  BY <1>1, <1>2 DEF HostInv, OneSuccess
<1>4. /\ sector = current /\ current \in Sector /\ (Behind \/ Ahead)
      /\ link => startOta /\ curSector = Len(delivered)
  BY <1>1 DEF HostInv, SendInv, Sending
<1>5. ~Behind /\ Ahead
  BY <1>1, <1>2, <1>4 DEF HostInv, BehindInv
<1>6. /\ current' = current + 1 /\ sector' = current' /\ jumps' = 0
      /\ hpc' = IF current' < Sectors THEN "sector" ELSE "stop"
      /\ UNCHANGED <<outcome, waiter, answer, wire, link>>
  BY <1>3, <1>4 DEF Acknowledged, MoreToSend, radio
<1>7. /\ current' \in 0 .. Sectors /\ current' \in Nat /\ hpc' \in {"sector", "stop"}
      /\ (hpc' = "sector" => current' \in Sector) /\ (hpc' = "stop" => current' = Sectors)
  <2>1. current \in Nat /\ current < Sectors /\ Sectors \in Nat
    BY <1>4, Sizes
  <2>2. current' \in Nat /\ current' <= Sectors
    BY <1>6, <2>1
  <2>3. current' < Sectors => current' \in Sector
    BY <2>1, <2>2 DEF Sector
  <2> QED
    BY <1>6, <2>1, <2>2, <2>3
<1>8. TypeOK' /\ RadioTypeOK'
  <2>1. RadioTypeOK'
    BY <1>1, <1>6 DEF HostInv, RadioTypeOK
  <2>2. sector' \in 0 .. Sectors /\ attempt' \in 0 .. AckRetries /\ jumps' \in 0 .. MaxJumps
    BY <1>1, <1>6, <1>7, Sizes
  <2>3. TypeOK'
    BY <1>1, <1>6, <1>7, <2>2 DEF HostInv, TypeOK
  <2> QED
    BY <2>1, <2>3
<1>9. LinkInv' /\ StartInv'
  BY <1>1, <1>3, <1>6, <1>7 DEF HostInv, LinkInv, StartInv
<1>10. Behind' /\ ~Ahead'
  <2>1. Behind'
    BY <1>1, <1>5, <1>6 DEF Behind, Ahead
  <2>2. Image(current') # Image(current' + 1)
    BY <1>7, ImagesDiffer
  <2> QED
    BY <2>1, <2>2 DEF Behind, Ahead
<1>11. SendInv'
  BY <1>1, <1>4, <1>6, <1>7, <1>10, Sizes DEF SendInv, Sending
<1>12. OneSuccess' /\ AheadInv'
  BY <1>1, <1>2, <1>3, <1>6, <1>10 DEF HostInv, OneSuccess, AheadInv
<1>13. BehindInv'
  <2>1. link' => Clean'
    BY <1>1, <1>2, <1>5, <1>6 DEF HostInv, AheadInv, Clean
  <2>2. Sound' => hpc' = "sector"
    BY <1>7 DEF Sound, Sending
  <2> QED
    BY <1>1, <1>3, <1>6, <2>1, <2>2 DEF BehindInv
<1>14. EndInv'
  BY <1>1, <1>6, <1>7, <1>10 DEF HostInv, EndInv, Behind
<1> QED
  BY <1>8, <1>9, <1>11, <1>12, <1>13, <1>14 DEF HostInv

(* Hanging up after the Stop leaves the image where it is. *)
LEMMA StoppedInv == ASSUME HostInv, Stopped PROVE HostInv'
<1>1. /\ hpc = "stopAck" /\ hpc' = "baseline"
      /\ link' = FALSE /\ wire' = <<>> /\ answer' = "none" /\ waiter' = Idle
      /\ UNCHANGED <<curSector, delivered, outcome, reconnects, current, sector, attempt, jumps,
                     nextPacket, device>>
  BY DEF Stopped, HangUp, nimbleVars, component, locals, world
<1>2. /\ Idle \in Waiter /\ Idle.chr = "none" /\ Idle.state = "none"
      /\ <<>> \in Seq(Frame) /\ Len(<<>>) = 0
  BY DEF Idle, Waiter, Frame, NoFrame
<1>3. /\ waiter'.chr = "none" /\ waiter'.state = "none" /\ waiter' \in Waiter
      /\ Len(wire') = 0 /\ wire' \in Seq(Frame)
  BY <1>1, <1>2
<1>4. RadioTypeOK'
  BY <1>1, <1>3 DEF HostInv, RadioTypeOK
<1>5. TypeOK'
  BY <1>1, <1>3 DEF HostInv, TypeOK
<1>6. LinkInv' /\ StartInv' /\ EndInv'
  BY <1>1 DEF HostInv, LinkInv, StartInv, EndInv
<1>7. SendInv' /\ OneSuccess' /\ BehindInv' /\ AheadInv'
  BY <1>1 DEF SendInv, OneSuccess, BehindInv, AheadInv, Sound, Sending
<1> QED
  BY <1>4, <1>5, <1>6, <1>7 DEF HostInv

(* Watching for the device to vanish and come back decides the exit code of a run
   whose image is there; so does the one last look.                             *)
LEMMA WatchInv == ASSUME HostInv, Baseline \/ Probe \/ WatchOver PROVE HostInv'
<1>1. /\ UNCHANGED <<startOta, curSector, curPacket, sequenceError, fwBuf, delivered,
                     reconnects, current, sector, attempt, jumps, nextPacket,
                     waiter, answer, wire, link, device>>
      /\ hpc \in {"baseline", "watch"}
      /\ \/ hpc' = "watch" /\ outcome' = outcome
         \/ hpc' = "end" /\ outcome' \in {"0", "1"}
  <2>1. CASE Baseline
    BY <2>1 DEF Baseline, nimbleVars, component, locals, radio, world
  <2>2. CASE Probe
    BY <2>2 DEF Probe, Exit, nimbleVars, component, locals, radio, world
  <2>3. CASE WatchOver
    BY <2>3 DEF WatchOver, Exit, nimbleVars, component, locals, radio, world
  <2> QED
    BY <2>1, <2>2, <2>3
<1>2. TypeOK' /\ RadioTypeOK'
  BY <1>1 DEF HostInv, TypeOK, RadioTypeOK
<1>3. LinkInv' /\ StartInv' /\ EndInv'
  BY <1>1 DEF HostInv, LinkInv, StartInv, EndInv
<1>4. SendInv' /\ OneSuccess' /\ BehindInv' /\ AheadInv'
  BY <1>1 DEF SendInv, OneSuccess, BehindInv, AheadInv, Sound, Sending
<1> QED
  BY <1>2, <1>3, <1>4 DEF HostInv

(* The tool run again begins without a connection. *)
LEMMA RerunInv == ASSUME HostInv, Rerun PROVE HostInv'
<1>1. /\ hpc = "end" /\ hpc' = "connect" /\ outcome' = "running" /\ reconnects' = 1
      /\ UNCHANGED <<curSector, delivered, current, sector, attempt, jumps, nextPacket,
                     waiter, answer, wire, link, device>>
  BY DEF Rerun, nimbleVars, component, radio
<1>2. TypeOK' /\ RadioTypeOK'
  BY <1>1 DEF HostInv, TypeOK, RadioTypeOK
<1>3. LinkInv' /\ StartInv' /\ EndInv'
  BY <1>1 DEF HostInv, LinkInv, StartInv, EndInv
<1>4. SendInv' /\ OneSuccess' /\ BehindInv' /\ AheadInv'
  BY <1>1 DEF SendInv, OneSuccess, BehindInv, AheadInv, Sound, Sending
<1> QED
  BY <1>2, <1>3, <1>4 DEF HostInv

-----------------------------------------------------------------------------
(* The radio and the device *)

(* A notification that arrives wakes who waits for it, or is dropped. *)
LEMMA DeliverInv == ASSUME HostInv, Deliver PROVE HostInv'
<1>1. /\ wire # <<>> /\ wire' = Tail(wire)
      /\ \/ waiter' = waiter
         \/ /\ waiter.state = "armed" /\ waiter.chr = Head(wire).chr
            /\ waiter' = [waiter EXCEPT !.state = "set", !.frame = Head(wire)]
      /\ UNCHANGED <<startOta, curSector, curPacket, sequenceError, fwBuf, delivered, hpc, outcome,
                     reconnects, current, sector, attempt, jumps, nextPacket,
                     answer, link, device>>
  BY DEF Deliver, nimbleVars, component, locals, watch, world
<1>2. /\ wire \in Seq(Frame) /\ waiter \in Waiter
  BY DEF HostInv, RadioTypeOK
<1>3. /\ Head(wire) = wire[1] /\ Head(wire) \in Frame
      /\ wire' \in Seq(Frame) /\ Len(wire') = Len(wire) - 1
      /\ wire = <<wire[1]>> => wire' = <<>>
  BY <1>1, <1>2, HeadTailProperties
<1>4. /\ waiter' \in Waiter /\ waiter'.chr = waiter.chr
      /\ waiter'.state = "set" => \/ waiter' = waiter
                                 \/ waiter'.frame = wire[1]
  BY <1>1, <1>2, <1>3 DEF Waiter
<1>5. RadioTypeOK'
  BY <1>1, <1>3, <1>4 DEF HostInv, RadioTypeOK
<1>6. TypeOK'
  <2>1. waiter'.state \in {"none", "armed", "set", "expired"}
    BY <1>4 DEF Waiter
  <2>2. Len(wire') \in 0 .. 2
    <3>1. Len(wire) \in 0 .. 2 /\ Len(wire) # 0
      BY <1>1, <1>2, EmptySeq DEF HostInv, TypeOK
    <3> QED
      BY <1>3, <3>1
  <2> QED
    BY <1>1, <1>4, <2>1, <2>2 DEF HostInv, TypeOK
<1>7. LinkInv' /\ EndInv'
  BY <1>1 DEF HostInv, LinkInv, EndInv
<1>8. StartInv'
  BY <1>1, <1>3 DEF HostInv, StartInv, Clean
<1>9. Behind' = Behind /\ Ahead' = Ahead /\ Sound' = Sound
  BY <1>1 DEF Behind, Ahead, Sound
<1>10. SendInv'
  BY <1>1, <1>9 DEF HostInv, SendInv
<1>11. OneSuccess'
  BY <1>1, <1>3, <1>4, <1>9 DEF HostInv, OneSuccess
<1>12. BehindInv'
  BY <1>1, <1>9 DEF HostInv, BehindInv
<1>13. AheadInv'
  BY <1>1, <1>9 DEF HostInv, AheadInv, Clean, TakenPackets
<1> QED
  BY <1>5, <1>6, <1>7, <1>8, <1>10, <1>11, <1>12, <1>13 DEF HostInv

(* A timer that runs out takes nothing from the wire. *)
LEMMA ExpireInv == ASSUME HostInv, Expire PROVE HostInv'
<1>1. /\ waiter.state = "armed" /\ waiter' = [waiter EXCEPT !.state = "expired"]
      /\ UNCHANGED <<startOta, curSector, curPacket, sequenceError, fwBuf, delivered, hpc, outcome,
                     reconnects, current, sector, attempt, jumps, nextPacket,
                     answer, wire, link, device>>
  BY DEF Expire, nimbleVars, component, locals, watch, world
<1>2. waiter' \in Waiter /\ waiter'.chr = waiter.chr /\ waiter'.state = "expired"
  BY <1>1 DEF HostInv, RadioTypeOK, Waiter
<1>3. TypeOK' /\ RadioTypeOK'
  <2>1. RadioTypeOK'
    BY <1>1, <1>2 DEF HostInv, RadioTypeOK
  <2>2. TypeOK'
    BY <1>1, <1>2 DEF HostInv, TypeOK
  <2> QED
    BY <2>1, <2>2
<1>4. LinkInv' /\ EndInv'
  BY <1>1 DEF HostInv, LinkInv, EndInv
<1>5. StartInv'
  BY <1>1, <1>2 DEF HostInv, StartInv, Clean
<1>6. Behind' = Behind /\ Ahead' = Ahead /\ Sound' = Sound
  BY <1>1 DEF Behind, Ahead, Sound
<1>7. SendInv' /\ OneSuccess'
  BY <1>1, <1>2, <1>6 DEF HostInv, SendInv, OneSuccess
<1>8. BehindInv'
  BY <1>1, <1>2, <1>6 DEF HostInv, BehindInv, Clean, TakenPackets
<1>9. AheadInv'
  BY <1>1, <1>6 DEF HostInv, AheadInv, Clean, TakenPackets
<1> QED
  BY <1>3, <1>4, <1>5, <1>7, <1>8, <1>9 DEF HostInv

(* A connection that is lost takes with it what was in flight, and with it goes
   all that was promised of the component's place in the sector.                *)
LEMMA LinkLostInv ==
  ASSUME HostInv, LinkLost,
         UNCHANGED <<delivered, hpc, outcome, reconnects, current, sector, attempt, jumps,
                     nextPacket, waiter>>,
         curSector' \in Nat
  PROVE  HostInv'
<1>1. link' = FALSE /\ wire' = <<>> /\ answer' = "none"
  BY DEF LinkLost
<1>2. <<>> \in Seq(Frame) /\ Len(<<>>) = 0
  OBVIOUS
<1>3. RadioTypeOK'
  BY <1>1, <1>2 DEF HostInv, RadioTypeOK
<1>4. TypeOK'
  BY <1>1, <1>2 DEF HostInv, TypeOK
<1>5. LinkInv' /\ StartInv' /\ EndInv'
  BY <1>1 DEF HostInv, LinkInv, StartInv, EndInv
<1>6. Behind' = Behind /\ Ahead' = Ahead
  BY DEF Behind, Ahead
<1>7. Sound' => Sound /\ hpc # "writing"
  BY <1>1 DEF Sound
<1>8. SendInv' /\ OneSuccess'
  BY <1>1, <1>6, <1>7 DEF HostInv, SendInv, OneSuccess
<1>9. BehindInv'
  BY <1>1, <1>6, <1>7 DEF HostInv, BehindInv, TakenPackets
<1>10. AheadInv'
  BY <1>1, <1>6, <1>7 DEF HostInv, AheadInv, TakenPackets
<1> QED
  BY <1>3, <1>4, <1>5, <1>8, <1>9, <1>10 DEF HostInv

(* The connection drops, or the device restarts. *)
LEMMA DropInv == ASSUME HostInv, Drop \/ Reboot PROVE HostInv'
<1>1. /\ LinkLost
      /\ UNCHANGED <<delivered, hpc, outcome, reconnects, current, sector, attempt, jumps,
                     nextPacket, waiter>>
      /\ curSector' \in {curSector, 0}
  BY DEF Drop, Reboot, nimbleVars, component, locals
<1>2. curSector' \in Nat
  BY <1>1 DEF HostInv, RadioTypeOK
<1> QED
  BY <1>1, <1>2, LinkLostInv

(* The device comes back with no connection. *)
LEMMA ComeBackInv == ASSUME HostInv, ComeBack PROVE HostInv'
<1>1. /\ device = "rebooting" /\ device' = "up"
      /\ UNCHANGED <<startOta, curSector, curPacket, sequenceError, fwBuf, delivered, hpc, outcome,
                     reconnects, current, sector, attempt, jumps, nextPacket,
                     waiter, answer, wire, link>>
  BY DEF ComeBack, nimbleVars, component, locals, radio
<1>2. TypeOK' /\ RadioTypeOK'
  BY <1>1 DEF HostInv, TypeOK, RadioTypeOK
<1>3. LinkInv' /\ StartInv' /\ EndInv'
  BY <1>1 DEF HostInv, LinkInv, StartInv, EndInv, Clean
<1>4. SendInv' /\ OneSuccess' /\ BehindInv' /\ AheadInv'
  <2>1. Behind' = Behind /\ Ahead' = Ahead /\ Sound' = Sound
    BY <1>1 DEF Behind, Ahead, Sound
  <2>2. SendInv' /\ OneSuccess'
    BY <1>1, <2>1 DEF HostInv, SendInv, OneSuccess
  <2>3. BehindInv' /\ AheadInv'
    BY <1>1, <2>1 DEF HostInv, BehindInv, AheadInv, TakenPackets, Clean
  <2> QED
    BY <2>2, <2>3
<1> QED
  BY <1>2, <1>3, <1>4 DEF HostInv

-----------------------------------------------------------------------------
(* Writes *)

(* To a sequence of at most one, one more makes at most two. *)
LEMMA OneMore ==
  ASSUME NEW S, NEW s \in Seq(S), NEW e \in S, s = <<>> \/ s = <<s[1]>>
  PROVE  Len(Append(s, e)) \in 0 .. 2
<1>1. Len(s) \in 0 .. 1
  <2>1. CASE s = <<>>
    BY <2>1
  <2>2. CASE s = <<s[1]>>
    <3>1. Len(<<s[1]>>) = 1
      OBVIOUS
    <3> QED
      BY <2>2, <3>1
  <2> QED
    BY <2>1, <2>2
<1>2. Len(Append(s, e)) = Len(s) + 1
  BY AppendProperties
<1> DEFINE n == Len(s)
           m == Len(Append(s, e))
<1>3. n \in 0 .. 1 /\ m = n + 1
  BY <1>1, <1>2
<1> HIDE DEF n, m
<1>4. m \in 0 .. 2
  BY <1>3
<1> QED
  BY <1>4 DEF m

(* A write's frame joins what is in flight, or is not sent. *)
LEMMA WrittenWire ==
  ASSUME HostInv, Written, frame' \in Frame, wire = <<>> \/ wire = <<wire[1]>>
  PROVE  /\ wire' \in Seq(Frame) /\ Len(wire') \in 0 .. 2
         /\ wire = <<>> => wire' = <<>> \/ (wire' = <<wire'[1]>> /\ wire'[1] = frame')
         /\ frame' = NoFrame => wire' = wire
         /\ answer' = att' /\ link' = link
<1>1. wire \in Seq(Frame)
  BY DEF HostInv, RadioTypeOK
<1>2. (wire' = wire \/ wire' = Append(wire, frame')) /\ (frame' = NoFrame => wire' = wire)
  BY DEF Written
<1>3. Len(wire) = 0 \/ Len(wire) = 1
  OBVIOUS
<1>4. Append(wire, frame') \in Seq(Frame) /\ Len(Append(wire, frame')) = Len(wire) + 1
  BY <1>1, AppendProperties
<1>5. wire = <<>> => Append(wire, frame') = <<frame'>>
  OBVIOUS
<1>6. wire' \in Seq(Frame) /\ Len(wire') \in 0 .. 2
  <2>1. CASE wire' = wire
    BY <1>1, <1>3, <2>1
  <2>2. CASE wire' = Append(wire, frame')
    <3>1. wire' \in Seq(Frame)
      BY <1>4, <2>2
    <3>2. Len(wire') \in 0 .. 2
      BY <1>1, <2>2, OneMore
    <3> QED
      BY <3>1, <3>2
  <2> QED
    BY <1>2, <2>1, <2>2
<1>7. answer' = att' /\ link' = link
  BY DEF Written
<1> QED
  BY <1>2, <1>5, <1>6, <1>7

(* Every frame the component sends is one. *)
LEMMA FramesTyped ==
  ASSUME HostInv, NEW p, p.sector \in Nat
  PROVE  /\ NoFrame \in Frame /\ Success(p) \in Frame /\ Nack(p) \in Frame
         /\ CommandAck("started") \in Frame /\ CommandAck("stopped") \in Frame
         /\ Success(p).status = "success"
BY DEF HostInv, RadioTypeOK, Frame, NoFrame, Success, Nack, CommandAck

(* A Start empties the component, and its ACK is all that is in flight. *)
LEMMA SendStartInv == ASSUME HostInv, SendStart PROVE HostInv'
<1>1. /\ hpc = "start" /\ link /\ hpc' = "starting" /\ waiter' = Armed("cmd")
      /\ startOta' = TRUE /\ sequenceError' = FALSE /\ curSector' = 0 /\ curPacket' = 0
      /\ fwBuf' = <<>> /\ delivered' = <<>> /\ att' = "ok" /\ frame' = CommandAck("started")
      /\ UNCHANGED <<outcome, reconnects, current, sector, attempt, jumps, nextPacket, device>>
  BY DEF SendStart, StartWrite, ResetSector, Reply, locals, watch, world
<1>2. wire = <<>> /\ Written /\ frame' \in Frame
  BY <1>1 DEF HostInv, LinkInv, SendStart, Frame, CommandAck
<1>3. /\ wire' \in Seq(Frame) /\ Len(wire') \in 0 .. 2
      /\ wire' = <<>> \/ wire' = <<wire'[1]>>
      /\ answer' = "ok" /\ link' = link
  BY <1>1, <1>2, WrittenWire
<1>4. Armed("cmd") \in Waiter /\ Armed("cmd").chr = "cmd" /\ Armed("cmd").state = "armed"
  BY DEF Armed, Waiter, Frame, NoFrame
<1>5. waiter' \in Waiter /\ waiter'.chr = "cmd" /\ waiter'.state = "armed"
  BY <1>1, <1>4
<1>6. RadioTypeOK'
  BY <1>1, <1>3, <1>5 DEF HostInv, RadioTypeOK
<1>7. TypeOK'
  BY <1>1, <1>3, <1>5 DEF HostInv, TypeOK
<1>8. LinkInv' /\ EndInv'
  BY <1>1, <1>3 DEF HostInv, LinkInv, EndInv
<1>9. StartInv'
  BY <1>1, <1>3, <1>5 DEF StartInv, Clean
<1>10. SendInv' /\ OneSuccess' /\ BehindInv' /\ AheadInv'
  BY <1>1 DEF SendInv, OneSuccess, BehindInv, AheadInv, Sound, Sending
<1> QED
  BY <1>6, <1>7, <1>8, <1>9, <1>10 DEF HostInv

(* A Stop leaves what was delivered alone. *)
LEMMA SendStopInv == ASSUME HostInv, SendStop PROVE HostInv'
<1>1. /\ hpc = "stop" /\ link /\ hpc' = "stopping" /\ waiter' = Armed("cmd")
      /\ curSector' = 0 /\ delivered' = delivered
      /\ att' = "ok" /\ frame' = CommandAck("stopped")
      /\ UNCHANGED <<outcome, reconnects, current, sector, attempt, jumps, nextPacket, device>>
  BY DEF SendStop, StopWrite, Reply, locals, watch, world
<1>2. wire = <<>> /\ Written /\ frame' \in Frame
  BY <1>1 DEF HostInv, LinkInv, SendStop, Frame, CommandAck
<1>3. /\ wire' \in Seq(Frame) /\ Len(wire') \in 0 .. 2 /\ answer' = "ok" /\ link' = link
  BY <1>1, <1>2, WrittenWire
<1>4. Armed("cmd") \in Waiter /\ Armed("cmd").chr = "cmd" /\ Armed("cmd").state = "armed"
  BY DEF Armed, Waiter, Frame, NoFrame
<1>5. waiter' \in Waiter /\ waiter'.chr = "cmd" /\ waiter'.state = "armed"
  BY <1>1, <1>4
<1>6. RadioTypeOK'
  BY <1>1, <1>3, <1>5 DEF HostInv, RadioTypeOK
<1>7. TypeOK'
  BY <1>1, <1>3, <1>5 DEF HostInv, TypeOK
<1>8. LinkInv' /\ StartInv' /\ EndInv'
  BY <1>1, <1>3 DEF HostInv, LinkInv, StartInv, EndInv
<1>9. SendInv' /\ OneSuccess' /\ BehindInv' /\ AheadInv'
  BY <1>1 DEF SendInv, OneSuccess, BehindInv, AheadInv, Sound, Sending
<1> QED
  BY <1>6, <1>7, <1>8, <1>9 DEF HostInv

(* What a packet is. *)
LEMMA PacketMade ==
  ASSUME NEW n \in Sector, NEW k \in Nat
  PROVE  LET p == Packet(n, k, "whole")
         IN /\ p.sector = n /\ p.unit = <<n, k>> /\ p.form = "whole"
            /\ k < Packets[n] => (p.seq = Eof <=> k + 1 = Packets[n])
<1>1. /\ Packets[n] \in Nat \ {0} /\ Packets[n] <= SeqMod /\ SeqMod \in Nat \ {0}
  BY Sizes
<1> QED
  BY <1>1 DEF Packet, PacketSeq, Eof

(* How the component answers a packet of the client: it refuses it; it takes it
   for the next of the sector in hand; or it takes it for the tail, and the whole
   sector is there.                                                            *)
Refused == att' = "err" /\ UNCHANGED <<startOta, curSector, delivered>>
TookBody ==
  /\ Behind /\ att' = "ok" /\ frame' = NoFrame /\ UNCHANGED <<startOta, curSector, delivered>>
  /\ nextPacket + 1 < Packets[current] /\ curPacket' = nextPacket + 1
  /\ fwBuf' = Units(current, nextPacket + 1) /\ ~sequenceError'
TookTail ==
  /\ Behind /\ att' = "ok" /\ frame'.status = "success" /\ UNCHANGED startOta
  /\ nextPacket + 1 = Packets[current] /\ Clean'
  /\ delivered' = Image(current + 1) /\ curSector' = current + 1

(* A component that has the sector in hand refuses every packet of it. *)
LEMMA AheadRefuses ==
  ASSUME HostInv, Ahead, hpc = "packet", link,
         NEW p, p.sector = current, WriteChr(p)
  PROVE  Refused
<1>1. current \in Sector /\ current \in Nat /\ startOta /\ curSector = Len(delivered)
  BY Sizes DEF HostInv, SendInv, Sending
<1>2. curSector = current + 1
  BY <1>1, ImageGrows DEF Ahead
<1>3. ~RightSector(p)
  BY <1>1, <1>2, Sizes DEF RightSector, LastMark
<1> QED
  BY <1>1, <1>3 DEF Refused, WriteChr, Ignored, Runt, WrongSector, StaleEof, WrongPacket,
     Damaged, NoBuffer, BodyTaken, TailTaken, Copied, InOrder, Refuse, Reply, component

(* One that is behind has followed the client through the sector. *)
LEMMA BehindTakes ==
  ASSUME HostInv, Behind, hpc = "packet", link,
         NEW p, WriteChr(p), p = Packet(current, nextPacket, "whole")
  PROVE  Refused \/ TookBody \/ TookTail
<1>1. /\ current \in Sector /\ current \in Nat /\ startOta /\ curSector = Len(delivered)
      /\ nextPacket \in Nat
  BY Sizes DEF HostInv, SendInv, Sending, RadioTypeOK
<1>2. Sound /\ TakenPackets = nextPacket
  BY DEF Sound, Sending, TakenPackets
<1>3. /\ curPacket = nextPacket /\ fwBuf = Units(current, nextPacket) /\ ~sequenceError
      /\ nextPacket < Packets[current]
  BY <1>2 DEF HostInv, BehindInv
<1>4. curSector = current
  BY <1>1, ImageGrows DEF Behind
<1>5. /\ p.sector = current /\ p.unit = <<current, nextPacket>>
      /\ p.seq = Eof <=> nextPacket + 1 = Packets[current]
  BY <1>1, <1>3, PacketMade
<1>6. Append(fwBuf, p.unit) = Units(current, nextPacket + 1)
  BY <1>1, <1>3, <1>5, UnitsGrow
<1>7. CASE BodyTaken(p)
  <2>1. /\ p.seq # Eof /\ fwBuf' = Append(fwBuf, p.unit) /\ curPacket' = curPacket + 1
        /\ sequenceError' = FALSE /\ att' = "ok" /\ frame' = NoFrame
        /\ UNCHANGED <<startOta, curSector, delivered>>
    BY <1>7 DEF BodyTaken, Reply
  <2>2. nextPacket + 1 < Packets[current]
    BY <1>1, <1>3, <1>5, <2>1, Sizes
  <2> QED
    BY <1>3, <1>6, <2>1, <2>2 DEF TookBody
<1>8. CASE TailTaken(p)
  <2>1. /\ p.seq = Eof /\ delivered' = Append(delivered, SectorOut(Append(fwBuf, p.unit)))
        /\ curSector' = curSector + 1 /\ curPacket' = 0 /\ fwBuf' = <<>>
        /\ sequenceError' = FALSE /\ att' = "ok" /\ frame' = Success(p)
        /\ UNCHANGED startOta
    BY <1>8 DEF TailTaken, Reply
  <2>2. nextPacket + 1 = Packets[current]
    BY <1>5, <2>1
  <2>3. Append(fwBuf, p.unit) = SectorData(current)
    BY <1>1, <1>6, <2>2, AllUnits
  <2>4. Len(Append(fwBuf, p.unit)) = Packets[current]
    <3>1. nextPacket + 1 \in Nat
      BY <1>1
    <3>2. Len(Units(current, nextPacket + 1)) = nextPacket + 1
      BY <3>1, UnitsGrow
    <3> QED
      BY <1>6, <2>2, <3>2
  <2>5. SectorOut(Append(fwBuf, p.unit)) = SectorData(current)
    BY <1>1, <2>3, <2>4, Sizes DEF SectorOut
  <2>6. delivered' = Image(current + 1)
    BY <1>1, <2>1, <2>5, ImageGrows DEF Behind
  <2>7. frame'.status = "success"
    BY <2>1 DEF Success
  <2> QED
    BY <1>4, <2>1, <2>2, <2>6, <2>7 DEF TookTail, Clean
<1>9. CASE ~BodyTaken(p) /\ ~TailTaken(p)
  BY <1>1, <1>9 DEF Refused, WriteChr, Ignored, Runt, WrongSector, StaleEof, WrongPacket,
     Damaged, NoBuffer, Refuse, Reply, component
<1> QED
  BY <1>7, <1>8, <1>9

(* Every packet sent keeps the two in step, or fails and ends the run. *)
LEMMA SendPacketInv == ASSUME HostInv, SendPacket PROVE HostInv'
<1> DEFINE p == Packet(sector, nextPacket, "whole")
<1>1. /\ hpc = "packet" /\ link /\ hpc' = "writing" /\ Written /\ WriteChr(p)
      /\ UNCHANGED <<outcome, reconnects, current, sector, attempt, jumps, nextPacket,
                     waiter, device>>
  BY DEF SendPacket, locals, watch, world
<1>2. Sound
  BY <1>1 DEF Sound, Sending
<1>3. /\ sector = current /\ current \in Sector /\ current \in Nat /\ (Behind \/ Ahead)
      /\ startOta /\ nextPacket \in Nat /\ curSector \in Nat
  BY <1>1, Sizes DEF HostInv, SendInv, Sending, RadioTypeOK
<1>4. p.sector = current
  BY <1>3, PacketMade
<1>5. p = Packet(current, nextPacket, "whole")
  BY <1>3
<1> HIDE DEF p
<1>6. Refused \/ TookBody \/ TookTail
  BY <1>1, <1>3, <1>4, <1>5, AheadRefuses, BehindTakes
<1>7. frame' \in Frame /\ curSector' \in Nat
  <2>1. frame' \in {NoFrame, Success(p), Nack(p)} /\ curSector' \in {curSector, curSector + 1}
    BY <1>1 DEF WriteChr, Ignored, Runt, WrongSector, StaleEof, WrongPacket, Damaged, NoBuffer,
       BodyTaken, TailTaken, Refuse, Reply, component
  <2> QED
    BY <1>3, <1>4, <2>1, FramesTyped
<1>8. /\ wire = <<>> \/ wire = <<wire[1]>>
      /\ Behind => wire = <<>> /\ waiter.state # "set" /\ attempt = 0
  BY <1>1, <1>2 DEF HostInv, OneSuccess, BehindInv
<1>9. /\ wire' \in Seq(Frame) /\ Len(wire') \in 0 .. 2
      /\ wire = <<>> => wire' = <<>> \/ (wire' = <<wire'[1]>> /\ wire'[1] = frame')
      /\ frame' = NoFrame => wire' = wire
      /\ answer' = att' /\ link' = link
  BY <1>1, <1>7, <1>8, WrittenWire
<1>10. att' \in {"ok", "err"}
  BY <1>6 DEF Refused, TookBody, TookTail
<1>11. RadioTypeOK'
  BY <1>1, <1>7, <1>9 DEF HostInv, RadioTypeOK
<1>12. TypeOK'
  BY <1>1, <1>9, <1>10 DEF HostInv, TypeOK
<1>13. LinkInv' /\ StartInv' /\ EndInv'
  BY <1>1, <1>9 DEF HostInv, LinkInv, StartInv, EndInv
<1>14. TakenPackets' = nextPacket + 1
  BY <1>1 DEF TakenPackets
<1>15. CASE Refused
  <2>1. Behind' = Behind /\ Ahead' = Ahead
    BY <1>1, <1>15 DEF Behind, Ahead, Refused
  <2>2. ~Sound'
    BY <1>1, <1>9, <1>15 DEF Sound, Refused
  <2>3. SendInv'
    BY <1>1, <1>15, <2>1 DEF HostInv, SendInv, Refused, Sending
  <2> QED
    BY <1>11, <1>12, <1>13, <2>2, <2>3 DEF HostInv, OneSuccess, BehindInv, AheadInv
<1>16. CASE TookBody
  <2>1. Behind' = Behind /\ Ahead' = Ahead /\ Behind
    BY <1>1, <1>16 DEF Behind, Ahead, TookBody
  <2>2. ~Ahead'
    BY <1>3, <2>1, ImagesDiffer DEF Behind, Ahead
  <2>3. SendInv'
    BY <1>1, <1>16, <2>1 DEF HostInv, SendInv, TookBody, Sending
  <2>4. wire' = <<>>
    BY <1>8, <1>9, <1>16, <2>1 DEF TookBody
  <2>5. OneSuccess'
    BY <1>1, <1>8, <2>1, <2>4 DEF OneSuccess
  <2>6. /\ curPacket' = TakenPackets' /\ fwBuf' = Units(current', TakenPackets')
        /\ ~sequenceError' /\ TakenPackets' < Packets[current']
    BY <1>1, <1>14, <1>16 DEF TookBody
  <2>7. BehindInv'
    BY <1>1, <1>8, <2>1, <2>4, <2>6 DEF BehindInv
  <2>8. AheadInv'
    BY <2>2 DEF AheadInv
  <2> QED
    BY <1>11, <1>12, <1>13, <2>3, <2>5, <2>7, <2>8 DEF HostInv
<1>17. CASE TookTail
  <2>1. Behind /\ Ahead'
    BY <1>1, <1>17 DEF Ahead, TookTail
  <2>2. Image(current) # Image(current + 1)
    BY <1>3, ImagesDiffer
  <2>3. ~Behind'
    BY <1>1, <1>17, <2>2 DEF Behind, TookTail
  <2>4. Len(delivered') = current + 1
    BY <1>3, <1>17, ImageGrows DEF TookTail
  <2>5. SendInv'
    BY <1>1, <1>17, <2>1, <2>4 DEF HostInv, SendInv, TookTail, Sending
  <2>6. OneSuccess'
    BY <1>1, <1>8, <1>9, <1>17, <2>1 DEF OneSuccess, TookTail
  <2>7. BehindInv'
    BY <2>3 DEF BehindInv
  <2>8. AheadInv'
    BY <1>1, <1>14, <1>17 DEF AheadInv, TookTail
  <2> QED
    BY <1>11, <1>12, <1>13, <2>5, <2>6, <2>7, <2>8 DEF HostInv
<1> QED
  BY <1>6, <1>15, <1>16, <1>17

-----------------------------------------------------------------------------
(* The invariant holds before the first run. *)
LEMMA InitInv == Init => HostInv
<1> SUFFICES ASSUME Init PROVE HostInv
  OBVIOUS
<1>1. /\ curSector = 0 /\ delivered = <<>>
      /\ hpc = "connect" /\ outcome = "running" /\ reconnects = 1
      /\ current = 0 /\ sector = 0 /\ attempt = 0 /\ jumps = 0 /\ nextPacket = 0
      /\ waiter = Idle /\ answer = "none" /\ wire = <<>> /\ link = FALSE /\ device = "up"
  BY DEF Init, NimbleInit
<1>2. /\ waiter \in Waiter /\ waiter.chr = "none" /\ waiter.state = "none"
      /\ wire \in Seq(Frame) /\ Len(wire) = 0
  BY <1>1 DEF Idle, Waiter, Frame, NoFrame
<1>3. 0 \in 0 .. Sectors /\ 0 \in 0 .. AckRetries /\ 0 \in 0 .. MaxJumps
  BY Sizes
<1>4. RadioTypeOK
  BY <1>1, <1>2 DEF RadioTypeOK
<1>5. TypeOK
  BY <1>1, <1>2, <1>3 DEF TypeOK
<1>6. LinkInv /\ StartInv /\ EndInv
  BY <1>1 DEF LinkInv, StartInv, EndInv
<1>7. SendInv /\ OneSuccess /\ BehindInv /\ AheadInv
  BY <1>1 DEF SendInv, OneSuccess, BehindInv, AheadInv, Sound, Sending
<1> QED
  BY <1>4, <1>5, <1>6, <1>7 DEF HostInv

(* A step that changes nothing keeps the invariant. *)
LEMMA StutterInv == ASSUME HostInv, UNCHANGED vars PROVE HostInv'
<1>1. UNCHANGED <<startOta, curSector, curPacket, sequenceError, fwBuf, delivered, hpc, outcome,
                  reconnects, current, sector, attempt, jumps, nextPacket,
                  waiter, answer, wire, link, device>>
  BY DEF vars, nimbleVars, component, hostVars, locals, radio, world
<1>2. TypeOK' /\ RadioTypeOK'
  BY <1>1 DEF HostInv, TypeOK, RadioTypeOK
<1>3. LinkInv' /\ StartInv' /\ EndInv'
  BY <1>1 DEF HostInv, LinkInv, StartInv, EndInv, Clean
<1>4. Behind' = Behind /\ Ahead' = Ahead /\ Sound' = Sound
  BY <1>1 DEF Behind, Ahead, Sound
<1>5. SendInv' /\ OneSuccess'
  BY <1>1, <1>4 DEF HostInv, SendInv, OneSuccess
<1>6. BehindInv' /\ AheadInv'
  BY <1>1, <1>4 DEF HostInv, BehindInv, AheadInv, TakenPackets, Clean
<1> QED
  BY <1>2, <1>3, <1>5, <1>6 DEF HostInv

(* Every step keeps the invariant: the client's, the radio's and the device's. *)
LEMMA StepInv == ASSUME HostInv, [Next]_vars PROVE HostInv'
<1>1. CASE Host
  BY <1>1, ConnectInv, ConnectFailsInv, RaisesInv, SendStartInv, AnsweredInv, StartedInv,
     BeginAttemptInv, SendPacketInv, PacketWrittenInv, AckTimedOutInv, AcknowledgedInv,
     SendStopInv, StoppedInv, WatchInv DEF Host
<1>2. CASE Probe \/ Rerun \/ Deliver \/ Expire \/ Drop \/ Reboot \/ ComeBack
  BY <1>2, WatchInv, RerunInv, DeliverInv, ExpireInv, DropInv, ComeBackInv
<1>3. CASE UNCHANGED vars
  BY <1>3, StutterInv
<1> QED
  BY <1>1, <1>2, <1>3 DEF Next

(* The client and the component agree on how much of the sector in hand has been
   taken, for as long as the connection lasts, and on how many sectors there are
   for as long as the run does.                                                *)
THEOREM HostInvariance == Spec => []HostInv
<1>1. Init => HostInv
  BY InitInv
<1>2. HostInv /\ [Next]_vars => HostInv'
  BY StepInv
<1> QED
  BY <1>1, <1>2, PTL DEF Spec

(* So the client is never ahead of the device, and never more than the sector in
   hand behind it.                                                             *)
THEOREM HostStaysInStep == Spec => []HostInStep
<1>1. HostInv => HostInStep
  <2> SUFFICES ASSUME HostInv PROVE HostInStep
    OBVIOUS
  <2>1. TypeOK
    BY DEF HostInv
  <2>2. ASSUME hpc \in Sending
        PROVE  /\ current \in Nat /\ (Behind \/ Ahead)
               /\ Behind => Len(delivered) = current
               /\ Ahead => Len(delivered) = current + 1
    <3>1. current \in Nat /\ (Behind \/ Ahead)
      BY <2>2, Sizes DEF HostInv, SendInv
    <3> QED
      BY <3>1, ImageGrows DEF Behind, Ahead
  <2>3. hpc \in Sending => Len(delivered) \in {current, current + 1}
    BY <2>2
  <2>4. ASSUME hpc \in {"sector", "packet"}, attempt = 0
        PROVE  Len(delivered) = current
    <3>1. hpc \in Sending /\ Sound
      BY <2>4 DEF Sound, Sending
    <3>2. ~Ahead
      BY <2>4, <3>1 DEF HostInv, AheadInv
    <3> QED
      BY <2>2, <3>1, <3>2
  <2> QED
    BY <2>1, <2>3, <2>4 DEF HostInStep
<1> QED
  BY <1>1, HostInvariance, PTL

(* Exit code 0 means that the whole image was handed over in this very run. *)
THEOREM SuccessIsTheImage == Spec => []SuccessHadWholeImage
<1>1. HostInv => SuccessHadWholeImage
  BY DEF HostInv, EndInv, SuccessHadWholeImage, Image
<1> QED
  BY <1>1, HostInvariance, PTL

(* A NACK never sends the client to another sector: the write that drew it failed,
   and the failure ends the run.  The jump in send_sector is dead code.         *)
THEOREM NoJump == Spec => [](hpc = "await" /\ waiter.state = "set" => waiter.frame.status = "success")
<1>1. HostInv => (hpc = "await" /\ waiter.state = "set" => waiter.frame.status = "success")
  BY DEF HostInv, OneSuccess, Sound, Sending
<1> QED
  BY <1>1, HostInvariance, PTL

-----------------------------------------------------------------------------
(* A number below the modulus is its own remainder. *)
LEMMA SmallMod == ASSUME NEW a \in Nat, NEW b \in Nat \ {0}, a < b PROVE a % b = a
BY SMTT(30)

(* The piece cut off is some of what is left, all of it or a payload. *)
LEMMA PieceFits ==
  ASSUME PlanTypeOK, offset < length,
         NEW piece, piece = IF length - offset < Chunk THEN length - offset ELSE Chunk
  PROVE  /\ piece \in Nat \ {0} /\ offset + piece <= length
         /\ offset + piece < length => piece >= MinPayload
         /\ (length - offset - piece = 0) <=> (offset + piece = length)
BY DEF PlanTypeOK, Chunk, AttHeader, Header, MinPayload, MinMtu

(* A sector has few packets: each one before the tail is numbered by its place. *)
LEMMA NumbersFit ==
  ASSUME PlanTypeOK, FewPackets, offset < length
  PROVE  /\ Len(packets) \in Nat /\ Len(packets) % 256 = Len(packets)
         /\ Len(packets) # TailSeq
<1> DEFINE n == Len(packets)
<1>1. n \in Nat
  BY DEF PlanTypeOK
<1>2. 17 * n < 4096
  BY DEF PlanTypeOK, FewPackets, MinPayload, MinMtu, AttHeader, Header, SectorBytes
<1> HIDE DEF n
<1>3. n < 255
  BY <1>1, <1>2
<1>4. n % 256 = n
  <2> DEFINE m == 256
  <2>1. m \in Nat \ {0} /\ n < m
    BY <1>1, <1>3
  <2> HIDE DEF m
  <2>2. n % m = n
    BY <1>1, <2>1, SmallMod
  <2> QED
    BY <2>2 DEF m
<1>5. n # TailSeq
  BY <1>1, <1>3 DEF TailSeq
<1> QED
  BY <1>1, <1>4, <1>5 DEF n

(* Cutting one more packet off extends the plan to the new offset. *)
LEMMA CutInv == ASSUME PlanInv, Cut PROVE PlanInv'
<1> DEFINE piece == IF length - offset < Chunk THEN length - offset ELSE Chunk
           last == IsLast(length - offset - piece)
           n == Len(packets)
           p == [from |-> offset, size |-> piece, crc |-> last,
                 seq |-> IF last THEN TailSeq ELSE Len(packets) % 256]
<1>1. /\ ~done /\ offset < length /\ offset' = offset + piece
      /\ packets' = Append(packets, p) /\ UNCHANGED <<length, mtu, done>>
  BY DEF Cut
<1>2. /\ piece \in Nat \ {0} /\ offset + piece <= length
      /\ offset + piece < length => piece >= MinPayload
      /\ (length - offset - piece = 0) <=> (offset + piece = length)
  BY <1>1, PieceFits DEF PlanInv
<1>3. last \in BOOLEAN /\ (last <=> offset + piece = length)
  BY <1>2 DEF IsLast
<1>4. n \in Nat /\ n % 256 = n /\ n # TailSeq
  BY <1>1, NumbersFit DEF PlanInv
<1>5. /\ p.from = offset /\ p.size = piece /\ p.crc = last
      /\ ~last => p.seq = n
      /\ p \in PacketRecord
  BY <1>1, <1>2, <1>3, <1>4 DEF PacketRecord, TailSeq, PlanInv, PlanTypeOK
<1> HIDE DEF piece, last, p
<1>6. packets \in Seq(PacketRecord)
  BY DEF PlanInv, PlanTypeOK
<1>7. /\ packets' \in Seq(PacketRecord) /\ Len(packets') = n + 1
      /\ \A i \in 1 .. n : packets'[i] = packets[i]
      /\ packets'[n + 1] = p
  BY <1>1, <1>5, <1>6, AppendProperties
<1>8. packets = <<>> <=> n = 0
  BY <1>6, EmptySeq
<1> HIDE DEF n
<1>9. PlanTypeOK'
  BY <1>1, <1>2, <1>7 DEF PlanInv, PlanTypeOK
<1>10. packets' # <<>>
  BY <1>4, <1>7, EmptySeq
<1>11. Chained'
  <2>1. packets'[1].from = 0
    <3>1. CASE n = 0
      BY <1>5, <1>7, <1>8, <3>1 DEF PlanInv, FewPackets
    <3>2. CASE n > 0
      BY <1>4, <1>7, <1>8, <3>2 DEF PlanInv, Chained
    <3> QED
      BY <1>4, <3>1, <3>2
  <2>2. ASSUME NEW i \in 1 .. n
        PROVE  packets'[i + 1].from = packets'[i].from + packets'[i].size
    <3>1. CASE i < n
      <4>1. packets[i + 1].from = packets[i].from + packets[i].size
        BY <1>4, <1>8, <3>1 DEF PlanInv, Chained, n
      <4>2. packets'[i] = packets[i] /\ packets'[i + 1] = packets[i + 1]
        BY <1>4, <1>7, <3>1
      <4> QED
        BY <4>1, <4>2
    <3>2. CASE i = n
      BY <1>4, <1>5, <1>7, <1>8, <3>2 DEF PlanInv, Chained, n
    <3> QED
      BY <1>4, <3>1, <3>2
  <2>3. packets'[n + 1].from + packets'[n + 1].size = offset'
    BY <1>1, <1>5, <1>7
  <2> QED
    BY <1>4, <1>7, <2>1, <2>2, <2>3 DEF Chained
<1>12. TailMarked'
  <2>1. ASSUME NEW i \in 1 .. n
        PROVE  ~packets'[i].crc /\ packets'[i].seq = i - 1 /\ packets'[i].seq # TailSeq
    BY <1>1, <1>7, <2>1 DEF PlanInv, TailMarked, PlanTypeOK, n
  <2>2. /\ packets'[n + 1].crc <=> offset' = length'
        /\ ~packets'[n + 1].crc => packets'[n + 1].seq = n /\ n # TailSeq
    BY <1>1, <1>3, <1>4, <1>5, <1>7
  <2>3. ASSUME NEW i \in 1 .. n + 1 PROVE i \in 1 .. n \/ i = n + 1
    BY <1>4
  <2> QED
    BY <1>4, <1>7, <2>1, <2>2, <2>3 DEF TailMarked
<1>13. FewPackets'
  <2>1. offset' < length' => MinPayload * (n + 1) <= offset'
    BY <1>1, <1>2, <1>4
       DEF PlanInv, PlanTypeOK, FewPackets, n, MinPayload, MinMtu, AttHeader, Header
  <2> QED
    BY <1>1, <1>7, <1>10, <2>1 DEF FewPackets
<1> QED
  BY <1>9, <1>11, <1>12, <1>13 DEF PlanInv

(* The end of the loop: a sector without data still gets its tail. *)
LEMMA FinishInv == ASSUME PlanInv, Finish PROVE PlanInv'
<1> DEFINE p == [from |-> 0, size |-> 0, crc |-> TRUE, seq |-> TailSeq]
<1>1. /\ offset = length /\ done' = TRUE /\ UNCHANGED <<length, mtu, offset>>
      /\ packets' = IF packets = <<>> THEN <<p>> ELSE packets
  BY DEF Finish, PlanInv, PlanTypeOK
<1>2. CASE packets = <<>>
  <2>1. offset = 0 /\ packets' = <<p>>
    BY <1>1, <1>2 DEF PlanInv, FewPackets
  <2>2. p \in PacketRecord /\ p.from = 0 /\ p.size = 0 /\ p.crc = TRUE
    BY DEF PacketRecord, TailSeq
  <2> HIDE DEF p
  <2>3. packets' \in Seq(PacketRecord) /\ Len(packets') = 1 /\ packets'[1] = p /\ packets' # <<>>
    BY <2>1, <2>2
  <2>4. PlanTypeOK'
    BY <1>1, <2>3 DEF PlanInv, PlanTypeOK
  <2>5. Chained' /\ FewPackets'
    <3>1. ~(offset' < length') /\ offset' = length'
      BY <1>1 DEF PlanInv, PlanTypeOK
    <3>2. FewPackets'
      BY <2>3, <3>1 DEF FewPackets
    <3>3. packets'[Len(packets')].from + packets'[Len(packets')].size = offset'
      BY <1>1, <2>1, <2>2, <2>3
    <3>4. Len(packets') - 1 = 0
      BY <2>3
    <3>5. Chained'
      BY <2>2, <2>3, <3>3, <3>4 DEF Chained
    <3> QED
      BY <3>2, <3>5
  <2>6. TailMarked'
    <3> SUFFICES ASSUME NEW i \in 1 .. Len(packets') PROVE i = Len(packets') /\ packets'[i].crc
      BY <1>1 DEF TailMarked
    <3>1. i = 1
      BY <2>3
    <3> QED
      BY <2>2, <2>3, <3>1
  <2> QED
    BY <2>4, <2>5, <2>6 DEF PlanInv
<1>3. CASE packets # <<>>
  <2>1. packets' = packets
    BY <1>1, <1>3
  <2> QED
    BY <1>1, <1>3, <2>1 DEF PlanInv, PlanTypeOK, Chained, TailMarked, FewPackets
<1> QED
  BY <1>2, <1>3

(* Nothing is cut at first. *)
LEMMA PlanInitInv == PlanInit => PlanInv
<1> SUFFICES ASSUME PlanInit PROVE PlanInv
  OBVIOUS
<1>1. length \in Nat /\ length <= SectorBytes
  <2>1. SectorBytes \in Nat
    BY DEF SectorBytes
  <2>2. length \in 0 .. SectorBytes
    BY PlanAssumption DEF PlanInit
  <2> QED
    BY <2>1, <2>2
<1>2. mtu \in Nat /\ mtu >= MinMtu
  BY PlanAssumption DEF PlanInit
<1>3. offset = 0 /\ packets = <<>> /\ done = FALSE /\ Len(packets) = 0
  BY DEF PlanInit
<1>4. PlanTypeOK
  <2>1. packets \in Seq(PacketRecord)
    BY <1>3
  <2>2. done \in BOOLEAN
    BY <1>3
  <2>3. offset \in Nat /\ offset <= length
    BY <1>1, <1>3
  <2> QED
    BY <1>1, <1>2, <2>1, <2>2, <2>3, Zenon DEF PlanTypeOK
<1>5. Chained /\ TailMarked
  BY <1>3 DEF Chained, TailMarked
<1>6. FewPackets
  BY <1>3 DEF FewPackets, MinPayload, MinMtu, AttHeader, Header
<1> QED
  BY <1>4, <1>5, <1>6 DEF PlanInv

(* Every turn of the loop keeps to the plan. *)
THEOREM PlanInvariance == PlanSpec => []PlanInv
<1>1. PlanInit => PlanInv
  BY PlanInitInv
<1>2. PlanInv /\ [PlanNext]_planVars => PlanInv'
  <2>1. ASSUME PlanInv, UNCHANGED planVars PROVE PlanInv'
    BY <2>1 DEF planVars, PlanInv, PlanTypeOK, Chained, TailMarked, FewPackets
  <2> QED
    BY <2>1, CutInv, FinishInv DEF PlanNext
<1> QED
  BY <1>1, <1>2, PTL DEF PlanSpec

(* The packets are the sector, whatever its length and at any MTU from 23 up, and
   each is numbered as the component counts.                                    *)
THEOREM PlanIsRight == PlanSpec => []PlanIsTheSector
<1>1. PlanInv => PlanIsTheSector
  <2> SUFFICES ASSUME PlanInv PROVE PlanIsTheSector
    OBVIOUS
  <2>1. DOMAIN packets = 1 .. Len(packets)
    BY DEF PlanInv, PlanTypeOK
  <2> QED
    BY <2>1 DEF PlanInv, Chained, TailMarked, FewPackets, PlanIsTheSector
<1> QED
  BY <1>1, PlanInvariance, PTL
=============================================================================
