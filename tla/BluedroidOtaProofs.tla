------------------------- MODULE BluedroidOtaProofs -------------------------
(***************************************************************************)
(* Proofs about the Bluedroid variant, for every image of at most 65535     *)
(* sectors, every payload a write can carry, and any number of transfers,   *)
(* links and waiting events.                                                *)
(*                                                                         *)
(* A step takes at most one event from the front of the queue and appends   *)
(* some (Moved).  Each part of BluedroidInv is proved for the steps that    *)
(* have nothing to do with a transfer (Idle), for the writes that are       *)
(* handled, and for what the host sends; the numbering of the packets that  *)
(* wait is shifted by what was taken and extended by what was sent.  From   *)
(* the invariant: the profiles are apart, the buffer has room, and the      *)
(* first transfer is a stream of whole sectors.                             *)
(***************************************************************************)
EXTENDS BluedroidOta, SequenceTheorems, FiniteSetTheorems, TLAPS

(* The constants are the numbers they should be. *)
LEMMA Sizes ==
  /\ ImageBytes \in Nat \ {0} /\ Chunk \in Nat /\ Chunk >= 17
  /\ MaxStarts \in Nat /\ MaxLinks \in Nat /\ MaxAhead \in Nat /\ Sectors <= LastMark
BY BluedroidAssumption DEF MinPayload, DefaultMtu

(* Division that rounds up *)
LEMMA RoundsUp ==
  ASSUME NEW a \in Nat \ {0}, NEW c \in Nat \ {0}, NEW q, q = (a + c - 1) \div c
  PROVE  q \in Nat \ {0} /\ (q - 1) * c < a /\ a <= q * c
BY SMTT(30)

(* A product of naturals grows with either factor. *)
LEMMA Grows == ASSUME NEW a \in Nat, NEW b \in Nat, NEW c \in Nat, a <= b
               PROVE  a * c \in Nat /\ a * c <= b * c /\ c * a <= c * b
BY SMTT(30)

(* The sectors cover the image. *)
LEMMA SectorCount ==
  /\ Sectors \in Nat \ {0} /\ (Sectors - 1) * SectorBytes < ImageBytes
  /\ ImageBytes <= Sectors * SectorBytes
<1>1. SectorBytes \in Nat \ {0}
  BY DEF SectorBytes
<1> QED
  BY <1>1, Sizes, RoundsUp DEF Sectors

(* A sector holds something, and at most SectorBytes. *)
LEMMA SectorSize ==
  ASSUME NEW n \in Nat, n < Sectors
  PROVE  Bytes(n) \in Nat \ {0} /\ Bytes(n) <= SectorBytes
<1> DEFINE m == Sectors
<1>1. m \in Nat \ {0} /\ (m - 1) * SectorBytes < ImageBytes /\ ImageBytes <= m * SectorBytes
  BY SectorCount
<1>2. Bytes(n) = IF n + 1 < m THEN SectorBytes ELSE ImageBytes - n * SectorBytes
  BY DEF Bytes
<1> HIDE DEF m
<1>3. CASE n + 1 < m
  BY <1>2, <1>3 DEF SectorBytes
<1>4. CASE ~(n + 1 < m)
  <2>1. n = m - 1
    BY <1>1, <1>4 DEF m
  <2> QED
    BY <1>1, <1>2, <1>4, <2>1, Sizes DEF SectorBytes
<1> QED
  BY <1>3, <1>4

(* It is sent in fewer packets than there are sequence numbers, of which all but the
   last are full.                                                                   *)
LEMMA PacketCount ==
  ASSUME NEW n \in Nat, n < Sectors
  PROVE  /\ Packets(n) \in Nat \ {0} /\ Packets(n) < Eof
         /\ (Packets(n) - 1) * Chunk < Bytes(n)
<1> DEFINE q == Packets(n)
<1>1. q \in Nat \ {0} /\ (q - 1) * Chunk < Bytes(n)
  <2> DEFINE b == Bytes(n)
             c == Chunk
  <2>1. b \in Nat \ {0} /\ c \in Nat \ {0} /\ q = (b + c - 1) \div c
    BY SectorSize, Sizes DEF Packets
  <2> HIDE DEF b, c, q
  <2>2. q \in Nat \ {0} /\ (q - 1) * c < b
    BY <2>1, RoundsUp
  <2> QED
    BY <2>2 DEF b, c
<1>2. Bytes(n) \in Nat /\ Bytes(n) <= 4096
  BY SectorSize DEF SectorBytes
<1> HIDE DEF q
<1>3. (q - 1) * 17 <= (q - 1) * Chunk
  BY <1>1, Sizes, Grows
<1>4. (q - 1) * Chunk \in Nat
  BY <1>1, Sizes, Grows
<1>5. q < 255
  BY <1>1, <1>2, <1>3, <1>4
<1> QED
  BY <1>1, <1>5 DEF q, Eof

(* A packet of a sector in its place ends within the buffer; its sequence number says
   whether it is the last.                                                         *)
LEMMA PacketPlace ==
  ASSUME NEW n \in Nat, n < Sectors, NEW k \in Nat, k < Packets(n)
  PROVE  /\ Packet(n, k) \in PacketRecord /\ Packet(n, k).unit = <<n, k>>
         /\ Packet(n, k).sector = n
         /\ Packet(n, k).seq = Eof <=> k + 1 = Packets(n)
         /\ k + 1 < Packets(n) => Packet(n, k).len = Chunk
         /\ k * Chunk \in Nat /\ k * Chunk < SectorBytes
         /\ k * Chunk + Packet(n, k).len <= BufLength
<1> DEFINE q == Packets(n)
           b == Bytes(n)
           c == k * Chunk
<1>1. q \in Nat \ {0} /\ q < Eof /\ (q - 1) * Chunk < b
  BY PacketCount
<1>2. b \in Nat \ {0} /\ b <= SectorBytes
  BY SectorSize
<1>3. c \in Nat /\ (k + 1) * Chunk = c + Chunk /\ Chunk \in Nat
  BY Sizes, Grows
<1>4. c <= (q - 1) * Chunk /\ (q - 1) * Chunk \in Nat
  BY <1>1, Sizes, Grows
<1>5. k + 1 < q => c + Chunk <= (q - 1) * Chunk
  BY <1>1, <1>3, Sizes, Grows
<1>6. Packet(n, k) = [sector |-> n, seq |-> IF k = q - 1 THEN Eof ELSE k, unit |-> <<n, k>>,
                      len |-> IF k = q - 1 THEN b - c + CrcBytes ELSE Chunk]
  BY DEF Packet
<1> HIDE DEF q, b, c
<1>7. c < b /\ (k + 1 < q => c + Chunk < b) /\ k < q
  <2>1. k < q
    BY DEF q
  <2> QED
    BY <2>1, <1>1, <1>2, <1>3, <1>4, <1>5
<1>8. (IF k = q - 1 THEN b - c + CrcBytes ELSE Chunk) \in Nat
  BY <1>1, <1>2, <1>3, <1>7 DEF CrcBytes
<1>9. c + (IF k = q - 1 THEN b - c + CrcBytes ELSE Chunk) <= BufLength
  BY <1>1, <1>2, <1>3, <1>7 DEF CrcBytes, BufLength, SectorBytes
<1>10. Packet(n, k) \in PacketRecord
  BY <1>6, <1>8 DEF PacketRecord, Eof
<1>11. c < SectorBytes
  BY <1>2, <1>3, <1>7 DEF SectorBytes
<1>12. (IF k = q - 1 THEN Eof ELSE k) = Eof <=> k + 1 = q
  BY <1>1, <1>7 DEF Eof
<1>13. k + 1 < q => ~(k = q - 1)
  BY <1>1
<1> QED
  BY <1>3, <1>6, <1>8, <1>9, <1>10, <1>11, <1>12, <1>13 DEF q, b, c

(* A queue with its first element taken off *)
LEMMA Popped ==
  ASSUME NEW q, Sequence(q), q # <<>>
  PROVE  /\ Sequence(Tail(q)) /\ Len(q) \in Nat \ {0} /\ Len(Tail(q)) = Len(q) - 1
         /\ Head(q) = q[1]
         /\ \A i \in 1 .. Len(q) - 1 : Tail(q)[i] = q[i + 1]
<1> DEFINE S == {q[i] : i \in 1 .. Len(q)}
<1>1. q \in Seq(S)
  BY DEF Sequence
<1>2. Len(q) \in Nat \ {0}
  BY <1>1, EmptySeq
<1>3. Tail(q) \in Seq(S) /\ Len(Tail(q)) = Len(q) - 1 /\ \A i \in 1 .. Len(q) - 1 : Tail(q)[i] = q[i + 1]
  BY <1>1, HeadTailProperties
<1>4. Sequence(Tail(q))
  <2> DEFINE r == Tail(q)
  <2>1. r \in Seq(S)
    BY <1>3
  <2> HIDE DEF r, S
  <2>2. Sequence(r)
    BY <2>1 DEF Sequence
  <2> QED
    BY <2>2 DEF r
<1> QED
  BY <1>1, <1>2, <1>3, <1>4, HeadTailProperties

(* Two queues one after the other *)
LEMMA Joined ==
  ASSUME NEW q, NEW r, Sequence(q), Sequence(r)
  PROVE  /\ Sequence(q \o r) /\ Len(q \o r) = Len(q) + Len(r)
         /\ \A i \in 1 .. Len(q) : (q \o r)[i] = q[i]
         /\ \A i \in 1 .. Len(r) : (q \o r)[Len(q) + i] = r[i]
<1> DEFINE S == {q[i] : i \in 1 .. Len(q)} \cup {r[i] : i \in 1 .. Len(r)}
<1>1. q \in Seq(S) /\ r \in Seq(S)
  BY DEF Sequence
<1> HIDE DEF S
<1>2. q \o r \in Seq(S) /\ Len(q \o r) = Len(q) + Len(r)
  BY <1>1
<1>3. Sequence(q \o r)
  <2> DEFINE s == q \o r
  <2>1. s \in Seq(S)
    BY <1>2
  <2> HIDE DEF s
  <2>2. Sequence(s)
    BY <2>1 DEF Sequence
  <2> QED
    BY <2>2 DEF s
<1> QED
  BY <1>1, <1>2, <1>3

(* A queue with one more element *)
LEMMA Queued ==
  ASSUME NEW q, NEW e, Sequence(q)
  PROVE  /\ Sequence(Append(q, e)) /\ Len(Append(q, e)) = Len(q) + 1
         /\ \A i \in 1 .. Len(q) : Append(q, e)[i] = q[i]
         /\ Append(q, e)[Len(q) + 1] = e
<1> DEFINE S == {q[i] : i \in 1 .. Len(q)} \cup {e}
<1>1. q \in Seq(S) /\ e \in S
  BY DEF Sequence
<1> HIDE DEF S
<1>2. Sequence(Append(q, e))
  <2> DEFINE s == Append(q, e)
  <2>1. s \in Seq(S)
    BY <1>1
  <2> HIDE DEF s
  <2>2. Sequence(s)
    BY <2>1 DEF Sequence
  <2> QED
    BY <2>2 DEF s
<1> QED
  BY <1>1, <1>2, AppendProperties

(* Short queues *)
LEMMA ShortQueues ==
  /\ Sequence(<<>>) /\ Len(<<>>) = 0
  /\ \A e : Sequence(<<e>>) /\ Len(<<e>>) = 1 /\ <<e>>[1] = e
  /\ \A e, f : Sequence(<<e, f>>) /\ Len(<<e, f>>) = 2 /\ <<e, f>>[1] = e /\ <<e, f>>[2] = f
<1>1. Sequence(<<>>) /\ Len(<<>>) = 0
  BY DEF Sequence
<1>2. ASSUME NEW e PROVE Sequence(<<e>>) /\ Len(<<e>>) = 1 /\ <<e>>[1] = e
  BY DEF Sequence
<1>3. ASSUME NEW e, NEW f
      PROVE  Sequence(<<e, f>>) /\ Len(<<e, f>>) = 2 /\ <<e, f>>[1] = e /\ <<e, f>>[2] = f
  BY DEF Sequence
<1> QED
  BY <1>1, <1>2, <1>3

(* The empty queue is the one of length 0. *)
LEMMA NoneQueued == ASSUME NEW q, Sequence(q) PROVE Len(q) \in Nat /\ (q = <<>> <=> Len(q) = 0)
BY DEF Sequence

-----------------------------------------------------------------------------
(* What a step does to the queue: it takes d events off, and adds some behind. *)
Moved(d, more) ==
  /\ d \in {0, 1} /\ d <= Len(events) /\ Sequence(events') /\ Sequence(more)
  /\ Len(events') = Len(events) - d + Len(more)
  /\ \A i \in 1 .. Len(events) - d : events'[i] = events[i + d]
  /\ \A i \in 1 .. Len(more) : events'[Len(events) - d + i] = more[i]

(* An event that is handled is the first one, *)
LEMMA HandledMoves ==
  ASSUME Sequence(events), NEW kind, Due(kind), Handled
  PROVE  Moved(1, <<>>) /\ Head(events) = events[1] /\ 1 \in Waits /\ events[1].kind = kind
<1>1. events # <<>> /\ events' = Tail(events) /\ Head(events).kind = kind
  BY DEF Due, Handled
<1>2. /\ Sequence(events') /\ Len(events) \in Nat \ {0} /\ Len(events') = Len(events) - 1
      /\ Head(events) = events[1]
      /\ \A i \in 1 .. Len(events) - 1 : events'[i] = events[i + 1]
  BY <1>1, Popped
<1>3. Sequence(<<>>) /\ Len(<<>>) = 0
  BY ShortQueues
<1> QED
  BY <1>1, <1>2, <1>3 DEF Moved, Waits

(* also when it raises others. *)
LEMMA RaisesMoves ==
  ASSUME Sequence(events), NEW kind, Due(kind), NEW more, Sequence(more), Raises(more)
  PROVE  Moved(1, more) /\ Head(events) = events[1] /\ 1 \in Waits /\ events[1].kind = kind
<1>1. events # <<>> /\ events' = Tail(events) \o more /\ Head(events).kind = kind
  BY DEF Due, Raises
<1>2. /\ Sequence(Tail(events)) /\ Len(events) \in Nat \ {0} /\ Len(Tail(events)) = Len(events) - 1
      /\ Head(events) = events[1]
      /\ \A i \in 1 .. Len(events) - 1 : Tail(events)[i] = events[i + 1]
  BY <1>1, Popped
<1>3. /\ Sequence(events') /\ Len(events') = Len(Tail(events)) + Len(more)
      /\ \A i \in 1 .. Len(Tail(events)) : events'[i] = Tail(events)[i]
      /\ \A i \in 1 .. Len(more) : events'[Len(Tail(events)) + i] = more[i]
  BY <1>1, <1>2, Joined
<1> QED
  BY <1>1, <1>2, <1>3 DEF Moved, Waits

(* One that occurs is the last. *)
LEMMA OccursMoves ==
  ASSUME Sequence(events), NEW e, events' = Append(events, e)
  PROVE  Moved(0, <<e>>) /\ Len(events') = Len(events) + 1 /\ Len(events) \in Nat
         /\ events'[Len(events) + 1] = e /\ Len(<<e>>) = 1 /\ <<e>>[1] = e
<1>1. /\ Sequence(events') /\ Len(events') = Len(events) + 1
      /\ \A i \in 1 .. Len(events) : events'[i] = events[i]
      /\ events'[Len(events) + 1] = e
  BY Queued
<1>2. Sequence(<<e>>) /\ Len(<<e>>) = 1 /\ <<e>>[1] = e
  BY ShortQueues
<1>3. Len(events) \in Nat
  BY NoneQueued
<1>4. ASSUME NEW i \in 1 .. 1 PROVE events'[Len(events) - 0 + i] = <<e>>[i]
  <2>1. i = 1
    OBVIOUS
  <2> QED
    BY <1>1, <1>2, <1>3, <2>1
<1> QED
  BY <1>1, <1>2, <1>3, <1>4 DEF Moved

(* An event that waits after the step waited before it, or is new. *)
LEMMA Came ==
  ASSUME Sequence(events), NEW d, NEW more, Moved(d, more), NEW j \in Waits'
  PROVE  /\ d \in {0, 1} /\ j \in Nat
         /\ \/ j \in 1 .. Len(events) - d /\ j + d \in Waits /\ events'[j] = events[j + d]
            \/ \E i \in 1 .. Len(more) : j = Len(events) - d + i /\ events'[j] = more[i]
<1>1. Len(events) \in Nat /\ Len(more) \in Nat /\ Len(events') \in Nat
  BY NoneQueued DEF Moved
<1>2. d \in {0, 1} /\ j \in Nat
  BY <1>1 DEF Moved, Waits
<1>3. CASE j <= Len(events) - d
  BY <1>1, <1>3 DEF Moved, Waits
<1>4. CASE j > Len(events) - d
  <2> DEFINE i == j - (Len(events) - d)
  <2>1. i \in 1 .. Len(more) /\ j = Len(events) - d + i
    BY <1>1, <1>4 DEF Moved, Waits
  <2>2. events'[j] = more[i]
    BY <2>1 DEF Moved
  <2> QED
    BY <1>2, <2>1, <2>2
<1> QED
  BY <1>1, <1>3, <1>4, <1>2

(* An event stays what it is while the handle table does. *)
LEMMA CharKept == ASSUME handles'["ota"] = handles["ota"], NEW h PROVE CharOf(h)' = CharOf(h)
BY DEF CharOf

(* So does what the events are to a transfer. *)
LEMMA EventKept ==
  ASSUME NEW e, handles'["ota"] = handles["ota"] \/ e.kind # "write"
  PROVE  /\ Takes(e)' <=> Takes(e)
         /\ Piece(e)' <=> Piece(e)
         /\ startOta' = startOta => (Apart(e)' <=> Apart(e))
         /\ \A char : IsWrite(e, char)' <=> IsWrite(e, char)
BY CharKept DEF Takes, Piece, Apart, IsWrite

-----------------------------------------------------------------------------
(* The stack's side stays as it is when nothing is registered. *)
LEMMA StackMoves ==
  ASSUME Sequence(events), StackInv, NEW d, NEW more, Moved(d, more), UNCHANGED stack,
         \A i \in 1 .. Len(more) : more[i].kind \notin {"reg", "table"}
  PROVE  StackInv'
<1>1. ASSUME NEW j \in Waits'
      PROVE  \/ events'[j].kind \notin {"reg", "table"}
             \/ \E i \in Waits : events'[j] = events[i]
  BY Came
<1>2. UNCHANGED <<gattsIf, handles, tables, services>>
  BY DEF stack
<1>3. ASSUME NEW j \in Waits'
      PROVE  /\ events'[j].kind = "reg" => /\ events'[j].profile \in Profiles
                                          /\ events'[j].iface = Interface[events'[j].profile]
             /\ events'[j].kind = "table" => /\ events'[j].of \in Profiles
                                            /\ events'[j].iface = Interface[events'[j].of]
                                            /\ events'[j].iface = gattsIf[events'[j].of]
                                            /\ <<events'[j].of, events'[j].iface>> \in tables
  <2>1. CASE events'[j].kind \notin {"reg", "table"}
    BY <2>1
  <2>2. CASE \E i \in Waits : events'[j] = events[i]
    <3>1. PICK i \in Waits : events'[j] = events[i]
      BY <2>2
    <3> QED
      BY <3>1 DEF StackInv
  <2> QED
    BY <1>1, <2>1, <2>2
<1> QED
  BY <1>2, <1>3 DEF StackInv

(* What Bluedroid asks for first *)
LEMMA HostInitMoves ==
  ASSUME Sequence(events), HostInit
  PROVE  /\ \E more : /\ Moved(0, more) /\ Len(more) = 2
                      /\ more[1] = [kind |-> "reg", profile |-> "ota", iface |-> 1]
                      /\ more[2] = [kind |-> "reg", profile |-> "dis", iface |-> 2]
         /\ Len(events) = 0 /\ gattsIf["ota"] = 0
         /\ UNCHANGED <<stack, link, component, prep, answer, host>>
<1> DEFINE more == <<[kind |-> "reg", profile |-> "ota", iface |-> 1],
                     [kind |-> "reg", profile |-> "dis", iface |-> 2]>>
<1>1. /\ Sequence(more) /\ Len(more) = 2
      /\ more[1] = [kind |-> "reg", profile |-> "ota", iface |-> 1]
      /\ more[2] = [kind |-> "reg", profile |-> "dis", iface |-> 2]
  BY ShortQueues
<1>2. events = <<>> /\ events' = more /\ gattsIf["ota"] = 0
  BY DEF HostInit, Profiles
<1>3. Len(events) = 0
  BY <1>2, NoneQueued
<1> HIDE DEF more
<1>4. Moved(0, more)
  BY <1>1, <1>2, <1>3 DEF Moved
<1> QED
  BY <1>1, <1>2, <1>3, <1>4 DEF HostInit

(* The stack is as it should be after the profiles were given to it, *)
LEMMA HostInitStack == ASSUME Sequence(events), StackInv, HostInit PROVE StackInv'
<1>1. PICK more : /\ Moved(0, more) /\ Len(more) = 2 /\ Len(events) = 0
                  /\ more[1] = [kind |-> "reg", profile |-> "ota", iface |-> 1]
                  /\ more[2] = [kind |-> "reg", profile |-> "dis", iface |-> 2]
  BY HostInitMoves
<1>2. UNCHANGED <<gattsIf, handles, tables, services>>
  BY HostInitMoves DEF stack
<1>3. ASSUME NEW j \in Waits'
      PROVE  /\ events'[j].kind = "reg" /\ events'[j].profile \in Profiles
             /\ events'[j].iface = Interface[events'[j].profile]
  <2>1. j \in 1 .. 2
    BY <1>1 DEF Moved, Waits
  <2>2. events'[j] = more[j]
    BY <1>1, <2>1 DEF Moved
  <2>3. j = 1 \/ j = 2
    BY <2>1
  <2> QED
    BY <1>1, <2>2, <2>3 DEF Profiles, Interface
<1> QED
  BY <1>2, <1>3 DEF StackInv

(* A registration that succeeds: the profile has its interface, and asks for its table. *)
RegisteredAs(p, more) ==
  /\ p \in Profiles
  /\ gattsIf' = [gattsIf EXCEPT ![p] = Interface[p]] /\ tables' = tables \cup {<<p, Interface[p]>>}
  /\ IF p = "ota" THEN /\ Len(more) = 2 /\ more[1] = [kind |-> "advParams"]
                       /\ more[2] = MakesTable("ota", Interface["ota"])
                  ELSE Len(more) = 1 /\ more[1] = MakesTable("dis", Interface["dis"])

(* What a registration brings: a table to make for the profile, and, with the first,
   the advertising.                                                                *)
LEMMA RegisteredMoves ==
  ASSUME Sequence(events), StackInv, Registered
  PROVE  /\ 1 \in Waits /\ events[1].kind = "reg" /\ events[1].profile \in Profiles
         /\ UNCHANGED <<handles, services, link, component, prep, answer, host>>
         /\ \/ Moved(1, <<>>) /\ UNCHANGED <<gattsIf, tables>>
            \/ \E more : Moved(1, more) /\ RegisteredAs(events[1].profile, more)
<1> DEFINE e == Head(events)
           ofOta == IF "ota" \in Called(e.iface)
                      THEN <<[kind |-> "advParams"], MakesTable("ota", e.iface)>> ELSE <<>>
           ofDis == IF "dis" \in Called(e.iface) THEN <<MakesTable("dis", e.iface)>> ELSE <<>>
           more == ofOta \o ofDis
<1>1. Due("reg") /\ UNCHANGED <<handles, services, link, component, prep, answer, host>>
  BY DEF Registered
<1>2. \/ /\ gattsIf' = [gattsIf EXCEPT ![e.profile] = e.iface]
         /\ tables' = tables \cup {<<p, e.iface>> : p \in Called(e.iface)}
         /\ Raises(more)
      \/ Handled /\ UNCHANGED <<gattsIf, tables>>
  BY DEF Registered, StoresIf
<1> HIDE DEF more
<1>3. CASE Handled /\ UNCHANGED <<gattsIf, tables>>
  <2>1. Moved(1, <<>>) /\ 1 \in Waits /\ events[1].kind = "reg"
    BY <1>1, <1>3, HandledMoves
  <2> QED
    BY <1>1, <1>3, <2>1 DEF StackInv
<1>4. CASE /\ gattsIf' = [gattsIf EXCEPT ![e.profile] = e.iface]
           /\ tables' = tables \cup {<<p, e.iface>> : p \in Called(e.iface)}
           /\ Raises(more)
  <2>1. /\ Sequence(ofOta) /\ Sequence(ofDis) /\ Sequence(more)
        /\ Len(more) = Len(ofOta) + Len(ofDis)
        /\ \A i \in 1 .. Len(ofOta) : more[i] = ofOta[i]
        /\ \A i \in 1 .. Len(ofDis) : more[Len(ofOta) + i] = ofDis[i]
    <3>1. Sequence(ofOta) /\ Sequence(ofDis)
      BY ShortQueues
    <3> QED
      BY <3>1, Joined DEF more
  <2>2. Moved(1, more) /\ e = events[1] /\ 1 \in Waits /\ events[1].kind = "reg"
    BY <1>1, <1>4, <2>1, RaisesMoves
  <2>3. /\ e.profile \in Profiles /\ e.iface = Interface[e.profile]
        /\ DOMAIN gattsIf = Profiles /\ \A p \in Profiles : gattsIf[p] \in {0, Interface[p]}
    BY <2>2 DEF StackInv
  <2>4. Called(e.iface) = {e.profile}
    <3>1. CASE e.profile = "ota"
      BY <1>4, <2>3, <3>1 DEF Called, Profiles, Interface
    <3>2. CASE e.profile = "dis"
      BY <1>4, <2>3, <3>2 DEF Called, Profiles, Interface
    <3> QED
      BY <2>3, <3>1, <3>2 DEF Profiles
  <2>5. tables' = tables \cup {<<e.profile, e.iface>>}
    BY <1>4, <2>4
  <2> HIDE DEF e
  <2>6. CASE e.profile = "ota"
    <3>1. ofOta = <<[kind |-> "advParams"], MakesTable("ota", Interface["ota"])>> /\ ofDis = <<>>
      BY <2>3, <2>4, <2>6
    <3>2. /\ Len(ofOta) = 2 /\ Len(ofDis) = 0 /\ ofOta[1] = [kind |-> "advParams"]
          /\ ofOta[2] = MakesTable("ota", Interface["ota"])
      BY <3>1, ShortQueues
    <3> HIDE DEF ofOta, ofDis
    <3>3. Len(more) = 2 /\ more[1] = ofOta[1] /\ more[2] = ofOta[2]
      BY <2>1, <3>2
    <3> QED
      BY <1>1, <1>4, <2>2, <2>3, <2>5, <2>6, <3>2, <3>3 DEF RegisteredAs
  <2>7. CASE e.profile = "dis"
    <3>1. ofOta = <<>> /\ ofDis = <<MakesTable("dis", Interface["dis"])>>
      BY <2>3, <2>4, <2>7
    <3>2. Len(ofOta) = 0 /\ Len(ofDis) = 1 /\ ofDis[1] = MakesTable("dis", Interface["dis"])
      BY <3>1, ShortQueues
    <3> HIDE DEF ofOta, ofDis
    <3>3. Len(more) = 1 /\ more[1] = ofDis[1]
      BY <2>1, <3>2
    <3> QED
      BY <1>1, <1>4, <2>2, <2>3, <2>5, <2>7, <3>2, <3>3 DEF RegisteredAs
  <2> QED
    BY <2>3, <2>6, <2>7 DEF Profiles
<1> QED
  BY <1>2, <1>3, <1>4

(* Registering a profile keeps to the interfaces. *)
LEMMA RegisteredStack == ASSUME Sequence(events), StackInv, Registered PROVE StackInv'
<1>1. CASE Moved(1, <<>>) /\ UNCHANGED <<gattsIf, tables, handles, services>>
  <2>1. Len(<<>>) = 0
    BY ShortQueues
  <2> QED
    BY <1>1, <2>1, StackMoves DEF stack
<1>2. CASE /\ events[1].profile \in Profiles /\ UNCHANGED <<handles, services>>
           /\ \E more : Moved(1, more) /\ RegisteredAs(events[1].profile, more)
  <2> DEFINE p == events[1].profile
  <2>1. PICK more : Moved(1, more) /\ RegisteredAs(p, more)
    BY <1>2
  <2>2. /\ p \in Profiles /\ UNCHANGED <<handles, services>>
        /\ gattsIf' = [gattsIf EXCEPT ![p] = Interface[p]] /\ tables' = tables \cup {<<p, Interface[p]>>}
    BY <1>2, <2>1 DEF RegisteredAs
  <2> HIDE DEF p
  <2>3. /\ DOMAIN gattsIf' = Profiles
        /\ \A q \in Profiles : gattsIf'[q] = gattsIf[q] \/ (q = p /\ gattsIf'[q] = Interface[q])
        /\ tables \subseteq tables'
    BY <2>2 DEF StackInv
  <2>4. ASSUME NEW j \in Waits'
        PROVE  /\ events'[j].kind = "reg" =>
                    /\ events'[j].profile \in Profiles
                    /\ events'[j].iface = Interface[events'[j].profile]
               /\ events'[j].kind = "table" =>
                    /\ events'[j].of \in Profiles
                    /\ events'[j].iface = Interface[events'[j].of]
                    /\ events'[j].iface = gattsIf'[events'[j].of]
                    /\ <<events'[j].of, events'[j].iface>> \in tables'
    <3>1. CASE \E i \in Waits : events'[j] = events[i]
      <4>1. PICK i \in Waits : events'[j] = events[i]
        BY <3>1
      <4>2. events'[j].kind = "reg" => /\ events'[j].profile \in Profiles
                                       /\ events'[j].iface = Interface[events'[j].profile]
        BY <4>1 DEF StackInv
      <4>3. events'[j].kind = "table" => /\ events'[j].of \in Profiles
                                         /\ events'[j].iface = Interface[events'[j].of]
                                         /\ events'[j].iface = gattsIf[events'[j].of]
                                         /\ <<events'[j].of, events'[j].iface>> \in tables
        BY <4>1 DEF StackInv
      <4> QED
        BY <2>3, <4>2, <4>3
    <3>2. CASE \E i \in 1 .. Len(more) : events'[j] = more[i]
      <4>1. PICK i \in 1 .. Len(more) : events'[j] = more[i]
        BY <3>2
      <4>2. events'[j] = [kind |-> "advParams"] \/ events'[j] = MakesTable(p, Interface[p])
        <5>1. CASE p = "ota"
          <6>1. /\ Len(more) = 2 /\ more[1] = [kind |-> "advParams"]
                /\ more[2] = MakesTable("ota", Interface["ota"])
            BY <2>1, <5>1, Zenon DEF RegisteredAs
          <6>2. i = 1 \/ i = 2
            BY <6>1
          <6> QED
            BY <4>1, <5>1, <6>1, <6>2
        <5>2. CASE p = "dis"
          <6>1. Len(more) = 1 /\ more[1] = MakesTable("dis", Interface["dis"])
            BY <2>1, <5>2 DEF RegisteredAs
          <6>2. i = 1
            BY <6>1
          <6> QED
            BY <4>1, <5>2, <6>1, <6>2
        <5> QED
          BY <2>2, <5>1, <5>2 DEF Profiles
      <4>3. gattsIf'[p] = Interface[p] /\ <<p, Interface[p]>> \in tables'
        BY <2>2 DEF StackInv
      <4> QED
        BY <2>2, <4>2, <4>3 DEF MakesTable
    <3> QED
      BY <2>1, <3>1, <3>2, Came
  <2>5. tables' \subseteq {<<q, Interface[q]>> : q \in Profiles}
    BY <2>2 DEF StackInv
  <2>6. ASSUME NEW q \in Profiles
        PROVE  /\ gattsIf'[q] \in {0, Interface[q]}
               /\ handles'[q] = IF q \in services' THEN HandlesOf(q) ELSE <<>>
               /\ q \in services' => <<q, gattsIf'[q]>> \in tables'
    <3>1. gattsIf'[q] \in {0, Interface[q]} /\ (q \in services' => <<q, gattsIf'[q]>> \in tables')
      BY <2>2, <2>3 DEF StackInv
    <3>2. handles'[q] = IF q \in services' THEN HandlesOf(q) ELSE <<>>
      BY <2>2 DEF StackInv
    <3> QED
      BY <3>1, <3>2
  <2>7. DOMAIN handles' = Profiles /\ services' \subseteq Profiles
    BY <2>2 DEF StackInv
  <2> QED
    BY <2>3, <2>4, <2>5, <2>6, <2>7 DEF StackInv
<1> QED
  BY <1>1, <1>2, RegisteredMoves

(* A table that was made is the one of the profile that asked for it. *)
LEMMA TableIsOfItsProfile ==
  ASSUME Sequence(events), StackInv, TableMade
  PROVE  /\ Moved(1, <<>>) /\ 1 \in Waits /\ events[1].kind = "table"
         /\ UNCHANGED <<gattsIf, tables, link, component, prep, answer, host>>
         /\ \/ UNCHANGED <<handles, services>>
            \/ \E p \in Profiles :
                 /\ <<p, gattsIf[p]>> \in tables /\ services' = services \cup {p}
                 /\ handles' = [handles EXCEPT ![p] = HandlesOf(p)]
<1> DEFINE e == Head(events)
           made == {p \in Profiles : gattsIf[p] = e.iface
                                     /\ Len(Attributes[p]) = Len(Attributes[e.of])}
<1>1. /\ Due("table") /\ Handled
      /\ UNCHANGED <<gattsIf, tables, link, component, prep, answer, host>>
      /\ \/ /\ handles' = [p \in Profiles |-> IF p \in made THEN HandlesOf(e.of) ELSE handles[p]]
            /\ services' = services \cup {e.of : p \in made}
         \/ UNCHANGED <<handles, services>>
  BY DEF TableMade
<1>2. Moved(1, <<>>) /\ e = events[1] /\ 1 \in Waits /\ events[1].kind = "table"
  BY <1>1, HandledMoves
<1>3. /\ e.of \in Profiles /\ e.iface = Interface[e.of] /\ e.iface = gattsIf[e.of]
      /\ <<e.of, gattsIf[e.of]>> \in tables
      /\ DOMAIN handles = Profiles /\ \A p \in Profiles : gattsIf[p] \in {0, Interface[p]}
  BY <1>2 DEF StackInv
<1> HIDE DEF e
<1>4. made = {e.of}
  <2>1. ASSUME NEW p \in Profiles, gattsIf[p] = e.iface PROVE p = e.of
    BY <1>3, <2>1 DEF Profiles, Interface
  <2> QED
    BY <1>3, <2>1
<1>5. CASE /\ handles' = [p \in Profiles |-> IF p \in made THEN HandlesOf(e.of) ELSE handles[p]]
           /\ services' = services \cup {e.of : p \in made}
  <2>1. services' = services \cup {e.of}
    BY <1>4, <1>5
  <2>2. handles' = [p \in Profiles |-> IF p = e.of THEN HandlesOf(e.of) ELSE handles[p]]
    BY <1>4, <1>5
  <2>3. handles' = [handles EXCEPT ![e.of] = HandlesOf(e.of)]
    BY <1>3, <2>2
  <2> QED
    BY <1>1, <1>2, <1>3, <2>1, <2>3
<1> QED
  BY <1>1, <1>2, <1>5

(* A table that was made is taken by its profile alone, whose service is started. *)
LEMMA TableMadeStack == ASSUME Sequence(events), StackInv, TableMade PROVE StackInv'
<1>1. Moved(1, <<>>) /\ UNCHANGED <<gattsIf, tables>> /\ Len(<<>>) = 0
  BY TableIsOfItsProfile, ShortQueues
<1>2. CASE UNCHANGED <<handles, services>>
  BY <1>1, <1>2, StackMoves DEF stack
<1>3. CASE \E p \in Profiles :
             /\ <<p, gattsIf[p]>> \in tables /\ services' = services \cup {p}
             /\ handles' = [handles EXCEPT ![p] = HandlesOf(p)]
  <2>1. PICK p \in Profiles : /\ <<p, gattsIf[p]>> \in tables /\ services' = services \cup {p}
                              /\ handles' = [handles EXCEPT ![p] = HandlesOf(p)]
    BY <1>3
  <2>2. ASSUME NEW q \in Profiles
        PROVE  /\ handles'[q] = IF q \in services' THEN HandlesOf(q) ELSE <<>>
               /\ q \in services' => <<q, gattsIf[q]>> \in tables
    <3>1. CASE q = p
      BY <2>1, <3>1 DEF StackInv
    <3>2. CASE q # p
      BY <2>1, <3>2 DEF StackInv
    <3> QED
      BY <3>1, <3>2
  <2>3. DOMAIN handles' = Profiles /\ services' \subseteq Profiles
    BY <2>1 DEF StackInv
  <2>4. ASSUME NEW j \in Waits' PROVE \E i \in Waits : events'[j] = events[i]
    BY <1>1, Came
  <2>5. ASSUME NEW j \in Waits'
        PROVE  /\ events'[j].kind = "reg" =>
                    /\ events'[j].profile \in Profiles
                    /\ events'[j].iface = Interface[events'[j].profile]
               /\ events'[j].kind = "table" =>
                    /\ events'[j].of \in Profiles
                    /\ events'[j].iface = Interface[events'[j].of]
                    /\ events'[j].iface = gattsIf[events'[j].of]
                    /\ <<events'[j].of, events'[j].iface>> \in tables
    <3>1. PICK i \in Waits : events'[j] = events[i]
      BY <2>4
    <3> QED
      BY <3>1 DEF StackInv
  <2> QED
    BY <1>1, <2>2, <2>3, <2>5 DEF StackInv
<1> QED
  BY <1>2, <1>3, TableIsOfItsProfile

-----------------------------------------------------------------------------
(* Whose turn it is stays so when events that do not matter for it come and go. *)
LEMMA TurnMoves ==
  ASSUME Sequence(events), TurnInv, NEW d, NEW more, Moved(d, more),
         UNCHANGED <<adv, linked>>, gattsIf'["ota"] = gattsIf["ota"],
         \A i \in 1 .. Len(more) : ~Turn(more[i])
  PROVE  TurnInv'
<1>1. ASSUME NEW j \in Waits', Turn(events'[j])
      PROVE  j + d \in Waits /\ events'[j] = events[j + d] /\ d \in {0, 1}
  BY <1>1, Came
<1>2. ASSUME NEW j \in Waits', Turn(events'[j])
      PROVE  /\ ~adv' /\ ~linked'
             /\ \A k \in Waits' : Turn(events'[k]) => k = j
             /\ events'[j].kind # "reg" => gattsIf'["ota"] # 0
  <2>1. j + d \in Waits /\ Turn(events[j + d]) /\ events'[j] = events[j + d] /\ d \in {0, 1}
    BY <1>1, <1>2
  <2>2. ASSUME NEW k \in Waits', Turn(events'[k]) PROVE k = j
    <3>1. k + d \in Waits /\ Turn(events[k + d])
      BY <1>1, <2>2
    <3>2. k + d = j + d
      BY <2>1, <3>1 DEF TurnInv
    <3>3. j \in Int /\ k \in Int
      BY DEF Waits
    <3> QED
      BY <2>1, <3>2, <3>3
  <2> QED
    BY <2>1, <2>2 DEF TurnInv
<1> QED
  BY <1>2 DEF TurnInv

(* A turn that comes to its end leaves none behind. *)
LEMMA TurnEnds ==
  ASSUME Sequence(events), TurnInv, NEW more, Moved(1, more), 1 \in Waits, Turn(events[1])
  PROVE  /\ ~adv /\ ~linked /\ (events[1].kind # "reg" => gattsIf["ota"] # 0)
         /\ \A j \in Waits' : Turn(events'[j]) =>
              \E i \in 1 .. Len(more) : j = Len(events) - 1 + i /\ events'[j] = more[i]
<1>1. /\ ~adv /\ ~linked /\ (events[1].kind # "reg" => gattsIf["ota"] # 0)
      /\ \A i \in Waits : Turn(events[i]) => i = 1
  BY DEF TurnInv
<1>2. ASSUME NEW j \in Waits', Turn(events'[j])
      PROVE  \E i \in 1 .. Len(more) : j = Len(events) - 1 + i /\ events'[j] = more[i]
  <2>1. CASE j + 1 \in Waits /\ events'[j] = events[j + 1]
    <3>1. j + 1 = 1
      BY <1>1, <1>2, <2>1
    <3>2. j \in Nat \ {0}
      BY DEF Waits
    <3> QED
      BY <3>1, <3>2
  <2> QED
    BY <2>1, Came
<1> QED
  BY <1>1, <1>2

(* The turn is of one event at a time: first the registration of the profile, *)
LEMMA HostInitTurn == ASSUME Sequence(events), StackInv, TurnInv, HostInit PROVE TurnInv'
<1>1. PICK more : /\ Moved(0, more) /\ Len(more) = 2 /\ Len(events) = 0
                  /\ more[1] = [kind |-> "reg", profile |-> "ota", iface |-> 1]
                  /\ more[2] = [kind |-> "reg", profile |-> "dis", iface |-> 2]
  BY HostInitMoves
<1>2. gattsIf["ota"] = 0 /\ UNCHANGED <<gattsIf, adv, linked>>
  BY HostInitMoves DEF stack, link
<1>3. ~adv /\ ~linked
  BY <1>2 DEF TurnInv
<1>4. ASSUME NEW j \in Waits', Turn(events'[j]) PROVE j = 1 /\ events'[j].kind = "reg"
  <2>1. j = 1 \/ j = 2
    BY <1>1 DEF Moved, Waits
  <2>2. events'[1] = more[1] /\ events'[2] = more[2]
    BY <1>1 DEF Moved
  <2>3. ~Turn(more[2])
    BY <1>1 DEF Turn
  <2> QED
    BY <1>1, <1>4, <2>1, <2>2, <2>3
<1> QED
  BY <1>2, <1>3, <1>4 DEF TurnInv

(* then what that brings, *)
LEMMA RegisteredTurn == ASSUME Sequence(events), StackInv, TurnInv, Registered PROVE TurnInv'
<1>1. /\ 1 \in Waits /\ events[1].kind = "reg" /\ events[1].profile \in Profiles
      /\ UNCHANGED <<adv, linked>>
  BY RegisteredMoves DEF link
<1>2. CASE Moved(1, <<>>) /\ UNCHANGED <<gattsIf, tables>>
  <2>1. Len(<<>>) = 0
    BY ShortQueues
  <2> QED
    BY <1>1, <1>2, <2>1, TurnMoves
<1>3. CASE \E more : Moved(1, more) /\ RegisteredAs(events[1].profile, more)
  <2>1. PICK more : Moved(1, more) /\ RegisteredAs(events[1].profile, more)
    BY <1>3
  <2>2. CASE events[1].profile = "ota"
    <3>1. /\ Len(more) = 2 /\ more[1] = [kind |-> "advParams"]
          /\ more[2] = MakesTable("ota", Interface["ota"])
          /\ gattsIf' = [gattsIf EXCEPT !["ota"] = Interface["ota"]]
      BY <2>1, <2>2 DEF RegisteredAs
    <3>2. gattsIf'["ota"] # 0
      BY <3>1 DEF StackInv, Interface, Profiles
    <3>3. Turn(events[1])
      BY <1>1, <2>2 DEF Turn
    <3>4. /\ ~adv /\ ~linked
          /\ \A j \in Waits' : Turn(events'[j]) =>
               \E i \in 1 .. Len(more) : j = Len(events) - 1 + i /\ events'[j] = more[i]
      BY <1>1, <2>1, <3>3, TurnEnds
    <3>5. ~Turn(more[2])
      BY <3>1 DEF Turn, MakesTable
    <3>6. ASSUME NEW j \in Waits', Turn(events'[j]) PROVE j = Len(events)
      <4>1. PICK i \in 1 .. Len(more) : j = Len(events) - 1 + i /\ events'[j] = more[i]
        BY <3>4, <3>6
      <4>2. i = 1
        BY <3>1, <3>5, <3>6, <4>1
      <4>3. Len(events) \in Nat
        BY NoneQueued
      <4> QED
        BY <4>1, <4>2, <4>3
    <3> QED
      BY <1>1, <3>2, <3>4, <3>6 DEF TurnInv
  <2>3. CASE events[1].profile = "dis"
    <3>1. /\ Len(more) = 1 /\ more[1] = MakesTable("dis", Interface["dis"])
          /\ gattsIf' = [gattsIf EXCEPT !["dis"] = Interface["dis"]]
      BY <2>1, <2>3 DEF RegisteredAs
    <3>2. gattsIf'["ota"] = gattsIf["ota"]
      BY <3>1 DEF StackInv, Profiles
    <3>3. ASSUME NEW i \in 1 .. Len(more) PROVE ~Turn(more[i])
      <4>1. i = 1
        BY <3>1
      <4> QED
        BY <3>1, <4>1 DEF Turn, MakesTable
    <3> QED
      BY <1>1, <2>1, <3>2, <3>3, TurnMoves
  <2> QED
    BY <1>1, <2>2, <2>3 DEF Profiles
<1> QED
  BY <1>2, <1>3, RegisteredMoves

(* Advertising begins when its data are set. *)
LEMMA AdvertisingMoves ==
  ASSUME Sequence(events), AdvertisingStep
  PROVE  /\ 1 \in Waits
         /\ UNCHANGED <<stack, linked, links, mtu, enabled, component, prep, answer, host>>
         /\ \/ /\ events[1].kind = "advParams" /\ UNCHANGED adv
               /\ \E more : Moved(1, more) /\ Len(more) = 1 /\ more[1] = [kind |-> "advData"]
            \/ events[1].kind = "advData" /\ adv' = TRUE /\ Moved(1, <<>>)
<1>1. CASE Due("advParams") /\ Raises(<<[kind |-> "advData"]>>) /\ UNCHANGED adv
  <2> DEFINE more == <<[kind |-> "advData"]>>
  <2>1. Sequence(more) /\ Len(more) = 1 /\ more[1] = [kind |-> "advData"]
    BY ShortQueues
  <2>2. Moved(1, more) /\ 1 \in Waits /\ events[1].kind = "advParams"
    BY <1>1, <2>1, RaisesMoves
  <2> HIDE DEF more
  <2> QED
    BY <1>1, <2>1, <2>2 DEF AdvertisingStep
<1>2. CASE Due("advData") /\ Handled /\ adv' = TRUE
  <2>1. Moved(1, <<>>) /\ 1 \in Waits /\ events[1].kind = "advData"
    BY <1>2, HandledMoves
  <2> QED
    BY <1>2, <2>1 DEF AdvertisingStep
<1> QED
  BY <1>1, <1>2 DEF AdvertisingStep

(* then the two steps of advertising; *)
LEMMA AdvertisingTurn == ASSUME Sequence(events), TurnInv, AdvertisingStep PROVE TurnInv'
<1>1. 1 \in Waits /\ UNCHANGED <<gattsIf, linked>>
  BY AdvertisingMoves DEF stack
<1>2. CASE /\ events[1].kind = "advParams" /\ UNCHANGED adv
           /\ \E more : Moved(1, more) /\ Len(more) = 1 /\ more[1] = [kind |-> "advData"]
  <2>1. PICK more : Moved(1, more) /\ Len(more) = 1 /\ more[1] = [kind |-> "advData"]
    BY <1>2
  <2>2. /\ ~adv /\ ~linked /\ gattsIf["ota"] # 0
        /\ \A j \in Waits' : Turn(events'[j]) =>
             \E i \in 1 .. Len(more) : j = Len(events) - 1 + i /\ events'[j] = more[i]
    BY <1>1, <1>2, <2>1, TurnEnds DEF Turn
  <2>3. ASSUME NEW j \in Waits', Turn(events'[j]) PROVE j = Len(events)
    <3>1. PICK i \in 1 .. Len(more) : j = Len(events) - 1 + i
      BY <2>2, <2>3
    <3>2. i = 1 /\ Len(events) \in Nat
      BY <2>1, NoneQueued
    <3> QED
      BY <3>1, <3>2
  <2> QED
    BY <1>1, <1>2, <2>2, <2>3 DEF TurnInv
<1>3. CASE events[1].kind = "advData" /\ adv' = TRUE /\ Moved(1, <<>>)
  <2>1. ~linked /\ gattsIf["ota"] # 0 /\ \A j \in Waits' : ~Turn(events'[j])
    <3>1. Len(<<>>) = 0
      BY ShortQueues
    <3> QED
      BY <1>1, <1>3, <3>1, TurnEnds DEF Turn
  <2> QED
    BY <1>1, <1>3, <2>1 DEF TurnInv
<1> QED
  BY <1>2, <1>3, AdvertisingMoves

(* The link's own events *)
LEMMA LinkEventMoves ==
  ASSUME Sequence(events), LinkEvent
  PROVE  /\ Moved(1, <<>>) /\ 1 \in Waits
         /\ UNCHANGED <<stack, linked, links, enabled, component, prep, answer, host>>
         /\ \/ events[1].kind = "mtu" /\ mtu' = events[1].mtu /\ UNCHANGED adv
            \/ events[1].kind = "connect" /\ UNCHANGED <<adv, mtu>>
            \/ events[1].kind = "disconnect" /\ mtu' = DefaultMtu /\ adv' = TRUE
<1>1. /\ Handled /\ UNCHANGED <<stack, linked, links, enabled, component, prep, answer, host>>
      /\ \/ Due("mtu") /\ mtu' = Head(events).mtu /\ UNCHANGED adv
         \/ Due("connect") /\ UNCHANGED <<adv, mtu>>
         \/ Due("disconnect") /\ mtu' = DefaultMtu /\ adv' = TRUE
  BY DEF LinkEvent
<1>2. ASSUME NEW kind, Due(kind)
      PROVE  Moved(1, <<>>) /\ Head(events) = events[1] /\ 1 \in Waits /\ events[1].kind = kind
  BY <1>1, <1>2, HandledMoves
<1> QED
  BY <1>1, <1>2

(* a link that is gone brings the advertising again, *)
LEMMA LinkTurn == ASSUME Sequence(events), TurnInv, LinkEvent PROVE TurnInv'
<1>1. /\ Moved(1, <<>>) /\ 1 \in Waits /\ Len(<<>>) = 0 /\ UNCHANGED <<gattsIf, linked>>
  BY LinkEventMoves, ShortQueues DEF stack
<1>2. CASE UNCHANGED adv
  BY <1>1, <1>2, TurnMoves
<1>3. CASE events[1].kind = "disconnect" /\ adv' = TRUE
  <2>1. ~linked /\ gattsIf["ota"] # 0 /\ \A j \in Waits' : ~Turn(events'[j])
    BY <1>1, <1>3, TurnEnds DEF Turn
  <2> QED
    BY <1>1, <1>3, <2>1 DEF TurnInv
<1> QED
  BY <1>2, <1>3, LinkEventMoves

(* a link that is made takes it away, *)
LEMMA LinkUpTurn == ASSUME Sequence(events), TurnInv, LinkUp PROVE TurnInv'
<1> DEFINE e == [kind |-> "connect"]
<1>1. adv /\ adv' = FALSE /\ linked' = TRUE /\ events' = Append(events, e) /\ UNCHANGED gattsIf
  BY DEF LinkUp, Occurs, stack
<1>2. Moved(0, <<e>>) /\ Len(<<e>>) = 1 /\ <<e>>[1] = e
  BY <1>1, OccursMoves
<1>3. ~Turn(e)
  BY DEF Turn
<1> HIDE DEF e
<1>4. gattsIf["ota"] # 0 /\ \A i \in Waits : ~Turn(events[i])
  BY <1>1 DEF TurnInv
<1>5. ASSUME NEW j \in Waits' PROVE ~Turn(events'[j])
  <2>1. CASE \E i \in Waits : events'[j] = events[i]
    BY <1>4, <2>1
  <2>2. CASE \E i \in 1 .. Len(<<e>>) : events'[j] = <<e>>[i]
    <3>1. events'[j] = e
      BY <1>2, <2>2
    <3> QED
      BY <1>3, <3>1
  <2> QED
    BY <1>2, <2>1, <2>2, Came
<1> QED
  BY <1>1, <1>4, <1>5 DEF TurnInv

(* and a link that is lost has left its event. *)
LEMMA LinkDownTurn == ASSUME Sequence(events), TurnInv, LinkDown PROVE TurnInv'
<1> DEFINE e == [kind |-> "disconnect"]
<1>1. linked /\ linked' = FALSE /\ events' = Append(events, e) /\ UNCHANGED <<adv, gattsIf>>
  BY DEF LinkDown, stack
<1>2. Moved(0, <<e>>) /\ Len(<<e>>) = 1 /\ <<e>>[1] = e
  BY <1>1, OccursMoves
<1>3. ~adv /\ gattsIf["ota"] # 0 /\ \A i \in Waits : ~Turn(events[i])
  BY <1>1 DEF TurnInv
<1> HIDE DEF e
<1>4. ASSUME NEW j \in Waits', Turn(events'[j]) PROVE j = Len(events) + 1
  <2>1. CASE j + 0 \in Waits /\ events'[j] = events[j + 0]
    BY <1>3, <1>4, <2>1
  <2>2. CASE \E i \in 1 .. Len(<<e>>) : j = Len(events) - 0 + i
    <3>1. Len(events) \in Nat
      BY NoneQueued
    <3> QED
      BY <1>2, <2>2, <3>1
  <2> QED
    BY <1>2, <2>1, <2>2, Came
<1> QED
  BY <1>1, <1>3, <1>4 DEF TurnInv

-----------------------------------------------------------------------------
(* What waits apart is the first event, so none is left when one is taken off. *)
LEMMA ApartPops ==
  ASSUME Sequence(events), ApartInv, NEW more, Moved(1, more),
         \A i \in Waits : handles'["ota"] = handles["ota"] \/ events[i].kind # "write",
         services \subseteq services',
         startOta' = startOta \/ Apart(events[1]), starts' = starts \/ Apart(events[1]),
         \A i \in 1 .. Len(more) : more[i].kind \notin {"write", "exec", "mtu"}
  PROVE  ApartInv'
<1>1. ASSUME NEW j \in Waits' PROVE Known(events[j])' /\ ~Apart(events[j])'
  <2>1. PICK e : e = events'[j]
    OBVIOUS
  <2>2. CASE e.kind \notin {"write", "exec", "mtu"}
    <3>1. Known(e)' /\ ~Apart(e)'
      BY <2>2 DEF Known, Apart, Takes, IsWrite
    <3> QED
      BY <2>1, <3>1
  <2>3. CASE j + 1 \in Waits /\ e = events[j + 1] /\ j \in Nat
    <3>1. j # 0 /\ j + 1 # 1 /\ 1 \in Waits
      BY <2>3 DEF Waits
    <3>2. Known(e) /\ ~Apart(e)
      BY <2>3, <3>1 DEF ApartInv
    <3>3. CASE Apart(events[1])
      <4>1. Len(events) = 1 \/ (Len(events) = 2 /\ events[2].kind = "disconnect")
        BY <3>1, <3>3 DEF ApartInv
      <4>2. j + 1 = 2
        BY <2>3, <3>1, <4>1 DEF Waits
      <4>3. e.kind = "disconnect"
        BY <2>3, <4>1, <4>2 DEF Waits
      <4> QED
        BY <2>2, <4>3
    <3>4. CASE startOta' = startOta /\ starts' = starts
      <4>1. handles'["ota"] = handles["ota"] \/ e.kind # "write"
        BY <2>3
      <4>2. ~(Apart(e)')
        BY <3>2, <3>4, <4>1, EventKept
      <4>3. e.kind = "write" => CharOf(e.handle)' = CharOf(e.handle)
        BY <4>1, CharKept
      <4>4. Known(e)'
        BY <3>2, <3>4, <4>3 DEF Known, IsWrite
      <4> QED
        BY <2>1, <4>2, <4>4
    <3> QED
      BY <3>3, <3>4
  <2> QED
    BY <2>1, <2>2, <2>3, Came
<1> QED
  BY <1>1 DEF ApartInv

(* Nothing waits apart while the host sends, while nobody is linked, or while nothing
   waits at all.                                                                     *)
LEMMA NoneApart ==
  ASSUME Sequence(events), ApartInv, TurnInv, ready \/ adv \/ Len(events) = 0, NEW i \in Waits
  PROVE  ~Apart(events[i])
<1> SUFFICES ASSUME Apart(events[i]) PROVE FALSE
  OBVIOUS
<1>1. i = 1 /\ ~ready /\ (linked \/ (Len(events) = 2 /\ events[2].kind = "disconnect"))
  BY DEF ApartInv
<1>2. Len(events) # 0
  BY DEF Waits
<1>3. adv
  BY <1>1, <1>2
<1>4. Len(events) = 2 /\ Turn(events[2]) /\ 2 \in Waits
  BY <1>1, <1>3 DEF TurnInv, Turn, Waits
<1> QED
  BY <1>3, <1>4 DEF TurnInv

(* An event is added only while nothing waits apart. *)
LEMMA ApartAppends ==
  ASSUME Sequence(events), ApartInv, NEW more, Moved(0, more),
         UNCHANGED <<handles, services, startOta, starts>>,
         \A i \in Waits : ~Apart(events[i]),
         \A i \in 1 .. Len(more) :
            Known(more[i]) /\ (Apart(more[i]) => Len(events) = 0 /\ Len(more) = 1 /\ ~ready' /\ linked')
  PROVE  ApartInv'
<1>1. ASSUME NEW j \in Waits'
      PROVE  /\ Known(events[j])'
             /\ Apart(events[j])' => Len(events') = 1 /\ j = 1 /\ ~ready' /\ linked'
  <2>1. PICK e : e = events'[j]
    OBVIOUS
  <2>2. (Apart(e)' <=> Apart(e)) /\ (Known(e)' <=> Known(e))
    <3>1. CharOf(e.handle)' = CharOf(e.handle)
      BY CharKept
    <3> QED
      BY <3>1, EventKept DEF Known, IsWrite
  <2>3. CASE \E i \in Waits : e = events[i]
    <3>1. Known(e) /\ ~Apart(e)
      BY <2>3 DEF ApartInv
    <3> QED
      BY <2>1, <2>2, <3>1
  <2>4. CASE \E i \in 1 .. Len(more) : j = Len(events) - 0 + i /\ e = more[i]
    <3>1. PICK i \in 1 .. Len(more) : j = Len(events) - 0 + i /\ e = more[i]
      BY <2>4
    <3>2. Known(e) /\ (Apart(e) => Len(events) = 0 /\ Len(more) = 1 /\ ~ready' /\ linked')
      BY <3>1
    <3>3. Len(events') = Len(events) - 0 + Len(more)
      BY DEF Moved
    <3>4. ASSUME Len(events) = 0, Len(more) = 1 PROVE Len(events') = 1 /\ j = 1
      BY <3>1, <3>3, <3>4
    <3> QED
      BY <2>1, <2>2, <3>2, <3>4
  <2> QED
    BY <2>1, <2>3, <2>4, Came
<1> QED
  BY <1>1 DEF ApartInv

(* A link that goes leaves its event behind what waits apart. *)
LEMMA LinkDownApart == ASSUME Sequence(events), ApartInv, LinkDown PROVE ApartInv'
<1> DEFINE d == [kind |-> "disconnect"]
<1>1. /\ linked /\ linked' = FALSE /\ ready' = FALSE /\ events' = Append(events, d)
      /\ UNCHANGED <<handles, services, startOta, starts>>
  BY DEF LinkDown, stack, component
<1>2. /\ Moved(0, <<d>>) /\ Len(<<d>>) = 1 /\ <<d>>[1] = d /\ Len(events') = Len(events) + 1
      /\ events'[Len(events) + 1] = d
  BY <1>1, OccursMoves
<1>3. ASSUME NEW j \in Waits'
      PROVE  /\ Known(events[j])'
             /\ Apart(events[j])' => j = 1 /\ Len(events') = 2 /\ events'[2].kind = "disconnect"
  <2>1. PICK e : e = events'[j]
    OBVIOUS
  <2>2. (Apart(e)' <=> Apart(e)) /\ (Known(e)' <=> Known(e))
    <3>1. CharOf(e.handle)' = CharOf(e.handle)
      BY <1>1, CharKept
    <3> QED
      BY <1>1, <3>1, EventKept DEF Known, IsWrite
  <2>3. CASE \E i \in 1 .. Len(<<d>>) : e = <<d>>[i]
    <3>1. e = d
      BY <1>2, <2>3
    <3>2. Known(e) /\ ~Apart(e)
      BY <3>1 DEF Known, Apart, Takes, IsWrite
    <3> QED
      BY <2>1, <2>2, <3>2
  <2>4. CASE j + 0 \in Waits /\ e = events[j + 0] /\ j \in Nat
    <3>0. j \in Waits /\ e = events[j]
      <4>1. j + 0 = j
        BY <2>4
      <4> QED
        BY <2>4, <4>1
    <3>1. Known(e) /\ (Apart(e) => j = 1 /\ Len(events) = 1)
      BY <1>1, <3>0 DEF ApartInv
    <3>2. Len(events) = 1 => Len(events') = 2 /\ events'[2].kind = "disconnect"
      BY <1>2
    <3> QED
      BY <2>1, <2>2, <3>1, <3>2
  <2> QED
    BY <1>2, <2>1, <2>3, <2>4, Came
<1> QED
  BY <1>1, <1>3 DEF ApartInv

-----------------------------------------------------------------------------
(* A piece that waits after a step that sends none waited before it. *)
LEMMA PieceCame ==
  ASSUME Sequence(events), NEW d, NEW more, Moved(d, more),
         \A i \in Waits : handles'["ota"] = handles["ota"] \/ events[i].kind # "write",
         \A i \in 1 .. Len(more) :
            ~Piece(more[i]) /\ (handles'["ota"] = handles["ota"] \/ more[i].kind # "write"),
         NEW j \in Waits', Piece(events[j])'
  PROVE  d \in {0, 1} /\ j \in Nat /\ j + d \in Waits /\ Piece(events[j + d])
<1>1. PICK e : e = events'[j]
  OBVIOUS
<1>2. Piece(e)'
  BY <1>1
<1>3. CASE \E i \in 1 .. Len(more) : e = more[i]
  BY <1>2, <1>3, EventKept
<1>4. CASE j + d \in Waits /\ e = events[j + d]
  <2>1. Piece(e)
    BY <1>2, <1>4, EventKept
  <2>2. d \in {0, 1} /\ j \in Nat
    BY Came
  <2> QED
    BY <1>4, <2>1, <2>2
<1> QED
  BY <1>1, <1>3, <1>4, Came

(* The pieces stay in order when none comes. *)
LEMMA PieceMoves ==
  ASSUME Sequence(events), PieceInv, NEW d, NEW more, Moved(d, more),
         \A i \in Waits : handles'["ota"] = handles["ota"] \/ events[i].kind # "write",
         \A i \in 1 .. Len(more) :
            ~Piece(more[i]) /\ (handles'["ota"] = handles["ota"] \/ more[i].kind # "write"),
         Len(prep) \in Nat, prep' \in {prep, <<>>}, long' \in {long, 0},
         startOta' \/ \A i \in Waits : ~Piece(events[i])
  PROVE  PieceInv'
<1> DEFINE P(i) == Piece(events[i])
           Q(i) == Piece(events[i])'
<1>1. ASSUME NEW j \in Waits', Q(j) PROVE j \in Nat /\ j + d \in Waits /\ P(j + d)
  BY <1>1, PieceCame
<1>2. d \in {0, 1} /\ Len(<<>>) = 0
  BY ShortQueues DEF Moved
<1>3. /\ \A i \in Waits : P(i) => Len(prep) <= 1 /\ startOta
      /\ \A i, j \in Waits : P(i) /\ P(j) /\ i < j => prep = <<>>
      /\ \A i, j, k \in Waits : ~(i < j /\ j < k /\ P(i) /\ P(j) /\ P(k))
      /\ long = 1 => /\ Len(prep) <= 1
                     /\ \A i \in Waits : P(i) => prep = <<>>
                     /\ \A i, j \in Waits : P(i) /\ P(j) => i = j
  BY DEF PieceInv
<1>4. \A i \in Waits : ~P(i) \/ startOta'
  OBVIOUS
<1> HIDE DEF P, Q
<1>5. Len(prep') <= Len(prep) /\ (prep = <<>> => prep' = <<>>)
  BY <1>2
<1>6. ASSUME NEW i \in Waits', Q(i) PROVE Len(prep') <= 1 /\ startOta'
  <2>1. i + d \in Waits /\ P(i + d)
    BY <1>1, <1>6
  <2>2. Len(prep) <= 1 /\ startOta'
    BY <1>3, <1>4, <2>1
  <2> QED
    BY <1>2, <2>2
<1>7. ASSUME NEW i \in Waits', NEW j \in Waits', Q(i), Q(j), i < j PROVE prep' = <<>>
  BY <1>1, <1>2, <1>3, <1>5, <1>7
<1>8. ASSUME NEW i \in Waits', NEW j \in Waits', NEW k \in Waits', i < j, j < k, Q(i), Q(j), Q(k)
      PROVE  FALSE
  BY <1>1, <1>2, <1>3, <1>8
<1>9. ASSUME long' = 1
      PROVE  /\ Len(prep') <= 1
             /\ \A i \in Waits' : Q(i) => prep' = <<>>
             /\ \A i, j \in Waits' : Q(i) /\ Q(j) => i = j
  <2>1. long = 1
    BY <1>9
  <2>2. Len(prep') <= 1
    BY <1>2, <1>3, <2>1
  <2>3. ASSUME NEW i \in Waits', Q(i) PROVE prep' = <<>>
    BY <1>1, <1>3, <1>5, <2>1, <2>3
  <2>4. ASSUME NEW i \in Waits', NEW j \in Waits', Q(i), Q(j) PROVE i = j
    BY <1>1, <1>2, <1>3, <2>1, <2>4
  <2> QED
    BY <2>2, <2>3, <2>4
<1> QED
  BY <1>6, <1>7, <1>8, <1>9 DEF PieceInv, Q

(* A piece that is handled is kept, the next one finds at most that. *)
LEMMA PieceKept ==
  ASSUME Sequence(events), PieceInv, Moved(1, <<>>), 1 \in Waits, Piece(events[1]),
         UNCHANGED <<handles, startOta, long>>,
         Sequence(prep), NEW v, prep' = Append(prep, v)
  PROVE  PieceInv' /\ Len(prep') <= 2
<1> DEFINE P(i) == Piece(events[i])
           Q(i) == Piece(events[i])'
<1>1. ASSUME NEW j \in Waits', Q(j) PROVE j \in Nat \ {0} /\ j + 1 \in Waits /\ P(j + 1) /\ 1 < j + 1
  <2>1. Len(<<>>) = 0
    BY ShortQueues
  <2>2. j \in Nat /\ j + 1 \in Waits /\ P(j + 1)
    BY <1>1, <2>1, PieceCame
  <2>3. j # 0
    BY DEF Waits
  <2> QED
    BY <2>2, <2>3
<1>2. Len(prep) \in Nat /\ Len(prep') = Len(prep) + 1 /\ (prep = <<>> <=> Len(prep) = 0)
  BY Queued, NoneQueued
<1>3. /\ \A i \in Waits : P(i) => Len(prep) <= 1 /\ startOta
      /\ \A i, j \in Waits : P(i) /\ P(j) /\ i < j => prep = <<>>
      /\ \A i, j, k \in Waits : ~(i < j /\ j < k /\ P(i) /\ P(j) /\ P(k))
      /\ long = 1 => /\ Len(prep) <= 1
                     /\ \A i \in Waits : P(i) => prep = <<>>
                     /\ \A i, j \in Waits : P(i) /\ P(j) => i = j
  BY DEF PieceInv
<1>4. P(1) /\ 1 \in Waits
  OBVIOUS
<1> HIDE DEF P, Q
<1>5. ASSUME NEW i \in Waits', Q(i) PROVE Len(prep') <= 1 /\ startOta' /\ long' # 1
  <2>1. prep = <<>> /\ startOta /\ ~(long = 1)
    BY <1>1, <1>3, <1>4, <1>5
  <2> QED
    BY <1>2, <2>1
<1>6. ASSUME NEW i \in Waits', NEW j \in Waits', Q(i), Q(j) PROVE ~(i < j)
  BY <1>1, <1>3, <1>4, <1>6
<1>7. Len(prep') <= 2 /\ (long' = 1 => Len(prep') <= 1)
  BY <1>2, <1>3, <1>4
<1> QED
  BY <1>5, <1>6, <1>7 DEF PieceInv, Q

(* A piece that is sent is the first, or the second of its write. *)
LEMMA PieceSent ==
  ASSUME Sequence(events), PieceInv, NEW e, Moved(0, <<e>>), Piece(e), startOta,
         UNCHANGED <<handles, startOta, prep>>, Sequence(prep),
         (long = 0 /\ prep = <<>> /\ Len(events) = 0) \/ long = 1, long' = long + 1
  PROVE  PieceInv'
<1> DEFINE P(i) == Piece(events[i])
           Q(i) == Piece(events[i])'
           n == Len(events)
<1>1. ASSUME NEW j \in Waits', Q(j) PROVE j \in Nat /\ (j = n + 1 \/ (j \in Waits /\ P(j) /\ j <= n))
  <2>1. PICK f : f = events'[j]
    OBVIOUS
  <2>2. Piece(f)
    BY <1>1, <2>1, EventKept
  <2>3. Len(<<e>>) = 1 /\ n \in Nat
    BY ShortQueues, NoneQueued
  <2>4. CASE \E i \in 1 .. Len(<<e>>) : j = n - 0 + i
    BY <2>3, <2>4
  <2>5. CASE j + 0 \in Waits /\ events'[j] = events[j + 0] /\ j \in Nat
    <3>1. j \in Waits /\ events'[j] = events[j] /\ j <= n /\ j \in Nat
      BY <2>3, <2>5 DEF Waits
    <3> QED
      BY <2>1, <2>2, <3>1
  <2> QED
    BY <2>4, <2>5, Came
<1>2. Len(prep) \in Nat /\ n \in Nat /\ (prep = <<>> <=> Len(prep) = 0)
  BY NoneQueued
<1>3. long = 1 => /\ Len(prep) <= 1
                  /\ \A i \in Waits : P(i) => prep = <<>>
                  /\ \A i, j \in Waits : P(i) /\ P(j) => i = j
  BY DEF PieceInv
<1>4. Len(prep) <= 1 /\ \A i \in Waits : P(i) => prep = <<>>
  BY <1>2, <1>3 DEF Waits
<1>5. \A i, j \in Waits : P(i) /\ P(j) => i = j
  BY <1>3 DEF Waits
<1>6. long = 0 => \A i \in Waits : ~P(i)
  BY DEF Waits
<1>7. long = 0 => prep = <<>>
  OBVIOUS
<1> HIDE DEF P, Q, n
<1>8. ASSUME NEW i \in Waits', Q(i) PROVE Len(prep') <= 1 /\ startOta'
  BY <1>4
<1>9. ASSUME NEW i \in Waits', NEW j \in Waits', Q(i), Q(j), i < j PROVE prep' = <<>>
  <2>1. i \in Waits /\ P(i)
    BY <1>1, <1>2, <1>9
  <2> QED
    BY <1>4, <2>1
<1>10. ASSUME NEW i \in Waits', NEW j \in Waits', NEW k \in Waits', i < j, j < k, Q(i), Q(j), Q(k)
       PROVE  FALSE
  <2>1. i \in Waits /\ P(i) /\ j \in Waits /\ P(j) /\ i \in Nat
    BY <1>1, <1>2, <1>10
  <2> QED
    BY <1>5, <1>10, <2>1
<1>11. ASSUME long' = 1
       PROVE  /\ Len(prep') <= 1
              /\ \A i \in Waits' : Q(i) => prep' = <<>>
              /\ \A i, j \in Waits' : Q(i) /\ Q(j) => i = j
  <2>1. long = 0
    BY <1>11
  <2>2. ASSUME NEW i \in Waits', Q(i) PROVE i = n + 1
    BY <1>1, <1>6, <2>1, <2>2
  <2> QED
    BY <1>4, <1>7, <2>1, <2>2
<1> QED
  BY <1>8, <1>9, <1>10, <1>11 DEF PieceInv, Q

(* A write that waits behind others belongs to a long write that has ended. *)
LEMMA LongMoves ==
  ASSUME Sequence(events), LongInv, NEW d, NEW more, Moved(d, more),
         \A i \in Waits : handles'["ota"] = handles["ota"] \/ events[i].kind # "write",
         long' > 0 /\ linked' => ready',
         \A i \in Waits : i > d /\ (Takes(events[i]) \/ events[i].kind = "exec") => long' = 0,
         \A i \in 1 .. Len(more) : Takes(more[i]) \/ more[i].kind = "exec" => long' = 0,
         \A i \in 1 .. Len(more) : handles'["ota"] = handles["ota"] \/ more[i].kind # "write",
         \A i \in 1 .. Len(more) : more[i].kind = "exec" =>
            Len(more) = 1 /\ \A j \in Waits : events[j].kind # "exec"
  PROVE  LongInv'
<1>1. ASSUME NEW j \in Waits', (Takes(events[j]) \/ events[j].kind = "exec")' PROVE long' = 0
  <2>1. PICK e : e = events'[j]
    OBVIOUS
  <2>2. Takes(e)' \/ e.kind = "exec"
    BY <1>1, <2>1
  <2>3. CASE \E i \in 1 .. Len(more) : e = more[i]
    BY <2>2, <2>3, EventKept
  <2>4. CASE j \in Nat /\ d \in {0, 1} /\ j + d \in Waits /\ e = events[j + d]
    <3>1. j + d > d
      BY <2>4 DEF Waits
    <3>2. Takes(e) \/ e.kind = "exec"
      BY <2>2, <2>4, EventKept
    <3> QED
      BY <2>4, <3>1, <3>2
  <2> QED
    BY <2>1, <2>3, <2>4, Came
<1>2. ASSUME NEW i \in Waits', NEW j \in Waits', events'[i].kind = "exec", events'[j].kind = "exec"
      PROVE  i = j
  <2>1. ASSUME NEW k \in Waits', events'[k].kind = "exec"
        PROVE  /\ k \in Nat /\ d \in {0, 1} /\ Len(events) \in Nat
               /\ \/ k + d \in Waits /\ events[k + d].kind = "exec"
                  \/ k = Len(events) - d + 1 /\ \A l \in Waits : events[l].kind # "exec"
    <3>1. CASE \E l \in 1 .. Len(more) : k = Len(events) - d + l /\ events'[k] = more[l]
      <4>1. PICK l \in 1 .. Len(more) : k = Len(events) - d + l /\ events'[k] = more[l]
        BY <3>1
      <4>2. Len(more) = 1 /\ \A m \in Waits : events[m].kind # "exec"
        BY <2>1, <4>1
      <4> QED
        BY <4>1, <4>2, Came, NoneQueued
    <3> QED
      BY <2>1, <3>1, Came, NoneQueued
  <2>2. \A k, l \in Waits : events[k].kind = "exec" /\ events[l].kind = "exec" => k = l
    BY DEF LongInv
  <2> QED
    BY <1>2, <2>1, <2>2
<1> QED
  BY <1>1, <1>2 DEF LongInv

-----------------------------------------------------------------------------
(* The handle of an attribute is found in the table again. *)
LEMMA HandleFound ==
  ASSUME StackInv, "ota" \in services, NEW i \in DOMAIN Attributes["ota"]
  PROVE  CharOf(FirstHandle("ota") + i) = Attributes["ota"][i]
<1> DEFINE A == Attributes["ota"]
           D == DOMAIN A
           f == FirstHandle("ota")
<1>1. D \subseteq Nat /\ f \in Nat
  BY DEF Attributes, FirstHandle
<1>2. handles["ota"] = [j \in D |-> f + j]
  BY DEF StackInv, HandlesOf, Profiles
<1>3. CharOf(f + i) = LET at == {j \in DOMAIN handles["ota"] : handles["ota"][j] = f + i} IN
                        IF at = {} THEN "invalid" ELSE A[CHOOSE j \in at : TRUE]
  BY DEF CharOf
<1>4. i \in D
  OBVIOUS
<1> HIDE DEF D, f, A
<1>5. {j \in DOMAIN handles["ota"] : handles["ota"][j] = f + i} = {i}
  <2> DEFINE h == handles["ota"]
  <2>1. h = [j \in D |-> f + j]
    BY <1>2
  <2> HIDE DEF h
  <2>2. DOMAIN h = D /\ \A j \in D : h[j] = f + j
    BY <2>1
  <2>3. ASSUME NEW j \in D PROVE h[j] = f + i <=> j = i
    BY <1>1, <1>4, <2>2
  <2>4. {j \in DOMAIN h : h[j] = f + i} = {i}
    BY <1>4, <2>2, <2>3
  <2> QED
    BY <2>4 DEF h
<1>6. CharOf(f + i) = A[i]
  BY <1>3, <1>5
<1> QED
  BY <1>6 DEF f, A

(* A write of the host comes last, and is found to be of the attribute it is for. *)
WrittenAs(e, char, prepared, value) ==
  /\ Moved(0, <<e>>)
  /\ e.kind = "write" /\ CharOf(e.handle) = char /\ e.prep = prepared /\ e.value = value

(* A write of the host names an attribute of its profile. *)
LEMMA WriteMoves ==
  ASSUME Sequence(events), StackInv, "ota" \in services,
         NEW char, NEW prepared, NEW value, Write(char, prepared, value)
  PROVE  \E e : WrittenAs(e, char, prepared, value)
<1>1. PICK i \in DOMAIN Attributes["ota"] :
        /\ Attributes["ota"][i] = char
        /\ Occurs([kind |-> "write", handle |-> FirstHandle("ota") + i,
                   prep |-> prepared, value |-> value])
  BY DEF Write
<1> DEFINE e == [kind |-> "write", handle |-> FirstHandle("ota") + i,
                 prep |-> prepared, value |-> value]
<1>2. e.kind = "write" /\ e.handle = FirstHandle("ota") + i /\ e.prep = prepared /\ e.value = value
  OBVIOUS
<1>3. events' = Append(events, e)
  BY <1>1 DEF Occurs
<1>4. CharOf(e.handle) = char
  BY <1>1, <1>2, HandleFound
<1> HIDE DEF e
<1>5. Moved(0, <<e>>) /\ Len(<<e>>) = 1 /\ <<e>>[1] = e
  BY <1>3, OccursMoves
<1> QED
  BY <1>2, <1>4, <1>5 DEF WrittenAs

-----------------------------------------------------------------------------
(* Most steps have nothing to do with what is sent: they leave the component alone,
   neither take nor bring a write, and at most end the host's sending.              *)
Idle(d, more) ==
  /\ Moved(d, more)
  /\ d = 1 => 1 \in Waits /\ events[1].kind \notin {"write", "exec"}
  /\ \A i \in 1 .. Len(more) : more[i].kind \notin {"write", "exec"}
  /\ \A i \in 1 .. Len(more) : d = 1 => more[i].kind # "mtu"
  /\ \A i \in Waits : handles'["ota"] = handles["ota"] \/ events[i].kind # "write"
  /\ services \subseteq services'
  /\ UNCHANGED <<component, prep, sending, next>>
  /\ ready' => ready
  /\ long' \in {long, 0} /\ (linked' /\ long' > 0 => linked /\ ready' = ready)

IdleStep ==
  HostInit \/ Registered \/ TableMade \/ AdvertisingStep \/ LinkEvent \/ LinkUp \/ LinkDown \/ ExchangeMtu

(* They are those that register the profiles, advertise, and make and lose links. *)
LEMMA IdleSteps ==
  ASSUME Sequence(events), StackInv, ApartInv, long \in Nat, IdleStep
  PROVE  \E d, more : /\ Idle(d, more)
                      /\ d = 1 \/ HostInit \/ LinkUp \/ LinkDown \/ ExchangeMtu
<1>1. CASE HostInit
  <2>1. PICK more : /\ Moved(0, more) /\ Len(more) = 2
                    /\ more[1] = [kind |-> "reg", profile |-> "ota", iface |-> 1]
                    /\ more[2] = [kind |-> "reg", profile |-> "dis", iface |-> 2]
    BY <1>1, HostInitMoves
  <2>2. UNCHANGED <<handles, services, component, prep, sending, next, ready, long, linked>>
    BY <1>1, HostInitMoves DEF stack, host, link
  <2>3. ASSUME NEW i \in 1 .. Len(more) PROVE more[i].kind \notin {"write", "exec"}
    <3>1. i = 1 \/ i = 2
      BY <2>1
    <3> QED
      BY <2>1, <3>1
  <2>4. Idle(0, more)
    BY <2>1, <2>2, <2>3 DEF Idle
  <2> QED
    BY <1>1, <2>4
<1>2. CASE Registered
  <2>1. /\ 1 \in Waits /\ events[1].kind = "reg"
        /\ UNCHANGED <<handles, services, component, prep, sending, next, ready, long, linked>>
    BY <1>2, RegisteredMoves DEF host, link
  <2>2. CASE Moved(1, <<>>)
    <3>1. Idle(1, <<>>)
      BY <2>1, <2>2, ShortQueues DEF Idle
    <3> QED
      BY <3>1
  <2>3. CASE \E more : Moved(1, more) /\ RegisteredAs(events[1].profile, more)
    <3>1. PICK more : Moved(1, more) /\ RegisteredAs(events[1].profile, more)
      BY <2>3
    <3>2. ASSUME NEW i \in 1 .. Len(more) PROVE more[i].kind \notin {"write", "exec", "mtu"}
      <4>1. CASE events[1].profile = "ota"
        <5>1. /\ Len(more) = 2 /\ more[1] = [kind |-> "advParams"]
              /\ more[2] = MakesTable("ota", Interface["ota"])
          BY <3>1, <4>1, Zenon DEF RegisteredAs
        <5>2. i = 1 \/ i = 2
          BY <5>1
        <5> QED
          BY <5>1, <5>2 DEF MakesTable
      <4>2. CASE events[1].profile # "ota"
        <5>1. Len(more) = 1 /\ more[1] = MakesTable("dis", Interface["dis"])
          BY <3>1, <4>2 DEF RegisteredAs
        <5>2. i = 1
          BY <5>1
        <5> QED
          BY <5>1, <5>2 DEF MakesTable
      <4> QED
        BY <4>1, <4>2
    <3>3. Idle(1, more)
      BY <2>1, <3>1, <3>2 DEF Idle
    <3> QED
      BY <3>3
  <2> QED
    BY <1>2, <2>2, <2>3, RegisteredMoves
<1>3. CASE TableMade
  <2>1. /\ Moved(1, <<>>) /\ 1 \in Waits /\ events[1].kind = "table"
        /\ UNCHANGED <<component, prep, sending, next, ready, long, linked>> /\ services \subseteq services'
    BY <1>3, TableIsOfItsProfile DEF host, link
  <2>2. ASSUME NEW i \in Waits, events[i].kind = "write" PROVE handles'["ota"] = handles["ota"]
    <3>1. "ota" \in services
      BY <2>2 DEF ApartInv, Known
    <3>2. handles["ota"] = HandlesOf("ota") /\ DOMAIN handles = Profiles /\ "ota" \in Profiles
      BY <3>1 DEF StackInv, Profiles
    <3>3. CASE \E p \in Profiles : handles' = [handles EXCEPT ![p] = HandlesOf(p)]
      BY <3>2, <3>3
    <3> QED
      BY <1>3, <3>3, TableIsOfItsProfile
  <2>3. Idle(1, <<>>)
    BY <2>1, <2>2, ShortQueues DEF Idle
  <2> QED
    BY <2>3
<1>4. CASE AdvertisingStep
  <2>1. /\ 1 \in Waits /\ events[1].kind \in {"advParams", "advData"}
        /\ UNCHANGED <<handles, services, component, prep, sending, next, ready, long, linked>>
    BY <1>4, AdvertisingMoves DEF host, stack
  <2>2. PICK more : Moved(1, more) /\ \A i \in 1 .. Len(more) : more[i].kind = "advData"
    <3>1. CASE Moved(1, <<>>)
      BY <3>1, ShortQueues
    <3>2. CASE \E more : Moved(1, more) /\ Len(more) = 1 /\ more[1] = [kind |-> "advData"]
      <4>1. PICK more : Moved(1, more) /\ Len(more) = 1 /\ more[1] = [kind |-> "advData"]
        BY <3>2
      <4>2. \A i \in 1 .. Len(more) : i = 1
        BY <4>1
      <4> QED
        BY <4>1, <4>2
    <3> QED
      BY <1>4, <3>1, <3>2, AdvertisingMoves
  <2>3. Idle(1, more)
    BY <2>1, <2>2 DEF Idle
  <2> QED
    BY <2>3
<1>5. CASE LinkEvent
  <2>1. /\ Moved(1, <<>>) /\ 1 \in Waits /\ events[1].kind \in {"mtu", "connect", "disconnect"}
        /\ UNCHANGED <<handles, services, component, prep, sending, next, ready, long, linked>>
    BY <1>5, LinkEventMoves DEF host, stack
  <2>2. Idle(1, <<>>)
    BY <2>1, ShortQueues DEF Idle
  <2> QED
    BY <2>2
<1>6. CASE LinkUp \/ LinkDown \/ ExchangeMtu
  <2>1. PICK e : /\ events' = Append(events, e)
                 /\ e.kind \in {"connect", "disconnect", "mtu"}
    BY <1>6 DEF LinkUp, LinkDown, ExchangeMtu, Occurs
  <2>2. /\ UNCHANGED <<handles, services, component, prep, sending, next>> /\ (ready' => ready)
        /\ long' \in {long, 0} /\ (linked' /\ long' > 0 => linked /\ ready' = ready)
    BY <1>6 DEF LinkUp, LinkDown, ExchangeMtu, stack, link, host
  <2>3. Moved(0, <<e>>) /\ Len(<<e>>) = 1 /\ <<e>>[1] = e
    BY <2>1, OccursMoves
  <2>4. \A i \in 1 .. Len(<<e>>) : <<e>>[i].kind \notin {"write", "exec"}
    <3>1. ASSUME NEW i \in 1 .. Len(<<e>>) PROVE <<e>>[i] = e
      BY <2>3
    <3> QED
      BY <2>1, <3>1
  <2>5. Idle(0, <<e>>)
    BY <2>2, <2>3, <2>4 DEF Idle
  <2> QED
    BY <1>6, <2>5
<1> QED
  BY <1>1, <1>2, <1>3, <1>4, <1>5, <1>6 DEF IdleStep

(* They keep the pieces, the long write and the session as they were. *)
LEMMA IdleKeeps ==
  ASSUME Sequence(events), Sequence(prep), PieceInv, LongInv, SessionInv, long \in Nat,
         NEW d, NEW more, Idle(d, more)
  PROVE  Sequence(events') /\ Sequence(prep') /\ PieceInv' /\ LongInv' /\ SessionInv'
<1>1. Moved(d, more) /\ UNCHANGED <<startOta, starts, offset, curSector, curPacket, fwBuf, delivered>>
  BY DEF Idle, component
<1>2. /\ \A i \in Waits : handles'["ota"] = handles["ota"] \/ events[i].kind # "write"
      /\ \A i \in 1 .. Len(more) : more[i].kind \notin {"write", "exec"}
      /\ long' \in {long, 0} /\ prep' = prep
  BY DEF Idle
<1>3. Sequence(events') /\ Sequence(prep')
  BY <1>1, <1>2 DEF Moved
<1>4. PieceInv'
  <2>1. startOta' \/ \A i \in Waits : ~Piece(events[i])
    BY <1>1 DEF PieceInv
  <2>2. Len(prep) \in Nat
    BY NoneQueued
  <2>3. ASSUME NEW i \in 1 .. Len(more) PROVE ~Piece(more[i]) /\ more[i].kind # "write"
    BY <1>2 DEF Piece, IsWrite
  <2> QED
    BY <1>1, <1>2, <2>1, <2>2, <2>3, PieceMoves
<1>5. LongInv'
  <2>1. long' > 0 /\ linked' => ready'
    BY DEF Idle, LongInv
  <2>2. ASSUME NEW i \in Waits, Takes(events[i]) \/ events[i].kind = "exec" PROVE long' = 0
    BY <1>2, <2>2 DEF LongInv
  <2>3. ASSUME NEW i \in 1 .. Len(more) PROVE more[i].kind # "write" /\ more[i].kind # "exec" /\ ~Takes(more[i])
    BY <1>2 DEF Takes, IsWrite
  <2> QED
    BY <1>1, <1>2, <2>1, <2>2, <2>3, LongMoves
<1>6. SessionInv'
  <2>1. (ready' => ready) /\ UNCHANGED <<sending, next>>
    BY DEF Idle
  <2> QED
    BY <1>1, <1>2, <2>1 DEF SessionInv
<1> QED
  BY <1>3, <1>4, <1>5, <1>6

-----------------------------------------------------------------------------
(* Numbers shifted, and continued with the last one *)
Shifted(num, n, d, len, last) ==
  [i \in 1 .. len |-> IF i + d <= n + 1 THEN num[i + d] ELSE last]

NumbersShift(n, d, c, x, y, num, l, m) ==
  /\ n \in Nat /\ d \in {0, 1} /\ d <= n /\ c \in Nat /\ x \in Nat /\ y \in {x, x + 1}
  /\ y = x + 1 => c = 1
  /\ num \in [1 .. n + 1 -> 0 .. x] /\ num[n + 1] = x
  /\ \A i, j \in 1 .. n + 1 : i <= j => num[i] <= num[j]
  /\ l \in Nat /\ l = n - d + c /\ m = Shifted(num, n, d, l + 1, y)

(* Numbers that never fall, and end with the last, still do when shifted so. *)
LEMMA ShiftedNumbers ==
  ASSUME NEW n, NEW d, NEW c, NEW x, NEW y, NEW num, NEW l, NEW m,
         NumbersShift(n, d, c, x, y, num, l, m)
  PROVE  /\ m \in [1 .. l + 1 -> 0 .. y] /\ m[1] = num[1 + d] /\ m[l + 1] = y
         /\ \A i, j \in 1 .. l + 1 : i <= j => m[i] <= m[j]
         /\ \A j \in 1 .. n - d : m[j] = num[j + d] /\ m[j + 1] = num[j + d + 1]
         /\ \A i \in 1 .. c : m[n - d + i] = (IF i = 1 THEN x ELSE y) /\ m[n - d + i + 1] = y
<1> USE DEF NumbersShift
<1>1. /\ \A i \in 1 .. l + 1 : m[i] = IF i + d <= n + 1 THEN num[i + d] ELSE y
      /\ DOMAIN m = 1 .. l + 1 /\ m = [i \in 1 .. l + 1 |-> m[i]]
  BY DEF Shifted
<1>2. \A i \in 1 .. n + 1 : num[i] \in 0 .. x
  OBVIOUS
<1>3. \A i \in 1 .. l + 1 : m[i] \in 0 .. y
  <2>1. ASSUME NEW i \in 1 .. l + 1 PROVE m[i] \in 0 .. y
    <3>1. CASE i + d <= n + 1
      <4>1. i + d \in 1 .. n + 1
        BY <3>1
      <4>2. m[i] = num[i + d]
        BY <1>1, <3>1
      <4> QED
        BY <1>2, <4>1, <4>2
    <3>2. CASE ~(i + d <= n + 1)
      BY <1>1, <3>2
    <3> QED
      BY <3>1, <3>2
  <2> QED
    BY <2>1
<1>4. m \in [1 .. l + 1 -> 0 .. y]
  BY <1>1, <1>3
<1>5. ASSUME NEW j \in 1 .. n - d PROVE m[j] = num[j + d] /\ m[j + 1] = num[j + d + 1]
  <2>1. j \in 1 .. l + 1 /\ j + 1 \in 1 .. l + 1 /\ j + d <= n + 1 /\ j + 1 + d <= n + 1
    OBVIOUS
  <2>2. j + 1 + d = j + d + 1
    OBVIOUS
  <2> QED
    BY <1>1, <2>1, <2>2
<1>6. ASSUME NEW i \in 1 .. c
      PROVE m[n - d + i] = (IF i = 1 THEN x ELSE y) /\ m[n - d + i + 1] = y
  <2> DEFINE a == n - d + i
  <2>1. a \in 1 .. l + 1 /\ a + 1 \in 1 .. l + 1 /\ a + d = n + i /\ a + 1 + d = n + i + 1
    OBVIOUS
  <2> HIDE DEF a
  <2>2. m[a + 1] = y
    BY <1>1, <2>1
  <2>3. m[a] = IF n + i <= n + 1 THEN num[n + i] ELSE y
    BY <1>1, <2>1
  <2>4. CASE i = 1
    BY <2>2, <2>3, <2>4 DEF a
  <2>5. CASE i # 1
    BY <2>2, <2>3, <2>5 DEF a
  <2> QED
    BY <2>4, <2>5
<1>7. m[1] = num[1 + d]
  <2>1. 1 \in 1 .. l + 1 /\ 1 + d <= n + 1
    OBVIOUS
  <2> QED
    BY <1>1, <2>1
<1>8. m[l + 1] = y
  <2>1. l + 1 \in 1 .. l + 1 /\ l + 1 + d = n + 1 + c
    OBVIOUS
  <2>2. m[l + 1] = IF n + 1 + c <= n + 1 THEN num[n + 1 + c] ELSE y
    BY <1>1, <2>1
  <2>3. CASE c = 0
    BY <2>2, <2>3
  <2>4. CASE c # 0
    BY <2>2, <2>4
  <2> QED
    BY <2>3, <2>4
<1>9. ASSUME NEW i \in 1 .. l + 1, NEW j \in 1 .. l + 1, i <= j PROVE m[i] <= m[j]
  <2>1. CASE j + d <= n + 1
    <3>1. i + d <= n + 1 /\ i + d \in 1 .. n + 1 /\ j + d \in 1 .. n + 1 /\ i + d <= j + d
      BY <1>9, <2>1
    <3>2. m[i] = num[i + d] /\ m[j] = num[j + d]
      BY <1>1, <2>1, <3>1
    <3> QED
      BY <3>1, <3>2
  <2>2. CASE ~(j + d <= n + 1)
    <3>1. m[j] = y
      BY <1>1, <2>2
    <3> QED
      BY <1>3, <3>1
  <2> QED
    BY <2>1, <2>2
<1> QED
  BY <1>4, <1>5, <1>6, <1>7, <1>8, <1>9

(* The waiting events keep their numbers when one is taken off; one that is added is
   numbered with the packet the host sends.                                          *)
LEMMA Renumbered ==
  ASSUME Sequence(events), next \in Nat, NEW d, NEW more, Moved(d, more),
         NEW num \in [1 .. Len(events) + 1 -> 0 .. next], Numbered(num),
         \A i \in Waits : handles'["ota"] = handles["ota"] \/ events[i].kind # "write",
         sending' = sending, curPacket' = num[1 + d], NEW k, k = next,
         \/ /\ next' = next
            /\ \A i \in 1 .. Len(more) : more[i].kind = "write" => handles'["ota"] = handles["ota"]
            /\ \A i \in 1 .. Len(more) : ~Takes(more[i])
         \/ /\ next' = next + 1 /\ Len(more) = 1 /\ Takes(more[1])
            /\ handles'["ota"] = handles["ota"]
            /\ more[1].kind = "write" => Written(more[1].value, k)
            /\ more[1].kind = "exec" =>
                 Held(k)' /\ (prep' # <<>> \/ \E j \in Waits' : j <= Len(events) - d /\ Piece(events[j])'),
         \A i \in Waits : i > d /\ Takes(events[i]) /\ events[i].kind = "exec" =>
            Held(num[i])' /\ (prep' # <<>> \/ \E j \in Waits' : j + d < i /\ Piece(events[j])')
  PROVE  (\E m \in [1 .. Len(events) + 1 -> 0 .. next] : Numbered(m))'
<1> DEFINE n == Len(events)
           T(i) == Takes(events[i])
           U(i) == Takes(events[i])'
<1>1. /\ n \in Nat /\ d \in {0, 1} /\ d <= n /\ Len(more) \in Nat
      /\ Len(events') = n - d + Len(more) /\ Len(events') \in Nat
  BY NoneQueued DEF Moved
<1>2. PICK m : m = Shifted(num, n, d, Len(events') + 1, next')
  OBVIOUS
<1>3. /\ num[1] = curPacket /\ num[n + 1] = next
      /\ \A i, j \in 1 .. n + 1 : i <= j => num[i] <= num[j]
      /\ \A i \in 1 .. n : num[i + 1] = IF T(i) THEN num[i] + 1 ELSE num[i]
  BY DEF Numbered, Waits
<1>4. next' \in {next, next + 1} /\ (next' = next + 1 => Len(more) = 1) /\ next' \in Nat
  OBVIOUS
<1>5. /\ m \in [1 .. Len(events') + 1 -> 0 .. next'] /\ m[1] = num[1 + d] /\ m[Len(events') + 1] = next'
      /\ \A i, j \in 1 .. Len(events') + 1 : i <= j => m[i] <= m[j]
      /\ \A j \in 1 .. n - d : m[j] = num[j + d] /\ m[j + 1] = num[j + d + 1]
      /\ \A i \in 1 .. Len(more) : /\ m[n - d + i] = (IF i = 1 THEN next ELSE next')
                                   /\ m[n - d + i + 1] = next'
  <2> DEFINE l == Len(events')
             c == Len(more)
             x == next
             y == next'
  <2>1. NumbersShift(n, d, c, x, y, num, l, m)
    BY <1>1, <1>2, <1>3, <1>4 DEF NumbersShift
  <2> HIDE DEF n, l, c, x, y
  <2>2. /\ m \in [1 .. l + 1 -> 0 .. y] /\ m[1] = num[1 + d] /\ m[l + 1] = y
        /\ \A i, j \in 1 .. l + 1 : i <= j => m[i] <= m[j]
        /\ \A j \in 1 .. n - d : m[j] = num[j + d] /\ m[j + 1] = num[j + d + 1]
        /\ \A i \in 1 .. c : m[n - d + i] = (IF i = 1 THEN x ELSE y) /\ m[n - d + i + 1] = y
    BY <2>1, ShiftedNumbers
  <2> QED
    BY <2>2 DEF n, l, c, x, y
<1>10. ASSUME NEW j \in Waits'
       PROVE  /\ m[j + 1] = IF U(j) THEN m[j] + 1 ELSE m[j]
              /\ U(j) /\ events'[j].kind = "write" => Written(events[j].value, m[j])'
              /\ U(j) /\ events'[j].kind = "exec" =>
                   Held(m[j])' /\ (prep' # <<>> \/ \E i \in Waits' : i < j /\ Piece(events[i])')
  <2>1. PICK e : e = events'[j]
    OBVIOUS
  <2>2. \A v, l : Written(v, l)' <=> Written(v, l)
    BY DEF Written
  <2>3. CASE j \in 1 .. n - d /\ j + d \in Waits /\ e = events[j + d] /\ j \in Nat
    <3>1. U(j) <=> T(j + d)
      <4>1. Takes(e)' <=> Takes(e)
        BY <2>3, EventKept
      <4> QED
        BY <2>1, <2>3, <4>1
    <3>2. m[j] = num[j + d] /\ m[j + 1] = num[j + d + 1] /\ j + d \in 1 .. n /\ j + d > d
      <4>1. j + d \in 1 .. n /\ j + d > d
        BY <1>1, <2>3
      <4>2. m[j] = num[j + d] /\ m[j + 1] = num[j + d + 1]
        <5>1. \A i \in 1 .. n - d : m[i] = num[i + d] /\ m[i + 1] = num[i + d + 1]
          BY <1>5
        <5> QED
          BY <2>3, <5>1
      <4> QED
        BY <4>1, <4>2
    <3>3. m[j + 1] = IF U(j) THEN m[j] + 1 ELSE m[j]
      BY <1>3, <3>1, <3>2
    <3>4. ASSUME U(j), e.kind = "write" PROVE Written(events[j].value, m[j])'
      <4>1. Written(e.value, num[j + d])
        BY <2>3, <3>1, <3>4 DEF Numbered
      <4> QED
        BY <2>1, <2>2, <3>2, <4>1
    <3>5. ASSUME U(j), e.kind = "exec"
          PROVE  Held(m[j])' /\ (prep' # <<>> \/ \E i \in Waits' : i < j /\ Piece(events[i])')
      <4>1. /\ Held(num[j + d])'
            /\ prep' # <<>> \/ \E i \in Waits' : i + d < j + d /\ Piece(events[i])'
        BY <2>3, <3>1, <3>2, <3>5
      <4>2. \A i \in Waits' : i + d < j + d => i < j
        BY <1>1, <2>3 DEF Waits
      <4> QED
        BY <3>2, <4>1, <4>2
    <3> QED
      BY <2>1, <3>3, <3>4, <3>5
  <2>4. CASE \E i \in 1 .. Len(more) : j = n - d + i /\ e = more[i]
    <3>1. PICK i \in 1 .. Len(more) : j = n - d + i /\ e = more[i]
      BY <2>4
    <3>2. U(j) <=> Takes(e)
      <4>1. Takes(e)' <=> Takes(e)
        BY <3>1, EventKept
      <4> QED
        BY <2>1, <4>1
    <3>3. /\ m[j] = IF i = 1 THEN next ELSE next'
          /\ m[j + 1] = next'
      BY <1>5, <3>1
    <3>4. CASE /\ next' = next /\ ~Takes(e)
      BY <2>1, <3>2, <3>3, <3>4
    <3>5. CASE /\ next' = next + 1 /\ Len(more) = 1 /\ Takes(more[1])
               /\ more[1].kind = "write" => Written(more[1].value, k)
               /\ more[1].kind = "exec" =>
                    Held(k)' /\ (prep' # <<>> \/ \E l \in Waits' : l <= n - d /\ Piece(events[l])')
      <4>1. i = 1 /\ e = more[1] /\ j = n - d + 1
        BY <1>1, <3>1, <3>5
      <4>2. m[j] = k /\ m[j + 1] = m[j] + 1 /\ U(j)
        BY <3>2, <3>3, <3>5, <4>1
      <4>3. e.kind = "write" => Written(events[j].value, m[j])'
        BY <2>1, <2>2, <3>5, <4>1, <4>2
      <4>4. ASSUME NEW l \in Waits', l <= n - d PROVE l < j
        BY <1>1, <4>1, <4>4 DEF Waits
      <4>5. e.kind = "exec" =>
              Held(m[j])' /\ (prep' # <<>> \/ \E l \in Waits' : l < j /\ Piece(events[l])')
        BY <3>5, <4>1, <4>2, <4>4
      <4> QED
        BY <2>1, <4>2, <4>3, <4>5
    <3> QED
      BY <3>1, <3>4, <3>5
  <2> QED
    BY <2>1, <2>3, <2>4, Came
<1>11. Numbered(m)'
  <2>1. m[1] = curPacket'
    BY <1>5
  <2> HIDE DEF n, T, U
  <2> QED
    BY <1>5, <1>10, <2>1 DEF Numbered, U
<1> QED
  BY <1>5, <1>11

(* An event that is not taken off waits on. *)
LEMMA Stays ==
  ASSUME Sequence(events), NEW d, NEW more, Moved(d, more),
         \A i \in Waits : handles'["ota"] = handles["ota"] \/ events[i].kind # "write",
         NEW i \in Waits, i > d
  PROVE  /\ i - d \in Waits' /\ events'[i - d] = events[i] /\ i - d + d = i /\ i \in Nat
         /\ Piece(events[i - d])' <=> Piece(events[i])
<1>1. /\ Len(events) \in Nat /\ d \in {0, 1} /\ Len(more) \in Nat
      /\ Len(events') = Len(events) - d + Len(more) /\ i \in Nat /\ i <= Len(events)
  BY NoneQueued DEF Moved, Waits
<1>2. i - d \in 1 .. Len(events) - d /\ i - d + d = i
  BY <1>1
<1>3. events'[i - d] = events[i]
  BY <1>2 DEF Moved
<1>4. i - d \in Waits'
  BY <1>1, <1>2 DEF Waits
<1>5. Piece(events[i - d])' <=> Piece(events[i])
  <2>1. PICK e : e = events[i]
    OBVIOUS
  <2>2. Piece(e)' <=> Piece(e)
    BY <2>1, EventKept
  <2>3. PICK j : j = i - d
    OBVIOUS
  <2>4. Piece(events[j])' <=> Piece(events[i])
    BY <1>3, <2>1, <2>2, <2>3
  <2>5. j \in Nat /\ i - d = j
    BY <1>2, <2>3
  <2> QED
    BY <2>4, <2>5 DEF Moved
<1> QED
  BY <1>1, <1>2, <1>3, <1>4, <1>5

(* The pieces of a packet are kept: those that wait, and those that were prepared. *)
LEMMA HeldMoves ==
  ASSUME Sequence(events), Sequence(prep), NEW d, NEW more, Moved(d, more),
         \A i \in Waits : handles'["ota"] = handles["ota"] \/ events[i].kind # "write",
         \A i \in 1 .. Len(more) : ~Piece(more[i]),
         \A i \in 1 .. Len(more) : more[i].kind = "write" => handles'["ota"] = handles["ota"],
         sending' = sending,
         \/ prep' = prep /\ (d = 1 => ~Piece(events[1]))
         \/ 1 \in Waits /\ Piece(events[1]) /\ prep' = Append(prep, events[1].value)
  PROVE  /\ \A k : Held(k) => Held(k)'
         /\ \A i \in Nat : prep # <<>> \/ (\E j \in Waits : j < i /\ Piece(events[j])) =>
                  prep' # <<>> \/ \E j \in Waits' : j + d < i /\ Piece(events[j])'
<1>1. /\ Len(prep) \in Nat /\ (prep = <<>> <=> Len(prep) = 0)
      /\ \A v : /\ Sequence(Append(prep, v)) /\ Len(Append(prep, v)) = Len(prep) + 1
                /\ \A i \in 1 .. Len(prep) : Append(prep, v)[i] = prep[i]
                /\ Append(prep, v)[Len(prep) + 1] = v
  BY Queued, NoneQueued
<1>2. ASSUME NEW v, prep' = Append(prep, v)
      PROVE  prep' # <<>> /\ prep'[1] = IF prep = <<>> THEN v ELSE prep[1]
  <2>1. prep' # <<>>
    BY <1>1, <1>2, NoneQueued
  <2>2. CASE prep = <<>>
    BY <1>1, <1>2, <2>1, <2>2
  <2>3. CASE prep # <<>>
    BY <1>1, <1>2, <2>1, <2>3
  <2> QED
    BY <2>2, <2>3
<1>3. ASSUME NEW k, Held(k) PROVE Held(k)'
  <2>1. ASSUME NEW j \in Waits', Piece(events[j])' PROVE (events[j].value = Packet(sending, k))'
    <3>1. PICK e : e = events'[j]
      OBVIOUS
    <3>2. Piece(e)'
      BY <2>1, <3>1
    <3>3. CASE \E i \in 1 .. Len(more) : e = more[i]
      <4>1. PICK i \in 1 .. Len(more) : e = more[i]
        BY <3>3
      <4>2. handles'["ota"] = handles["ota"] \/ e.kind # "write"
        BY <4>1
      <4>3. Piece(e)
        BY <3>2, <4>2, EventKept
      <4> QED
        BY <4>1, <4>3
    <3>4. CASE j + d \in Waits /\ e = events[j + d]
      <4>1. Piece(e)
        BY <3>2, <3>4, EventKept
      <4>2. e.value = Packet(sending, k)
        BY <1>3, <3>4, <4>1 DEF Held
      <4> QED
        BY <3>1, <4>2
    <3> QED
      BY <3>1, <3>3, <3>4, Came
  <2>2. ASSUME prep' # <<>> PROVE prep'[1] = Packet(sending, k)
    <3>1. CASE prep' = prep
      BY <1>3, <2>2, <3>1 DEF Held
    <3>2. CASE 1 \in Waits /\ Piece(events[1]) /\ prep' = Append(prep, events[1].value)
      BY <1>2, <1>3, <3>2 DEF Held
    <3> QED
      BY <3>1, <3>2
  <2> QED
    BY <2>1, <2>2 DEF Held
<1>4. ASSUME NEW i \in Nat, prep # <<>> \/ (\E j \in Waits : j < i /\ Piece(events[j]))
      PROVE  prep' # <<>> \/ \E j \in Waits' : j + d < i /\ Piece(events[j])'
  <2>1. CASE 1 \in Waits /\ Piece(events[1]) /\ prep' = Append(prep, events[1].value)
    BY <1>2, <2>1
  <2>2. CASE prep' = prep /\ (d = 1 => ~Piece(events[1]))
    <3>1. CASE prep # <<>>
      BY <2>2, <3>1
    <3>2. CASE \E j \in Waits : j < i /\ Piece(events[j])
      <4>1. PICK j \in Waits : j < i /\ Piece(events[j])
        BY <3>2
      <4>2. j > d
        BY <2>2, <4>1 DEF Moved, Waits
      <4>3. j - d \in Waits' /\ j - d + d = j /\ Piece(events[j - d])'
        BY <4>1, <4>2, Stays
      <4>4. PICK l : l = j - d
        OBVIOUS
      <4>5. l \in Waits' /\ l + d < i /\ Piece(events[l])'
        BY <4>1, <4>3, <4>4
      <4> QED
        BY <4>5
    <3> QED
      BY <1>4, <3>1, <3>2
  <2> QED
    BY <2>1, <2>2
<1> QED
  BY <1>3, <1>4

(* A step that neither takes nor brings a packet leaves the flow as it was. *)
LEMMA FlowKept ==
  ASSUME Sequence(events), Sequence(prep), next \in Nat, long \in Nat, FlowInv, LongInv,
         NEW d, NEW more, Moved(d, more), d = 1 => 1 \in Waits /\ ~Takes(events[1]),
         \A i \in Waits : handles'["ota"] = handles["ota"] \/ events[i].kind # "write",
         \A i \in 1 .. Len(more) : ~Takes(more[i]) /\ ~Piece(more[i]),
         \A i \in 1 .. Len(more) : more[i].kind = "write" => handles'["ota"] = handles["ota"],
         UNCHANGED <<hasBuf, sending, next, curSector, curPacket, offset, fwBuf, starts>>,
         startOta' => startOta, ready' => ready,
         long' \in {long, 0}, linked' /\ long' > 0 => linked,
         \/ prep' = prep /\ (d = 1 => ~Piece(events[1]))
         \/ 1 \in Waits /\ Piece(events[1]) /\ prep' = Append(prep, events[1].value)
         \/ d = 1 /\ events[1].kind = "exec"
  PROVE  FlowInv'
<1> SUFFICES ASSUME starts = 1, startOta PROVE Quiet' \/ Streams'
  BY DEF FlowInv
<1>1. d \in {0, 1}
  BY DEF Moved
<1>2. CASE Quiet
  <2>1. ASSUME NEW j \in Waits' PROVE ~(Takes(events[j])')
    <3>1. PICK e : e = events'[j]
      OBVIOUS
    <3>2. CASE \E i \in 1 .. Len(more) : e = more[i]
      <4>1. ~Takes(e) /\ (handles'["ota"] = handles["ota"] \/ e.kind # "write")
        BY <3>2
      <4>2. ~(Takes(e)')
        BY <4>1, EventKept
      <4> QED
        BY <3>1, <4>2
    <3>3. CASE j + d \in Waits /\ e = events[j + d]
      <4>1. ~Takes(e) /\ (handles'["ota"] = handles["ota"] \/ e.kind # "write")
        BY <1>2, <3>3 DEF Quiet
      <4>2. ~(Takes(e)')
        BY <4>1, EventKept
      <4> QED
        BY <3>1, <4>2
    <3> QED
      BY <3>1, <3>2, <3>3, Came
  <2>2. ready' => sending' >= Sectors \/ next' >= Packets(sending)'
    BY <1>2 DEF Quiet, Packets, Bytes
  <2>3. linked' => long' = 0
    BY <1>2 DEF Quiet
  <2> QED
    BY <2>1, <2>2, <2>3 DEF Quiet
<1>3. CASE Streams
  <2>1. PICK num \in [1 .. Len(events) + 1 -> 0 .. next] : Numbered(num)
    BY <1>3 DEF Streams
  <2>2. ASSUME d = 1 PROVE num[1 + d] = num[1]
    <3>1. ~Takes(events[1]) /\ 1 \in Waits
      BY <2>2
    <3> QED
      BY <2>1, <2>2, <3>1 DEF Numbered
  <2>3. curPacket' = num[1 + d]
    <3>1. num[1] = curPacket
      BY <2>1 DEF Numbered
    <3>2. d = 0 => 1 + d = 1
      OBVIOUS
    <3> QED
      BY <1>1, <2>2, <3>1, <3>2
  <2>4. CASE d = 1 /\ events[1].kind = "exec"
    <3>1. ASSUME NEW i \in Waits, i > d PROVE events[i].kind # "exec"
      BY <2>4, <3>1 DEF LongInv
    <3>2. long' = 0
      BY <2>4 DEF LongInv
    <3>3. (\E m \in [1 .. Len(events) + 1 -> 0 .. next] : Numbered(m))'
      <4>1. PICK k : k = next
        OBVIOUS
      <4> QED
        BY <2>1, <2>3, <3>1, <4>1, Renumbered
    <3> QED
      BY <1>3, <3>2, <3>3 DEF Streams, Packets, Bytes
  <2>5. CASE \/ prep' = prep /\ (d = 1 => ~Piece(events[1]))
             \/ 1 \in Waits /\ Piece(events[1]) /\ prep' = Append(prep, events[1].value)
    <3>1. /\ \A k : Held(k) => Held(k)'
          /\ \A i \in Nat : prep # <<>> \/ (\E j \in Waits : j < i /\ Piece(events[j])) =>
                  prep' # <<>> \/ \E j \in Waits' : j + d < i /\ Piece(events[j])'
      BY <2>5, HeldMoves
    <3>2. ASSUME NEW i \in Waits, i > d, Takes(events[i]), events[i].kind = "exec"
          PROVE  Held(num[i])' /\ (prep' # <<>> \/ \E j \in Waits' : j + d < i /\ Piece(events[j])')
      <4>1. Held(num[i]) /\ (prep # <<>> \/ \E j \in Waits : j < i /\ Piece(events[j])) /\ i \in Nat
        BY <2>1, <3>2 DEF Numbered, Waits
      <4> QED
        BY <3>1, <4>1
    <3>3. (\E m \in [1 .. Len(events) + 1 -> 0 .. next] : Numbered(m))'
      <4>1. PICK k : k = next
        OBVIOUS
      <4> QED
        BY <2>1, <2>3, <3>2, <4>1, Renumbered
    <3>4. ASSUME long' > 0
          PROVE  /\ next' < Packets(sending)' /\ Held(next)'
                 /\ prep' # <<>> \/ \E i \in Waits' : Piece(events[i])'
      <4>1. /\ next < Packets(sending) /\ Held(next)
            /\ prep # <<>> \/ \E i \in Waits : Piece(events[i])
        BY <1>3, <3>4 DEF Streams
      <4>2. prep # <<>> \/ \E i \in Waits : i < Len(events) + 1 /\ Piece(events[i])
        <5>1. \A i \in Waits : i < Len(events) + 1
          BY NoneQueued DEF Waits
        <5> QED
          BY <4>1, <5>1
      <4>3. prep' # <<>> \/ \E i \in Waits' : Piece(events[i])'
        <5>1. Len(events) + 1 \in Nat
          BY NoneQueued
        <5> QED
          BY <3>1, <4>2, <5>1
      <4>4. PICK k : k = next
        OBVIOUS
      <4>5. Held(k)'
        BY <3>1, <4>1, <4>4
      <4> QED
        BY <4>1, <4>3, <4>4, <4>5 DEF Packets, Bytes
    <3>5. /\ hasBuf' /\ sending' < Sectors /\ curSector' = sending' /\ next' <= Packets(sending)'
          /\ offset' = curPacket' * Chunk
          /\ fwBuf' = {<<k * Chunk, <<sending', k>>>> : k \in 0 .. curPacket' - 1}
      BY <1>3 DEF Streams, Packets, Bytes
    <3> QED
      BY <3>3, <3>4, <3>5 DEF Streams, Sectors, Packets, Bytes
  <2> QED
    BY <2>4, <2>5
<1> QED
  BY <1>2, <1>3 DEF FlowInv

(* A packet the host has written is one of the image, in its place. *)
LEMMA WrittenPlace ==
  ASSUME sending \in Nat, sending < Sectors, NEW k \in Nat, k < Packets(sending), NEW p, Written(p, k)
  PROVE  /\ p \in PacketRecord /\ p.unit = <<sending, k>> /\ p.sector \in {sending, LastMark}
         /\ p.sector = LastMark => sending = Sectors - 1
         /\ p.seq = Eof <=> k + 1 = Packets(sending)
         /\ k + 1 < Packets(sending) => p.len = Chunk
         /\ k * Chunk \in Nat /\ k * Chunk < SectorBytes
         /\ k * Chunk + p.len <= BufLength
<1> DEFINE r == Packet(sending, k)
<1>1. /\ r \in PacketRecord /\ r.unit = <<sending, k>> /\ r.sector = sending
      /\ r.seq = Eof <=> k + 1 = Packets(sending)
      /\ k + 1 < Packets(sending) => r.len = Chunk
      /\ k * Chunk \in Nat /\ k * Chunk < SectorBytes
      /\ k * Chunk + r.len <= BufLength
  BY PacketPlace
<1> HIDE DEF r
<1>2. PICK s \in {sending, LastMark} :
        p = [r EXCEPT !.sector = s] /\ (s = LastMark => sending = Sectors - 1)
  BY DEF Written, r
<1>3. s \in Nat
  BY DEF LastMark
<1>4. p.sector = s /\ p.seq = r.seq /\ p.len = r.len /\ p.unit = r.unit /\ p \in PacketRecord
  BY <1>1, <1>2, <1>3 DEF PacketRecord
<1> QED
  BY <1>1, <1>2, <1>4

(* A packet whose turn it is, is the next one of its sector. *)
LEMMA DuePlace ==
  ASSUME Sequence(events), Streams, {sending, next} \subseteq Nat, 1 \in Waits, Takes(events[1]),
         NEW p, p = IF events[1].kind = "write" THEN events[1].value ELSE prep[1]
  PROVE  /\ curPacket \in Nat /\ curPacket < Packets(sending) /\ Written(p, curPacket)
         /\ events[1].kind # "write" => events[1].kind = "exec" /\ prep # <<>>
<1>1. PICK num \in [1 .. Len(events) + 1 -> 0 .. next] : Numbered(num)
  BY DEF Streams
<1>2. Len(events) \in Nat /\ Len(events) >= 1
  BY NoneQueued DEF Waits
<1>3. 1 \in 1 .. Len(events) + 1 /\ 2 \in 1 .. Len(events) + 1 /\ 1 + 1 = 2
  BY <1>2
<1>4. num[1] = curPacket /\ num[2] = num[1] + 1
  BY <1>1, <1>3 DEF Numbered
<1>5. num[1] \in 0 .. next /\ num[2] \in 0 .. next
  BY <1>3
<1>6. curPacket \in Nat /\ curPacket + 1 <= next
  BY <1>4, <1>5
<1>7. next <= Packets(sending) /\ sending < Sectors
  BY DEF Streams
<1>8. curPacket < Packets(sending)
  <2>1. Packets(sending) \in Nat
    BY <1>7, PacketCount
  <2> QED
    BY <1>6, <1>7, <2>1
<1>9. ASSUME events[1].kind = "write" PROVE Written(p, curPacket)
  BY <1>1, <1>4, <1>9 DEF Numbered
<1>10. ASSUME events[1].kind # "write"
       PROVE  events[1].kind = "exec" /\ prep # <<>> /\ Written(p, curPacket)
  <2>1. events[1].kind = "exec"
    BY <1>10 DEF Takes, IsWrite
  <2>2. Held(num[1]) /\ (prep # <<>> \/ \E j \in Waits : j < 1 /\ Piece(events[j]))
    BY <1>1, <2>1 DEF Numbered
  <2>3. prep # <<>>
    BY <2>2 DEF Waits
  <2>4. p = Packet(sending, curPacket)
    BY <1>4, <1>10, <2>2, <2>3 DEF Held
  <2>5. p = [Packet(sending, curPacket) EXCEPT !.sector = sending]
    BY <2>4 DEF Packet
  <2>6. sending # LastMark
    <3>1. sending < Sectors /\ Sectors <= LastMark /\ LastMark \in Nat /\ Sectors \in Nat
      BY <1>1, Sizes, SectorCount DEF Streams, LastMark
    <3> QED
      BY <3>1
  <2> QED
    BY <2>1, <2>3, <2>5, <2>6 DEF Written
<1> QED
  BY <1>6, <1>8, <1>9, <1>10

(* An answer that does not reach the host, or tells it nothing, changes nothing there. *)
LEMMA ReadsNothing ==
  ASSUME HostReads, answer'.status \notin {"started", "stopped", "indErr", "success"}
  PROVE  UNCHANGED <<ready, sending, next, long>>
BY DEF HostReads, Reaches

(* At the beginning of a sector all that waits has number 0. *)
LEMMA FreshNumbers ==
  ASSUME Sequence(events'), curPacket' = 0, next' = 0, \A j \in Waits' : ~(Takes(events[j])')
  PROVE  (\E num \in [1 .. Len(events) + 1 -> 0 .. next] : Numbered(num))'
<1>1. PICK m : m = [i \in 1 .. Len(events') + 1 |-> 0]
  OBVIOUS
<1>2. Len(events') \in Nat
  BY NoneQueued
<1>3. \A i \in 1 .. Len(events') + 1 : m[i] = 0
  BY <1>1
<1>4. m \in [1 .. Len(events') + 1 -> 0 .. next']
  BY <1>1
<1>5. \A i \in Waits' : i \in 1 .. Len(events') + 1 /\ i + 1 \in 1 .. Len(events') + 1
  BY <1>2 DEF Waits
<1>6. 1 \in 1 .. Len(events') + 1 /\ Len(events') + 1 \in 1 .. Len(events') + 1
  BY <1>2
<1>7. Numbered(m)'
  BY <1>3, <1>5, <1>6 DEF Numbered
<1> QED
  BY <1>4, <1>7

(* A packet whose turn it is fits, is the next of its sector, and the flow goes on. *)
LEMMA FlowTaken ==
  ASSUME Sequence(events), Sequence(prep), {sending, next} \subseteq Nat, FlowInv, LongInv, startOta,
         Moved(1, <<>>), 1 \in Waits, Takes(events[1]),
         NEW p, p = IF events[1].kind = "write" THEN events[1].value ELSE prep[1],
         RecvFw(p), HostReads, UNCHANGED <<handles, prep, linked>>
  PROVE  FlowInv'
<1>1. PacketCopied(p) \/ SectorEnd(p)
  BY DEF RecvFw
<1>2. starts' = starts /\ hasBuf' = hasBuf
  BY <1>1 DEF PacketCopied, SectorEnd
<1> SUFFICES ASSUME starts = 1 PROVE Quiet' \/ Streams'
  BY <1>2 DEF FlowInv
<1>3. Streams
  BY DEF FlowInv, Quiet
<1>4. /\ hasBuf /\ sending < Sectors /\ curSector = sending /\ next <= Packets(sending)
      /\ offset = curPacket * Chunk
      /\ fwBuf = {<<k * Chunk, <<sending, k>>>> : k \in 0 .. curPacket - 1}
  BY <1>3 DEF Streams
<1>5. curPacket \in Nat /\ curPacket < Packets(sending) /\ Written(p, curPacket)
  BY <1>3, DuePlace
<1>6. /\ p \in PacketRecord /\ p.unit = <<sending, curPacket>> /\ p.sector \in {sending, LastMark}
      /\ p.seq = Eof <=> curPacket + 1 = Packets(sending)
      /\ curPacket + 1 < Packets(sending) => p.len = Chunk
  BY <1>4, <1>5, WrittenPlace
<1>7. Packets(sending) \in Nat
  BY <1>4, PacketCount
<1>8. long = 0 /\ long' = 0
  BY DEF LongInv, HostReads
<1>9. PICK num \in [1 .. Len(events) + 1 -> 0 .. next] : Numbered(num)
  BY <1>3 DEF Streams
<1>10. num[1] = curPacket /\ num[2] = curPacket + 1 /\ Len(events) \in Nat \ {0} /\ num[2] \in 0 .. next
  <2>1. Len(events) \in Nat /\ Len(events) >= 1
    BY NoneQueued DEF Waits
  <2>2. 2 \in 1 .. Len(events) + 1 /\ 1 + 1 = 2
    BY <2>1
  <2> QED
    BY <1>9, <2>1, <2>2 DEF Numbered
<1>11. ASSUME PacketCopied(p) PROVE Streams'
  <2>1. curPacket + 1 < Packets(sending) /\ p.len = Chunk
    BY <1>5, <1>6, <1>7, <1>11 DEF PacketCopied
  <2>2. ~WrongSector(p)
    BY <1>4, <1>6 DEF WrongSector
  <2>3. Silent /\ fwBuf' = Filled(p) /\ offset' = offset + p.len /\ curPacket' = curPacket + 1 /\ curSector' = curSector
    BY <1>11, <2>2 DEF PacketCopied
  <2>4. UNCHANGED <<ready, sending, next, long>>
    BY <2>3, ReadsNothing DEF Silent, NoAnswer
  <2>5. offset' = curPacket' * Chunk
    <3>1. (curPacket + 1) * Chunk = curPacket * Chunk + Chunk
      BY <1>5, Sizes
    <3> QED
      BY <1>4, <2>1, <2>3, <3>1
  <2>6. fwBuf' = {<<k * Chunk, <<sending', k>>>> : k \in 0 .. curPacket' - 1}
    <3>1. fwBuf' = fwBuf \cup {<<curPacket * Chunk, <<sending, curPacket>>>>}
      BY <1>4, <1>6, <2>3 DEF Filled
    <3>2. 0 .. curPacket' - 1 = (0 .. curPacket - 1) \cup {curPacket}
      BY <1>5, <2>3
    <3> QED
      BY <1>4, <2>4, <3>1, <3>2
  <2>7. \A k : Held(k) => Held(k)'
    <3>1. ~Piece(events[1]) /\ Len(<<>>) = 0
      BY ShortQueues DEF Takes, Piece, IsWrite
    <3> QED
      BY <2>4, <3>1, HeldMoves
  <2>8. \A i \in Nat : prep # <<>> \/ (\E j \in Waits : j < i /\ Piece(events[j])) =>
                  prep' # <<>> \/ \E j \in Waits' : j + 1 < i /\ Piece(events[j])'
    <3>1. ~Piece(events[1]) /\ Len(<<>>) = 0
      BY ShortQueues DEF Takes, Piece, IsWrite
    <3> QED
      BY <2>4, <3>1, HeldMoves
  <2>9. (\E m \in [1 .. Len(events) + 1 -> 0 .. next] : Numbered(m))'
    <3>1. ASSUME NEW i \in Waits, i > 1, Takes(events[i]), events[i].kind = "exec"
          PROVE  Held(num[i])' /\ (prep' # <<>> \/ \E j \in Waits' : j + 1 < i /\ Piece(events[j])')
      <4>1. Held(num[i]) /\ (prep # <<>> \/ \E j \in Waits : j < i /\ Piece(events[j])) /\ i \in Nat
        BY <1>9, <3>1 DEF Numbered, Waits
      <4> QED
        BY <2>7, <2>8, <4>1
    <3>2. PICK k : k = next
      OBVIOUS
    <3>3. Len(<<>>) = 0 /\ curPacket' = num[1 + 1]
      BY <1>10, <2>3, ShortQueues
    <3> QED
      BY <1>9, <2>4, <3>1, <3>2, <3>3, Renumbered
  <2> QED
    BY <1>2, <1>4, <1>8, <2>3, <2>4, <2>5, <2>6, <2>9 DEF Streams, Sectors, Packets, Bytes
<1>12. ASSUME SectorEnd(p) PROVE Quiet' \/ Streams'
  <2>1. curPacket + 1 = Packets(sending) /\ next = Packets(sending)
    BY <1>4, <1>6, <1>7, <1>10, <1>12 DEF SectorEnd
  <2>2. /\ fwBuf' = {} /\ offset' = 0 /\ curPacket' = 0 /\ curSector' = curSector + 1
        /\ answer'.status = "success"
    BY <1>12 DEF SectorEnd, Indicate
  <2>3. ASSUME NEW i \in Waits, i > 1 PROVE ~Takes(events[i])
    <3>1. i \in Nat /\ i <= Len(events)
      BY <1>10 DEF Waits
    <3>2. i \in 1 .. Len(events) + 1 /\ i + 1 \in 1 .. Len(events) + 1 /\ 2 \in 1 .. Len(events) + 1 /\ 2 <= i
      BY <1>10, <2>3, <3>1
    <3>3. num[2] <= num[i] /\ num[i] \in 0 .. next /\ num[i + 1] \in 0 .. next
      BY <1>9, <3>2 DEF Numbered
    <3>4. Takes(events[i]) => num[i + 1] = num[i] + 1
      BY <1>9 DEF Numbered
    <3> QED
      BY <1>10, <2>1, <3>3, <3>4
  <2>4. ASSUME NEW j \in Waits' PROVE ~(Takes(events[j])')
    <3>1. PICK e : e = events'[j]
      OBVIOUS
    <3>2. j \in Nat /\ j + 1 \in Waits /\ e = events[j + 1] /\ j + 1 > 1
      <4>1. j # 0 /\ Len(<<>>) = 0
        BY ShortQueues DEF Waits
      <4>2. j \in Nat /\ j + 1 \in Waits /\ e = events[j + 1]
        BY <3>1, <4>1, Came
      <4> QED
        BY <4>1, <4>2
    <3>3. ~Takes(e)
      BY <2>3, <3>2
    <3>4. ~(Takes(e)')
      BY <3>3, EventKept
    <3> QED
      BY <3>1, <3>4
  <2>5. /\ ready' = ready
        /\ (sending' = sending + 1 /\ next' = 0) \/ (sending' = sending /\ next' = next)
    BY <2>2 DEF HostReads, Reaches
  <2>6. CASE sending' = sending /\ next' = next
    <3>1. next' >= Packets(sending')
      BY <1>7, <2>1, <2>6
    <3> QED
      BY <1>8, <2>4, <3>1 DEF Quiet, Packets, Bytes, Sectors
  <2>7. CASE sending' = sending + 1 /\ next' = 0 /\ ~(sending' < Sectors)
    <3>1. sending' >= Sectors
      BY <2>7, SectorCount
    <3> QED
      BY <1>8, <2>4, <3>1 DEF Quiet, Sectors
  <2>8. CASE sending' = sending + 1 /\ next' = 0 /\ sending' < Sectors
    <3>1. (\E m \in [1 .. Len(events) + 1 -> 0 .. next] : Numbered(m))'
      BY <2>2, <2>4, <2>8, FreshNumbers DEF Moved
    <3>2. Packets(sending') \in Nat
      BY <2>8, PacketCount
    <3>3. 0 = 0 * Chunk /\ 0 .. 0 - 1 = {}
      BY Sizes
    <3>4. /\ hasBuf' /\ curSector' = sending' /\ next' <= Packets(sending')
          /\ offset' = curPacket' * Chunk
          /\ fwBuf' = {<<k * Chunk, <<sending', k>>>> : k \in 0 .. curPacket' - 1}
      BY <1>2, <1>4, <2>2, <2>8, <3>2, <3>3
    <3> QED
      BY <1>8, <2>8, <3>1, <3>4 DEF Streams, Packets, Bytes, Sectors
  <2> QED
    BY <2>5, <2>6, <2>7, <2>8
<1> QED
  BY <1>1, <1>11, <1>12

(* While the host has a packet of the first transfer to send, the flow runs. *)
LEMMA SendsInStream ==
  ASSUME {sending, next} \subseteq Nat, FlowInv, starts = 1, startOta, MaySend
  PROVE  Streams /\ next < Packets(sending) /\ Packets(sending) \in Nat
<1>1. ready /\ sending < Sectors /\ next < Packets(sending)
  BY DEF MaySend
<1>2. Packets(sending) \in Nat /\ Sectors \in Nat
  BY <1>1, PacketCount, SectorCount
<1>3. ~(sending >= Sectors) /\ ~(next >= Packets(sending))
  BY <1>1, <1>2
<1> QED
  BY <1>1, <1>2, <1>3 DEF FlowInv, Quiet

(* The packets the host sends, and the long writes it ends, are next in the flow. *)
LEMMA FlowSends ==
  ASSUME Sequence(events), Sequence(prep), {sending, next} \subseteq Nat, FlowInv,
         NEW e, Moved(0, <<e>>), Takes(e), next' = next + 1, long' = 0,
         \/ MaySend /\ e.kind = "write" /\ Written(e.value, next)
         \/ linked /\ long > 0 /\ e.kind = "exec",
         UNCHANGED <<handles, component, prep, sending>>
  PROVE  FlowInv'
<1> SUFFICES ASSUME starts = 1, startOta PROVE Streams'
  BY DEF FlowInv, component
<1>1. Streams /\ next < Packets(sending) /\ Packets(sending) \in Nat
  <2>1. ASSUME MaySend PROVE Streams /\ next < Packets(sending) /\ Packets(sending) \in Nat
    BY <2>1, SendsInStream
  <2>2. ASSUME linked, long > 0 PROVE Streams /\ next < Packets(sending) /\ Packets(sending) \in Nat
    <3>1. Streams
      <4>1. long # 0
        BY <2>2
      <4> QED
        BY <2>2, <4>1 DEF FlowInv, Quiet
    <3>2. sending < Sectors /\ next < Packets(sending)
      BY <2>2, <3>1 DEF Streams
    <3> QED
      BY <3>1, <3>2, PacketCount
  <2> QED
    BY <2>1, <2>2
<1>2. Len(<<e>>) = 1 /\ <<e>>[1] = e
  BY ShortQueues
<1>3. ~Piece(e)
  BY DEF Takes, Piece, IsWrite
<1>4. \A i \in 1 .. Len(<<e>>) : <<e>>[i] = e
  BY <1>2
<1>5. /\ \A k : Held(k) => Held(k)'
      /\ \A i \in Nat : prep # <<>> \/ (\E j \in Waits : j < i /\ Piece(events[j])) =>
                  prep' # <<>> \/ \E j \in Waits' : j + 0 < i /\ Piece(events[j])'
  BY <1>3, <1>4, HeldMoves
<1>6. PICK num \in [1 .. Len(events) + 1 -> 0 .. next] : Numbered(num)
  BY <1>1 DEF Streams
<1>7. curPacket' = num[1 + 0]
  <2>1. num[1] = curPacket /\ 1 + 0 = 1
    BY <1>6 DEF Numbered
  <2> QED
    BY <2>1 DEF component
<1>8. ASSUME NEW i \in Waits, i > 0, Takes(events[i]), events[i].kind = "exec"
      PROVE  Held(num[i])' /\ (prep' # <<>> \/ \E j \in Waits' : j + 0 < i /\ Piece(events[j])')
  <2>1. Held(num[i]) /\ (prep # <<>> \/ \E j \in Waits : j < i /\ Piece(events[j])) /\ i \in Nat
    BY <1>6, <1>8 DEF Numbered, Waits
  <2> QED
    BY <1>5, <2>1
<1>9. PICK k : k = next
  OBVIOUS
<1>10. ASSUME e.kind = "exec"
       PROVE  Held(k)' /\ (prep' # <<>> \/ \E j \in Waits' : j <= Len(events) - 0 /\ Piece(events[j])')
  <2>1. linked /\ long > 0
    BY <1>10
  <2>2. Held(next) /\ (prep # <<>> \/ \E i \in Waits : Piece(events[i]))
    BY <1>1, <2>1 DEF Streams
  <2>3. Len(events) \in Nat /\ Len(events) + 1 \in Nat
    BY NoneQueued
  <2>4. prep # <<>> \/ \E i \in Waits : i < Len(events) + 1 /\ Piece(events[i])
    <3>1. \A i \in Waits : i < Len(events) + 1
      BY <2>3 DEF Waits
    <3> QED
      BY <2>2, <3>1
  <2>5. prep' # <<>> \/ \E j \in Waits' : j + 0 < Len(events) + 1 /\ Piece(events[j])'
    BY <1>5, <2>3, <2>4
  <2>6. \A j \in Waits' : j + 0 < Len(events) + 1 => j <= Len(events) - 0
    BY <2>3 DEF Waits
  <2> QED
    BY <1>5, <1>9, <2>2, <2>5, <2>6
<1>11. e.kind = "write" => Written(e.value, k)
  BY <1>9
<1>12. (\E m \in [1 .. Len(events) + 1 -> 0 .. next] : Numbered(m))'
  BY <1>2, <1>6, <1>7, <1>8, <1>9, <1>10, <1>11, Renumbered
<1>13. next' <= Packets(sending)
  BY <1>1
<1> QED
  BY <1>1, <1>12, <1>13 DEF Streams, Packets, Bytes, Sectors, component

(* A piece is of the packet the host has come to. *)
LEMMA FlowPieces ==
  ASSUME Sequence(events), Sequence(prep), {sending, next} \subseteq Nat, FlowInv, LongInv, MaySend,
         long \in {0, 1}, long = 0 => prep = <<>> /\ Len(events) = 0,
         NEW e, Moved(0, <<e>>), Piece(e), e.value = Packet(sending, next),
         UNCHANGED <<handles, component, prep, sending, next>>
  PROVE  FlowInv'
<1> SUFFICES ASSUME starts = 1, startOta PROVE Streams'
  BY DEF FlowInv, component
<1>1. Streams /\ next < Packets(sending) /\ Packets(sending) \in Nat
  BY SendsInStream
<1>2. Len(<<e>>) = 1 /\ <<e>>[1] = e
  BY ShortQueues
<1>3. ~Takes(e)
  BY DEF Takes, Piece, IsWrite
<1>4. \A i \in 1 .. Len(<<e>>) : <<e>>[i] = e
  BY <1>2
<1>5. PICK num \in [1 .. Len(events) + 1 -> 0 .. next] : Numbered(num)
  BY <1>1 DEF Streams
<1>6. curPacket' = num[1 + 0]
  <2>1. num[1] = curPacket /\ 1 + 0 = 1
    BY <1>5 DEF Numbered
  <2> QED
    BY <2>1 DEF component
<1>7. \A i \in Waits : events[i].kind # "exec"
  BY DEF LongInv, Waits
<1>8. (\E m \in [1 .. Len(events) + 1 -> 0 .. next] : Numbered(m))'
  <2>1. PICK k : k = next
    OBVIOUS
  <2> QED
    BY <1>3, <1>4, <1>5, <1>6, <1>7, <2>1, Renumbered
<1>9. Held(next)'
  <2>1. ASSUME NEW j \in Waits', Piece(events[j])' PROVE events'[j].value = Packet(sending, next)
    <3>1. PICK f : f = events'[j]
      OBVIOUS
    <3>2. Piece(f)
      BY <2>1, <3>1, EventKept
    <3>3. CASE \E i \in 1 .. Len(<<e>>) : f = <<e>>[i]
      BY <1>4, <3>1, <3>3
    <3>4. CASE j + 0 \in Waits /\ f = events[j + 0]
      <4>1. long # 0
        BY <3>4 DEF Waits
      <4>2. Held(next)
        BY <1>1, <4>1 DEF Streams
      <4> QED
        BY <3>1, <3>2, <3>4, <4>2 DEF Held
    <3> QED
      BY <3>1, <3>3, <3>4, Came
  <2>2. prep # <<>> => prep[1] = Packet(sending, next)
    <3>1. ASSUME prep # <<>> PROVE Held(next)
      BY <1>1, <3>1 DEF Streams
    <3> QED
      BY <3>1 DEF Held
  <2>3. Packet(sending, next)' = Packet(sending, next)
    BY DEF Packet, Packets, Bytes, Sectors
  <2> QED
    BY <2>1, <2>2, <2>3 DEF Held
<1>10. \E i \in Waits' : Piece(events[i])'
  <2>1. PICK j : j = Len(events) + 1
    OBVIOUS
  <2>2. j \in Waits' /\ events'[j] = e
    <3>1. Len(events) \in Nat /\ Len(events') = Len(events) + 1
      BY <1>2, NoneQueued DEF Moved
    <3>2. events'[Len(events) - 0 + 1] = <<e>>[1] /\ Len(events) - 0 + 1 = Len(events) + 1
      BY <1>2, <3>1 DEF Moved
    <3> QED
      BY <1>2, <2>1, <3>1, <3>2 DEF Waits
  <2>3. Piece(e)'
    BY EventKept
  <2>4. Piece(events[j])'
    BY <2>2, <2>3, <2>1 DEF Piece, IsWrite
  <2> QED
    BY <2>2, <2>4
<1> QED
  BY <1>1, <1>8, <1>9, <1>10 DEF Streams, Packets, Bytes, Sectors, component

(* A Start that is accepted for the first time begins with the first packet. *)
LEMMA FlowStarts ==
  ASSUME Sequence(events), ApartInv, LongInv, SessionInv,
         Moved(1, <<>>), 1 \in Waits, Apart(events[1]),
         UNCHANGED <<handles, linked>>, starts = 0, hasBuf' \in BOOLEAN,
         IF hasBuf' THEN fwBuf' = {} ELSE UNCHANGED fwBuf,
         ~hasBuf' => answer'.status = "none",
         UNCHANGED <<offset, curSector, curPacket>>, HostReads,
         answer'.status \in {"started", "none"}
  PROVE  FlowInv'
<1>1. /\ offset = 0 /\ curSector = 0 /\ curPacket = 0 /\ sending = 0 /\ next = 0 /\ long = 0
      /\ ~ready
  BY DEF SessionInv, ApartInv
<1>2. ASSUME NEW j \in Waits' PROVE ~(Takes(events[j])')
  <2>1. PICK e : e = events'[j]
    OBVIOUS
  <2>2. j \in Nat \ {0} /\ j + 1 \in Waits /\ e = events[j + 1]
    <3>1. j # 0 /\ Len(<<>>) = 0
      BY ShortQueues DEF Waits
    <3> QED
      BY <2>1, <3>1, Came
  <2>3. Len(events) = 1 \/ (Len(events) = 2 /\ events[2].kind = "disconnect")
    BY DEF ApartInv
  <2>4. j + 1 = 2 /\ events[2].kind = "disconnect"
    BY <2>2, <2>3 DEF Waits
  <2>5. ~(Takes(e)')
    BY <2>2, <2>4 DEF Takes, IsWrite
  <2> QED
    BY <2>1, <2>5
<1>3. long' = 0
  BY <1>1 DEF HostReads
<1>4. CASE Reaches("started")
  <2>1. hasBuf' /\ fwBuf' = {}
    BY <1>4 DEF Reaches
  <2>2. sending' = 0 /\ next' = 0
    BY <1>4 DEF HostReads, Reaches
  <2>3. Sectors \in Nat \ {0}
    BY SectorCount
  <2>4. Packets(0) \in Nat
    BY <2>3, PacketCount
  <2>5. (\E m \in [1 .. Len(events) + 1 -> 0 .. next] : Numbered(m))'
    BY <1>1, <1>2, <2>2, FreshNumbers DEF Moved
  <2>6. 0 = 0 * Chunk /\ 0 .. 0 - 1 = {}
    BY Sizes
  <2>7. /\ hasBuf' /\ curSector' = sending' /\ next' <= Packets(sending') /\ sending' < Sectors
        /\ offset' = curPacket' * Chunk
        /\ fwBuf' = {<<k * Chunk, <<sending', k>>>> : k \in 0 .. curPacket' - 1}
    BY <1>1, <2>1, <2>2, <2>3, <2>4, <2>6
  <2>8. Streams'
    BY <1>3, <2>5, <2>7 DEF Streams, Packets, Bytes, Sectors
  <2> QED
    BY <2>8 DEF FlowInv
<1>5. CASE ~Reaches("started")
  <2>1. ready' = ready
    BY <1>5 DEF HostReads, Reaches
  <2>2. Quiet'
    BY <1>1, <1>2, <1>3, <2>1 DEF Quiet
  <2> QED
    BY <2>2 DEF FlowInv
<1> QED
  BY <1>4, <1>5

-----------------------------------------------------------------------------
(* What a write or its execution comes to: nothing for the component, *)
CalmEvent ==
  /\ UNCHANGED component /\ answer'.status \in {"none", "rejected"} /\ answer'.char # "fw"
  /\ enabled' \subseteq enabled \cup {"fw", "status", "cmd", "cus"}
  /\ \/ /\ prep' = prep /\ ~Piece(events[1])
        /\ Takes(events[1]) => ~startOta \/ (events[1].kind = "exec" /\ prep = <<>>)
     \/ prep' = <<>> /\ events[1].kind = "exec" /\ ~Takes(events[1])
     \/ Piece(events[1]) /\ prep' = Append(prep, events[1].value)

(* a Start or a Stop that is accepted, *)
StartAccepted ==
  /\ IsWrite(events[1], "cmd") /\ events[1].value = "start" /\ ~startOta /\ startOta' = TRUE
  /\ starts' = starts + 1 /\ hasBuf' \in BOOLEAN
  /\ IF hasBuf' THEN fwBuf' = {} ELSE UNCHANGED fwBuf
  /\ answer'.status = IF hasBuf' THEN "started" ELSE "none"
  /\ answer'.char # "fw"
  /\ UNCHANGED <<offset, curSector, curPacket, delivered, prep, enabled>>
StopAccepted ==
  /\ IsWrite(events[1], "cmd") /\ startOta' = FALSE /\ hasBuf' = FALSE /\ fwBuf' = {}
  /\ answer'.status = "stopped" /\ answer'.char # "fw"
  /\ UNCHANGED <<offset, curSector, curPacket, delivered, starts, prep, enabled>>

(* or a packet that is taken. *)
PacketTaken(p) ==
  /\ Takes(events[1]) /\ startOta /\ (PacketCopied(p) \/ SectorEnd(p))
  /\ p = IF events[1].kind = "write" THEN events[1].value ELSE prep[1]
  /\ events[1].kind # "write" => prep # <<>>
  /\ UNCHANGED <<prep, enabled>>

(* Those are all. *)
LEMMA HandledCases ==
  ASSUME Sequence(events), WriteEvent \/ ExecEvent
  PROVE  /\ Moved(1, <<>>) /\ Len(<<>>) = 0 /\ 1 \in Waits /\ UNCHANGED <<stack, adv, linked, links, mtu>>
         /\ HostReads /\ events[1].kind \in {"write", "exec"}
         /\ CalmEvent \/ StartAccepted \/ StopAccepted \/ \E p : PacketTaken(p)
<1> DEFINE e == events[1]
<1>1. Len(<<>>) = 0
  BY ShortQueues
<1>2. ASSUME NEW p, Takes(e), RecvFw(p), UNCHANGED <<prep, enabled>>,
             p = IF e.kind = "write" THEN e.value ELSE prep[1], e.kind # "write" => prep # <<>>
      PROVE  CalmEvent \/ PacketTaken(p)
  <2>1. CASE startOta /\ (PacketCopied(p) \/ SectorEnd(p))
    BY <1>2, <2>1 DEF PacketTaken
  <2>2. CASE ~startOta /\ Silent /\ UNCHANGED component
    <3>1. ~Piece(e)
      BY <1>2 DEF Takes, Piece, IsWrite
    <3> QED
      BY <1>2, <2>2, <3>1 DEF CalmEvent, Silent, NoAnswer
  <2> QED
    BY <1>2, <2>1, <2>2 DEF RecvFw
<1>3. ASSUME WriteEvent
      PROVE  /\ Moved(1, <<>>) /\ 1 \in Waits /\ UNCHANGED <<stack, adv, linked, links, mtu>>
             /\ HostReads /\ e.kind \in {"write", "exec"}
             /\ CalmEvent \/ StartAccepted \/ StopAccepted \/ \E p : PacketTaken(p)
  <2>1. Due("write") /\ Handled /\ HostReads /\ UNCHANGED <<stack, adv, linked, links, mtu>>
    BY <1>3 DEF WriteEvent
  <2>2. Moved(1, <<>>) /\ Head(events) = e /\ 1 \in Waits /\ e.kind = "write"
    BY <2>1, HandledMoves
  <2> SUFFICES CalmEvent \/ StartAccepted \/ StopAccepted \/ \E p : PacketTaken(p)
    BY <2>1, <2>2
  <2> DEFINE char == CharOf(e.handle)
  <2>3. \/ char \in DOMAIN CccOf /\ Subscribed(char, e.value)
        \/ char = "cmd" /\ e.value = "start" /\ Start /\ UNCHANGED <<prep, enabled>>
        \/ char = "cmd" /\ e.value = "stop" /\ Stop /\ UNCHANGED <<prep, enabled>>
        \/ char = "fw" /\ ~e.prep /\ RecvFw(e.value) /\ UNCHANGED <<prep, enabled>>
        \/ /\ char = "fw" /\ e.prep
           /\ prep' = Append(prep, e.value) /\ Silent /\ UNCHANGED <<component, enabled>>
    BY <1>3, <2>2 DEF WriteEvent
  <2>4. \A c : IsWrite(e, c) <=> char = c
    BY <2>2 DEF IsWrite
  <2> HIDE DEF char
  <2>5. Takes(e) <=> char = "fw" /\ ~e.prep
    BY <2>2, <2>4 DEF Takes
  <2>6. Piece(e) <=> char = "fw" /\ e.prep
    BY <2>4 DEF Piece
  <2> HIDE DEF e
  <2>7. CASE char \in DOMAIN CccOf /\ Subscribed(char, e.value)
    <3>1. char # "fw" /\ CccOf[char] \in {"fw", "status", "cmd", "cus"}
      BY <2>7 DEF CccOf
    <3>2. CalmEvent
      BY <2>5, <2>6, <2>7, <3>1 DEF CalmEvent, Subscribed, Silent, NoAnswer, e
    <3> QED
      BY <3>2
  <2>8. CASE char = "cmd" /\ e.value = "start" /\ Start /\ UNCHANGED <<prep, enabled>>
    <3>1. CASE startOta /\ Indicate("cmd", "rejected", 0) /\ UNCHANGED component
      BY <2>5, <2>6, <2>8, <3>1 DEF CalmEvent, Indicate, e
    <3>2. CASE /\ ~startOta /\ startOta' = TRUE /\ starts' = starts + 1
               /\ \/ hasBuf' = TRUE /\ fwBuf' = {} /\ Indicate("cmd", "started", 0)
                  \/ hasBuf' = FALSE /\ Silent /\ UNCHANGED fwBuf
               /\ UNCHANGED <<offset, curSector, curPacket, delivered>>
      <4>1. IsWrite(events[1], "cmd") /\ events[1].value = "start"
        BY <2>4, <2>8 DEF e
      <4>2. /\ \/ hasBuf' = TRUE /\ fwBuf' = {} /\ answer'.status = "started"
               \/ hasBuf' = FALSE /\ fwBuf' = fwBuf /\ answer'.status = "none"
            /\ answer'.char # "fw"
        BY <3>2 DEF Indicate, Silent, NoAnswer
      <4>3. CASE hasBuf' = TRUE /\ fwBuf' = {} /\ answer'.status = "started"
        BY <2>8, <3>2, <4>1, <4>2, <4>3 DEF StartAccepted
      <4>4. CASE hasBuf' = FALSE /\ fwBuf' = fwBuf /\ answer'.status = "none"
        BY <2>8, <3>2, <4>1, <4>2, <4>4 DEF StartAccepted
      <4> QED
        BY <4>2, <4>3, <4>4
    <3> QED
      BY <2>8, <3>1, <3>2 DEF Start
  <2>9. CASE char = "cmd" /\ e.value = "stop" /\ Stop /\ UNCHANGED <<prep, enabled>>
    <3>1. CASE ~startOta /\ Indicate("cmd", "rejected", 0) /\ UNCHANGED component
      BY <2>5, <2>6, <2>9, <3>1 DEF CalmEvent, Indicate, e
    <3>2. CASE /\ startOta /\ startOta' = FALSE /\ hasBuf' = FALSE /\ fwBuf' = {}
               /\ Indicate("cmd", "stopped", 0)
               /\ UNCHANGED <<offset, curSector, curPacket, delivered, starts>>
      <4>1. IsWrite(events[1], "cmd")
        BY <2>4, <2>9 DEF e
      <4>2. StopAccepted
        BY <2>9, <3>2, <4>1 DEF StopAccepted, Indicate
      <4> QED
        BY <4>2
    <3> QED
      BY <2>9, <3>1, <3>2 DEF Stop
  <2>10. CASE char = "fw" /\ ~e.prep /\ RecvFw(e.value) /\ UNCHANGED <<prep, enabled>>
    <3>1. PICK p : p = e.value
      OBVIOUS
    <3>2. CalmEvent \/ PacketTaken(p)
      BY <1>2, <2>2, <2>5, <2>10, <3>1
    <3> QED
      BY <3>2
  <2>11. CASE /\ char = "fw" /\ e.prep
              /\ prep' = Append(prep, e.value) /\ Silent /\ UNCHANGED <<component, enabled>>
    BY <2>5, <2>6, <2>11 DEF CalmEvent, Silent, NoAnswer, e
  <2> QED
    BY <2>3, <2>7, <2>8, <2>9, <2>10, <2>11
<1>4. ASSUME ExecEvent
      PROVE  /\ Moved(1, <<>>) /\ 1 \in Waits /\ UNCHANGED <<stack, adv, linked, links, mtu>>
             /\ HostReads /\ e.kind \in {"write", "exec"}
             /\ CalmEvent \/ StartAccepted \/ StopAccepted \/ \E p : PacketTaken(p)
  <2>1. Due("exec") /\ Handled /\ HostReads /\ UNCHANGED <<stack, adv, linked, links, mtu, enabled>>
    BY <1>4 DEF ExecEvent, link
  <2>2. Moved(1, <<>>) /\ Head(events) = e /\ 1 \in Waits /\ e.kind = "exec"
    BY <2>1, HandledMoves
  <2> SUFFICES CalmEvent \/ StartAccepted \/ StopAccepted \/ \E p : PacketTaken(p)
    BY <2>1, <2>2
  <2>3. IF e.flag = "exec"
          THEN /\ IF prep = <<>> THEN Silent /\ UNCHANGED component ELSE RecvFw(prep[1])
               /\ UNCHANGED prep
          ELSE prep' = <<>> /\ Silent /\ UNCHANGED component
    BY <1>4, <2>2 DEF ExecEvent
  <2>4. (Takes(e) <=> e.flag = "exec") /\ ~Piece(e)
    BY <2>2 DEF Takes, Piece, IsWrite
  <2> HIDE DEF e
  <2>5. CASE e.flag = "exec" /\ prep = <<>>
    BY <2>1, <2>2, <2>3, <2>4, <2>5 DEF CalmEvent, Silent, NoAnswer, e
  <2>6. CASE e.flag = "exec" /\ prep # <<>>
    <3>1. PICK p : p = prep[1]
      OBVIOUS
    <3>2. CalmEvent \/ PacketTaken(p)
      BY <1>2, <2>1, <2>2, <2>3, <2>4, <2>6, <3>1
    <3> QED
      BY <2>1, <2>2, <3>2
  <2>7. CASE e.flag # "exec"
    BY <2>1, <2>2, <2>3, <2>4, <2>7 DEF CalmEvent, Silent, NoAnswer, e
  <2> QED
    BY <2>5, <2>6, <2>7
<1> QED
  BY <1>1, <1>3, <1>4

(* What the host does about an answer, whichever it is *)
LEMMA ReadsKeep ==
  ASSUME HostReads, {sending, next} \subseteq Nat
  PROVE  /\ {sending', next'} \subseteq Nat /\ long' = long
         /\ ready' => ready \/ answer'.status = "started"
         /\ ready \in BOOLEAN => ready' \in BOOLEAN
<1>1. {sending', next'} \subseteq Nat /\ long' = long
  BY DEF HostReads
<1>2. ready' = TRUE \/ ready' = FALSE \/ ready' = ready
  BY DEF HostReads
<1>3. ASSUME ~Reaches("started") PROVE ready' => ready
  BY <1>3 DEF HostReads
<1> QED
  BY <1>1, <1>2, <1>3 DEF Reaches

(* Handling a write keeps the stack, whose turn it is, and what waits apart. *)
LEMMA HandledFrame ==
  ASSUME Sequence(events), StackInv, TurnInv, ApartInv, WriteEvent \/ ExecEvent
  PROVE  Sequence(events') /\ StackInv' /\ TurnInv' /\ ApartInv'
<1>1. /\ Moved(1, <<>>) /\ Len(<<>>) = 0 /\ 1 \in Waits /\ UNCHANGED <<stack, adv, linked, links, mtu>>
      /\ CalmEvent \/ StartAccepted \/ StopAccepted \/ \E p : PacketTaken(p)
  BY HandledCases
<1>2. UNCHANGED <<gattsIf, handles, tables, services>>
  BY <1>1 DEF stack
<1>3. Sequence(events') /\ StackInv'
  <2>1. Sequence(events')
    BY <1>1 DEF Moved
  <2>2. StackInv'
    BY <1>1, StackMoves
  <2> QED
    BY <2>1, <2>2
<1>4. TurnInv'
  BY <1>1, <1>2, TurnMoves
<1>5. (startOta' = startOta \/ Apart(events[1])) /\ (starts' = starts \/ Apart(events[1]))
  <2>1. CASE CalmEvent
    BY <2>1 DEF CalmEvent, component
  <2>2. CASE StartAccepted \/ StopAccepted
    BY <2>2 DEF StartAccepted, StopAccepted, Apart, IsWrite
  <2>3. CASE \E p : PacketTaken(p)
    BY <2>3 DEF PacketTaken, PacketCopied, SectorEnd
  <2> QED
    BY <1>1, <2>1, <2>2, <2>3
<1>6. ApartInv'
  BY <1>1, <1>2, <1>5, ApartPops
<1> QED
  BY <1>3, <1>4, <1>6

(* A long write that goes on is not disturbed by what is handled. *)
LEMMA HandledLong ==
  ASSUME Sequence(events), TurnInv, ApartInv, LongInv, {sending, next} \subseteq Nat,
         WriteEvent \/ ExecEvent
  PROVE  LongInv'
<1>1. /\ Moved(1, <<>>) /\ Len(<<>>) = 0 /\ 1 \in Waits /\ UNCHANGED <<stack, adv, linked, links, mtu>>
      /\ HostReads
      /\ CalmEvent \/ StartAccepted \/ StopAccepted \/ \E p : PacketTaken(p)
  BY HandledCases
<1>2. long' = long
  BY <1>1, ReadsKeep
<1>3. ASSUME long' > 0, linked' PROVE ready'
  <2>1. ready /\ long # 0
    BY <1>1, <1>2, <1>3 DEF LongInv
  <2>2. ~Apart(events[1]) /\ ~Takes(events[1])
    BY <1>1, <2>1, NoneApart DEF LongInv
  <2>3. ~StartAccepted /\ ~StopAccepted /\ ~(\E p : PacketTaken(p))
    BY <2>2 DEF StartAccepted, StopAccepted, PacketTaken, Apart, IsWrite
  <2>4. answer'.status \in {"none", "rejected"}
    BY <1>1, <2>3 DEF CalmEvent
  <2> QED
    BY <1>1, <2>1, <2>4, ReadsNothing
<1>4. \A i \in Waits : Takes(events[i]) \/ events[i].kind = "exec" => long' = 0
  BY <1>2 DEF LongInv
<1> QED
  BY <1>1, <1>3, <1>4, LongMoves DEF stack

(* Nothing else waits with what is apart, but the loss of its link. *)
LEMMA ApartAlone ==
  ASSUME Sequence(events), ApartInv, 1 \in Waits, Apart(events[1]), NEW i \in Waits
  PROVE  i = 1 \/ (i = 2 /\ events[i].kind = "disconnect")
<1>1. Len(events) = 1 \/ (Len(events) = 2 /\ events[2].kind = "disconnect")
  BY DEF ApartInv
<1> QED
  BY <1>1 DEF Waits

(* The pieces are kept as they come. *)
LEMMA HandledPieces ==
  ASSUME Sequence(events), Sequence(prep), Len(prep) <= 2, ApartInv, PieceInv,
         {sending, next} \subseteq Nat, WriteEvent \/ ExecEvent
  PROVE  PieceInv' /\ Sequence(prep') /\ Len(prep') <= 2
<1>1. /\ Moved(1, <<>>) /\ Len(<<>>) = 0 /\ 1 \in Waits /\ UNCHANGED <<stack, adv, linked, links, mtu>>
      /\ HostReads
      /\ CalmEvent \/ StartAccepted \/ StopAccepted \/ \E p : PacketTaken(p)
  BY HandledCases
<1>2. long' = long /\ handles' = handles /\ Len(prep) \in Nat
  BY <1>1, ReadsKeep, NoneQueued DEF stack
<1>3. ASSUME startOta' \/ \A i \in Waits : ~Piece(events[i]), prep' \in {prep, <<>>} PROVE PieceInv'
  BY <1>1, <1>2, <1>3, PieceMoves
<1>4. CASE CalmEvent
  <2>1. startOta' = startOta
    BY <1>4 DEF CalmEvent, component
  <2>2. startOta' \/ \A i \in Waits : ~Piece(events[i])
    BY <2>1 DEF PieceInv
  <2>3. CASE prep' \in {prep, <<>>}
    BY <1>1, <1>3, <2>2, <2>3, ShortQueues
  <2>4. CASE Piece(events[1]) /\ prep' = Append(prep, events[1].value)
    <3>1. PICK v : v = events[1].value
      OBVIOUS
    <3>2. PieceInv' /\ Len(prep') <= 2
      BY <1>1, <1>2, <2>1, <2>4, <3>1, PieceKept
    <3>3. Sequence(prep')
      BY <2>4, <3>1, Queued
    <3> QED
      BY <3>2, <3>3
  <2> QED
    BY <1>4, <2>3, <2>4 DEF CalmEvent
<1>5. CASE StartAccepted
  BY <1>3, <1>5 DEF StartAccepted
<1>6. CASE StopAccepted
  <2>1. Apart(events[1]) /\ ~Piece(events[1]) /\ prep' = prep
    BY <1>6 DEF StopAccepted, Apart, IsWrite, Piece
  <2>2. ASSUME NEW i \in Waits PROVE ~Piece(events[i])
    <3>1. CASE i = 1
      BY <2>1, <3>1
    <3>2. CASE events[i].kind = "disconnect"
      BY <3>2 DEF Piece, IsWrite
    <3> QED
      BY <1>1, <2>1, <3>1, <3>2, ApartAlone
  <2> QED
    BY <1>3, <2>1, <2>2
<1>7. CASE \E p : PacketTaken(p)
  <2>1. startOta' = startOta /\ startOta /\ prep' = prep
    BY <1>7 DEF PacketTaken, PacketCopied, SectorEnd
  <2> QED
    BY <1>3, <2>1
<1> QED
  BY <1>1, <1>4, <1>5, <1>6, <1>7

(* The transfer that runs is the one whose packets are taken. *)
LEMMA HandledFlow ==
  ASSUME Sequence(events), Sequence(prep), starts \in Nat, startOta \in BOOLEAN, long \in Nat,
         ApartInv, LongInv, SessionInv, FlowInv, WriteEvent \/ ExecEvent
  PROVE  FlowInv'
<1>1. /\ Moved(1, <<>>) /\ Len(<<>>) = 0 /\ 1 \in Waits /\ UNCHANGED <<stack, adv, linked, links, mtu>>
      /\ HostReads
      /\ CalmEvent \/ StartAccepted \/ StopAccepted \/ \E p : PacketTaken(p)
  BY HandledCases
<1>2. handles' = handles /\ {sending, next} \subseteq Nat /\ curPacket \in Nat
  BY <1>1 DEF stack, SessionInv
<1>3. CASE CalmEvent
  <2>1. UNCHANGED <<hasBuf, curSector, curPacket, offset, fwBuf, starts, startOta, ready, sending, next, long>>
    BY <1>1, <1>3, ReadsNothing DEF CalmEvent, component
  <2>2. SUFFICES ASSUME starts = 1, startOta PROVE FlowInv'
    BY <2>1 DEF FlowInv
  <2>3. ~Takes(events[1])
    <3> SUFFICES ASSUME Takes(events[1]) PROVE FALSE
      OBVIOUS
    <3>1. events[1].kind = "exec" /\ prep = <<>>
      BY <1>3, <2>2 DEF CalmEvent, Takes, Piece, IsWrite
    <3>2. Streams
      BY <1>1, <2>2 DEF FlowInv, Quiet
    <3>3. PICK p : p = IF events[1].kind = "write" THEN events[1].value ELSE prep[1]
      OBVIOUS
    <3>4. events[1].kind # "write" => prep # <<>>
      BY <1>1, <1>2, <3>2, <3>3, DuePlace
    <3> QED
      BY <3>1, <3>4
  <2>4. \/ prep' = prep /\ (1 = 1 => ~Piece(events[1]))
        \/ 1 \in Waits /\ Piece(events[1]) /\ prep' = Append(prep, events[1].value)
        \/ 1 = 1 /\ events[1].kind = "exec"
    BY <1>1, <1>3 DEF CalmEvent
  <2> QED
    BY <1>1, <1>2, <2>1, <2>3, <2>4, FlowKept
<1>4. CASE StartAccepted
  <2>1. Apart(events[1])
    BY <1>4 DEF StartAccepted, Apart, IsWrite
  <2>2. CASE starts = 0
    BY <1>1, <1>2, <1>4, <2>1, <2>2, FlowStarts DEF StartAccepted
  <2>3. CASE starts # 0
    BY <1>4, <2>3 DEF StartAccepted, FlowInv
  <2> QED
    BY <2>2, <2>3
<1>5. CASE StopAccepted
  BY <1>5 DEF StopAccepted, FlowInv
<1>6. CASE \E p : PacketTaken(p)
  <2>1. PICK p : PacketTaken(p)
    BY <1>6
  <2>2. RecvFw(p) /\ startOta /\ Takes(events[1]) /\ prep' = prep
    BY <2>1 DEF PacketTaken, RecvFw
  <2>3. p = IF events[1].kind = "write" THEN events[1].value ELSE prep[1]
    BY <2>1 DEF PacketTaken
  <2> QED
    BY <1>1, <1>2, <2>2, <2>3, FlowTaken
<1> QED
  BY <1>1, <1>3, <1>4, <1>5, <1>6

(* A packet that is taken has the form of one. *)
LEMMA TakenRecord ==
  ASSUME ApartInv, SessionInv, Sequence(prep), 1 \in Waits, NEW p, PacketTaken(p)
  PROVE  p \in PacketRecord
<1>1. CASE events[1].kind = "write"
  <2>1. IsWrite(events[1], "fw") /\ p = events[1].value
    BY <1>1 DEF PacketTaken, Takes
  <2> QED
    BY <1>1, <2>1 DEF ApartInv, Known, IsWrite
<1>2. CASE events[1].kind # "write"
  <2>1. prep # <<>> /\ p = prep[1]
    BY <1>2 DEF PacketTaken
  <2>2. 1 \in 1 .. Len(prep)
    BY <2>1, NoneQueued
  <2> QED
    BY <2>1, <2>2 DEF SessionInv
<1> QED
  BY <1>1, <1>2

(* The last packet of a sector of the first transfer makes the sector whole. *)
LEMMA TakenSector ==
  ASSUME Sequence(events), {sending, next} \subseteq Nat, FlowInv, starts = 1, 1 \in Waits,
         NEW p, PacketTaken(p), SectorEnd(p)
  PROVE  /\ sending < Sectors /\ curSector = sending
         /\ {u \in Filled(p) : u[1] < SectorBytes} = SectorData(curSector)
         /\ answer'.sector \in {sending, LastMark}
         /\ answer'.sector = LastMark => sending = Sectors - 1
<1>1. startOta /\ Takes(events[1]) /\ p = IF events[1].kind = "write" THEN events[1].value ELSE prep[1]
  BY DEF PacketTaken
<1>2. Streams
  BY <1>1 DEF FlowInv, Quiet
<1>3. /\ sending < Sectors /\ curSector = sending /\ offset = curPacket * Chunk
      /\ fwBuf = {<<k * Chunk, <<sending, k>>>> : k \in 0 .. curPacket - 1}
  BY <1>2 DEF Streams
<1>4. curPacket \in Nat /\ curPacket < Packets(sending) /\ Written(p, curPacket)
  BY <1>1, <1>2, DuePlace
<1>5. /\ p.unit = <<sending, curPacket>> /\ p.sector \in {sending, LastMark}
      /\ p.sector = LastMark => sending = Sectors - 1
      /\ p.seq = Eof <=> curPacket + 1 = Packets(sending)
  BY <1>3, <1>4, WrittenPlace
<1>6. curPacket + 1 = Packets(sending)
  BY <1>5 DEF SectorEnd
<1>7. Filled(p) = SectorData(curSector)
  <2>1. Filled(p) = fwBuf \cup {<<curPacket * Chunk, <<sending, curPacket>>>>}
    BY <1>3, <1>5 DEF Filled
  <2>2. 0 .. Packets(sending) - 1 = (0 .. curPacket - 1) \cup {curPacket}
    BY <1>4, <1>6
  <2>3. SectorData(sending) = {<<k * Chunk, <<sending, k>>>> : k \in 0 .. Packets(sending) - 1}
    BY DEF SectorData
  <2> HIDE DEF Filled
  <2>4. SectorData(sending) = {<<k * Chunk, <<sending, k>>>> : k \in (0 .. curPacket - 1) \cup {curPacket}}
    BY <2>2, <2>3
  <2> QED
    BY <1>3, <2>1, <2>4
<1>8. \A u \in SectorData(curSector) : u[1] < SectorBytes
  <2>1. ASSUME NEW k \in 0 .. Packets(sending) - 1 PROVE k * Chunk < SectorBytes
    <3>1. k \in Nat /\ k < Packets(sending) /\ Packets(sending) \in Nat
      BY <1>3, PacketCount
    <3> QED
      BY <1>3, <3>1, PacketPlace
  <2> QED
    BY <1>3, <2>1 DEF SectorData
<1>9. answer'.sector = p.sector
  BY DEF SectorEnd, Indicate
<1> QED
  BY <1>3, <1>5, <1>7, <1>8, <1>9

(* The sectors that were given to the application stay the first of the image. *)
LEMMA HandledSession ==
  ASSUME Sequence(events), Sequence(prep), ApartInv, PieceInv, LongInv, SessionInv, FlowInv,
         starts \in Nat, startOta \in BOOLEAN, Len(prep) <= 2, WriteEvent \/ ExecEvent
  PROVE  SessionInv'
<1>1. /\ Moved(1, <<>>) /\ Len(<<>>) = 0 /\ 1 \in Waits /\ UNCHANGED <<stack, adv, linked, links, mtu>>
      /\ HostReads
      /\ CalmEvent \/ StartAccepted \/ StopAccepted \/ \E p : PacketTaken(p)
  BY HandledCases
<1>2. {curSector, curPacket, sending, next} \subseteq Nat
  BY DEF SessionInv
<1>3. {sending', next'} \subseteq Nat /\ long' = long /\ (ready' => ready \/ answer'.status = "started")
  BY <1>1, <1>2, ReadsKeep
<1>4. ASSUME prep' = prep PROVE \A i \in 1 .. Len(prep') : prep'[i] \in PacketRecord
  BY <1>4 DEF SessionInv
<1>5. CASE CalmEvent
  <2>1. UNCHANGED <<offset, curSector, curPacket, fwBuf, delivered, starts, startOta,
                    ready, sending, next, long>>
    BY <1>1, <1>5, ReadsNothing DEF CalmEvent, component
  <2>2. CASE prep' = prep
    BY <1>4, <2>1, <2>2 DEF SessionInv
  <2>3. CASE prep' = <<>>
    <3>1. \A i \in 1 .. Len(prep') : prep'[i] \in PacketRecord
      BY <2>3, ShortQueues
    <3> QED
      BY <2>1, <2>3, <3>1 DEF SessionInv
  <2>4. CASE Piece(events[1]) /\ prep' = Append(prep, events[1].value)
    <3>1. events[1].value \in PacketRecord
      BY <1>1, <2>4 DEF Piece, IsWrite, ApartInv, Known
    <3>2. startOta
      BY <1>1, <2>4 DEF PieceInv
    <3>3. \A i \in 1 .. Len(prep') : prep'[i] \in PacketRecord
      <4>1. PICK v : v = events[1].value
        OBVIOUS
      <4>2. /\ Len(prep') = Len(prep) + 1 /\ Len(prep) \in Nat
            /\ \A i \in 1 .. Len(prep) : prep'[i] = prep[i] /\ prep[i] \in PacketRecord
            /\ prep'[Len(prep) + 1] = v /\ v \in PacketRecord
        BY <2>4, <3>1, <4>1, Queued, NoneQueued DEF SessionInv
      <4>3. ASSUME NEW i \in 1 .. Len(prep') PROVE i \in 1 .. Len(prep) \/ i = Len(prep) + 1
        BY <4>2
      <4> QED
        BY <4>2, <4>3
    <3> QED
      BY <2>1, <3>2, <3>3 DEF SessionInv
  <2> QED
    BY <1>5, <2>2, <2>3, <2>4 DEF CalmEvent
<1>6. CASE StartAccepted
  <2>1. starts' = starts + 1 /\ startOta' = TRUE
        /\ UNCHANGED <<offset, curSector, curPacket, delivered, prep>>
    BY <1>6 DEF StartAccepted
  <2>2. starts' > 0 /\ starts' # 0 /\ (starts' = 1 => starts = 0)
    BY <2>1
  <2>3. starts' = 1 =>
          delivered' = [i \in 1 .. curSector' |-> [start |-> 1, data |-> SectorData(i - 1)]]
    <3> SUFFICES ASSUME starts' = 1
                 PROVE delivered' = [i \in 1 .. curSector' |-> [start |-> 1, data |-> SectorData(i - 1)]]
      OBVIOUS
    <3>1. delivered' = <<>> /\ curSector' = 0
      BY <2>1, <2>2 DEF SessionInv
    <3> QED
      BY <3>1
  <2> QED
    BY <1>2, <1>3, <1>4, <2>1, <2>2, <2>3 DEF SessionInv
<1>7. CASE StopAccepted
  <2>1. /\ fwBuf' = {} /\ startOta' = FALSE
        /\ UNCHANGED <<offset, curSector, curPacket, delivered, starts, prep>>
    BY <1>7 DEF StopAccepted
  <2>2. ~ready'
    <3>1. Apart(events[1])
      BY <1>7 DEF StopAccepted, Apart, IsWrite
    <3>2. ~ready
      BY <1>1, <3>1 DEF ApartInv
    <3> QED
      BY <1>3, <1>7, <3>2 DEF StopAccepted
  <2>3. starts = 0 => UNCHANGED <<sending, next>>
    <3>1. answer'.status = "stopped"
      BY <1>7 DEF StopAccepted
    <3> QED
      BY <1>1, <3>1 DEF HostReads, Reaches
  <2> QED
    BY <1>2, <1>3, <1>4, <2>1, <2>2, <2>3 DEF SessionInv
<1>8. CASE \E p : PacketTaken(p)
  <2>1. PICK p : PacketTaken(p)
    BY <1>8
  <2>2. startOta /\ startOta' = startOta /\ starts' = starts /\ prep' = prep
    BY <2>1 DEF PacketTaken, PacketCopied, SectorEnd
  <2>3. starts > 0 /\ starts # 0
    BY <2>2 DEF SessionInv
  <2>4. CASE PacketCopied(p)
    BY <1>2, <1>3, <1>4, <2>2, <2>3, <2>4
      DEF SessionInv, PacketCopied
  <2>5. CASE SectorEnd(p)
    <3>1. /\ curSector' = curSector + 1 /\ curPacket' = 0
          /\ delivered' = Append(delivered,
               [start |-> starts, data |-> {u \in Filled(p) : u[1] < SectorBytes}])
      BY <2>5 DEF SectorEnd
    <3>2. ASSUME starts = 1
          PROVE  delivered' = [i \in 1 .. curSector' |-> [start |-> 1, data |-> SectorData(i - 1)]]
      <4> DEFINE D(n) == [start |-> 1, data |-> SectorData(n)]
      <4>1. delivered' = Append(delivered, D(curSector))
        BY <1>1, <1>2, <2>1, <2>5, <3>1, <3>2, TakenSector
      <4>2. delivered = [i \in 1 .. curSector |-> D(i - 1)]
        BY <3>2 DEF SessionInv
      <4> HIDE DEF D
      <4>3. delivered' = [i \in 1 .. curSector + 1 |-> D(i - 1)]
        BY <1>2, <4>1, <4>2
      <4> QED
        BY <3>1, <4>3 DEF D
    <3>3. \A i : SectorData(i)' = SectorData(i)
      BY DEF SectorData, Packets, Bytes, Sectors
    <3> QED
      BY <1>2, <1>3, <1>4, <2>2, <2>3, <3>1, <3>2, <3>3 DEF SessionInv
  <2> QED
    BY <2>1, <2>4, <2>5 DEF PacketTaken
<1> QED
  BY <1>1, <1>5, <1>6, <1>7, <1>8

(* A write that is handled keeps the types: the buffer is not left. *)
LEMMA HandledTypes ==
  ASSUME Sequence(events), Sequence(prep), TypeOK, ApartInv, SessionInv, Len(prep') <= 2,
         WriteEvent \/ ExecEvent
  PROVE  TypeOK'
<1>1. /\ Moved(1, <<>>) /\ Len(<<>>) = 0 /\ 1 \in Waits /\ UNCHANGED <<stack, adv, linked, links, mtu>>
      /\ HostReads
      /\ CalmEvent \/ StartAccepted \/ StopAccepted \/ \E p : PacketTaken(p)
  BY HandledCases
<1>2. UNCHANGED <<gattsIf, tables, services, adv, linked, links, mtu>>
  BY <1>1 DEF stack
<1>3. {sending, next} \subseteq Nat /\ ready \in BOOLEAN /\ starts \in 0 .. MaxStarts
  BY DEF SessionInv, TypeOK
<1>4. long' = long /\ ready' \in BOOLEAN
  BY <1>1, <1>3, ReadsKeep
<1>5. enabled' \subseteq {"fw", "status", "cmd", "cus"}
  <2>1. enabled \subseteq {"fw", "status", "cmd", "cus"}
    BY DEF TypeOK
  <2>2. enabled' \subseteq enabled \cup {"fw", "status", "cmd", "cus"}
    <3>1. CASE CalmEvent
      BY <3>1 DEF CalmEvent
    <3>2. CASE StartAccepted \/ StopAccepted \/ \E p : PacketTaken(p)
      BY <3>2 DEF StartAccepted, StopAccepted, PacketTaken
    <3> QED
      BY <1>1, <3>1, <3>2
  <2> QED
    BY <2>1, <2>2
<1>6. /\ startOta' \in BOOLEAN /\ hasBuf' \in BOOLEAN
      /\ offset' \in 0 .. BufLength /\ starts' \in 0 .. MaxStarts
  <2>1. startOta \in BOOLEAN /\ hasBuf \in BOOLEAN /\ offset \in 0 .. BufLength
    BY DEF TypeOK
  <2>2. CASE CalmEvent
    BY <1>3, <2>1, <2>2 DEF CalmEvent, component
  <2>3. CASE StartAccepted
    <3>1. starts < MaxStarts
      BY <1>1, <2>3 DEF StartAccepted, ApartInv, Known, IsWrite
    <3>2. starts + 1 \in 0 .. MaxStarts
      BY <1>3, <3>1, Sizes
    <3> QED
      BY <2>1, <2>3, <3>2 DEF StartAccepted
  <2>4. CASE StopAccepted
    BY <1>3, <2>1, <2>4 DEF StopAccepted
  <2>5. CASE \E p : PacketTaken(p)
    <3>1. PICK p : PacketTaken(p)
      BY <2>5
    <3>2. p.len \in Nat
      BY <1>1, <3>1, TakenRecord DEF PacketRecord
    <3>3. startOta' = startOta /\ hasBuf' = hasBuf /\ starts' = starts
      BY <3>1 DEF PacketTaken, PacketCopied, SectorEnd
    <3>4. (offset' = offset + p.len /\ offset + p.len <= BufLength) \/ offset' = 0
      BY <3>1 DEF PacketTaken, PacketCopied, SectorEnd, Fits
    <3>5. offset' \in 0 .. BufLength
      <4>1. BufLength \in Nat
        BY DEF BufLength
      <4>2. offset \in Nat
        BY <2>1, <4>1
      <4>3. offset' \in Nat /\ offset' <= BufLength
        BY <3>2, <3>4, <4>1, <4>2
      <4> QED
        BY <4>1, <4>3
    <3> QED
      BY <1>3, <2>1, <3>3, <3>5
  <2> QED
    BY <1>1, <2>2, <2>3, <2>4, <2>5
<1> QED
  BY <1>2, <1>4, <1>5, <1>6 DEF TypeOK

-----------------------------------------------------------------------------
(* Steps that leave the component alone, and bring no write, keep the types. *)
LEMMA IdleTypes ==
  ASSUME Sequence(events), TypeOK, StackInv, TurnInv', ApartInv, LongInv, SessionInv, IdleStep
  PROVE  TypeOK'
<1>1. {adv, linked, startOta, hasBuf, ready} \subseteq BOOLEAN /\ links \in 0 .. MaxLinks
  BY DEF TypeOK
<1>2. long \in Nat /\ long \in 0 .. 2
  BY DEF TypeOK
<1>3. PICK d, more : Idle(d, more)
  BY <1>2, IdleSteps
<1>4. UNCHANGED <<startOta, offset, hasBuf, starts, prep>> /\ long' \in 0 .. 2
  BY <1>2, <1>3 DEF Idle, component
<1>5. ~(adv' /\ linked')
  BY DEF TurnInv
<1>6. /\ {adv', linked', ready'} \subseteq BOOLEAN /\ links' \in 0 .. MaxLinks
      /\ mtu' \in {DefaultMtu, 517} /\ enabled' \subseteq {"fw", "status", "cmd", "cus"}
  <2>1. mtu \in {DefaultMtu, 517} /\ enabled \subseteq {"fw", "status", "cmd", "cus"}
    BY DEF TypeOK
  <2>2. CASE HostInit \/ Registered \/ TableMade \/ ExchangeMtu
    <3>1. UNCHANGED <<link, host>>
      BY <2>2 DEF HostInit, Registered, TableMade, ExchangeMtu
    <3> QED
      BY <1>1, <2>1, <3>1 DEF link, host
  <2>3. CASE AdvertisingStep
    <3>1. adv' \in {adv, TRUE} /\ UNCHANGED <<linked, links, mtu, enabled, ready>>
      BY <2>3 DEF AdvertisingStep, host
    <3> QED
      BY <1>1, <2>1, <3>1
  <2>4. CASE LinkEvent
    <3>1. /\ 1 \in Waits /\ UNCHANGED <<linked, links, enabled, ready>> /\ adv' \in {adv, TRUE}
          /\ mtu' \in {mtu, DefaultMtu} \/ (events[1].kind = "mtu" /\ mtu' = events[1].mtu)
      BY <2>4, LinkEventMoves DEF host
    <3>2. mtu' \in {DefaultMtu, 517}
      <4>1. events[1].kind = "mtu" => events[1].mtu = 517
        BY <3>1 DEF ApartInv, Known
      <4>2. mtu' \in {mtu, DefaultMtu} \/ mtu' = 517
        BY <3>1, <4>1
      <4> QED
        BY <2>1, <4>2
    <3>3. {adv', linked', ready'} \subseteq BOOLEAN
      BY <1>1, <3>1
    <3> QED
      BY <1>1, <2>1, <3>1, <3>2, <3>3
  <2>5. CASE LinkUp
    <3>1. links < MaxLinks /\ links' = links + 1 /\ adv' = FALSE /\ linked' = TRUE /\ ready' = FALSE
          /\ UNCHANGED <<mtu, enabled>>
      BY <2>5 DEF LinkUp
    <3>2. links' \in 0 .. MaxLinks
      BY <1>1, <3>1, Sizes
    <3> QED
      BY <2>1, <3>1, <3>2
  <2>6. CASE LinkDown
    <3>1. linked' = FALSE /\ ready' = FALSE /\ UNCHANGED <<adv, links, mtu, enabled>>
      BY <2>6 DEF LinkDown
    <3> QED
      BY <1>1, <2>1, <3>1
  <2> QED
    BY <2>2, <2>3, <2>4, <2>5, <2>6 DEF IdleStep
<1>7. /\ gattsIf' \in [Profiles -> 0 .. 2]
      /\ tables' \subseteq Profiles \X (1 .. 2) /\ services' \subseteq Profiles
  <2>1. /\ gattsIf \in [Profiles -> 0 .. 2]
        /\ tables \subseteq Profiles \X (1 .. 2) /\ services \subseteq Profiles
    BY DEF TypeOK
  <2>2. CASE UNCHANGED <<gattsIf, tables, services>>
    BY <2>1, <2>2
  <2>3. CASE Registered
    <3>1. CASE UNCHANGED <<gattsIf, tables>>
      BY <2>1, <2>3, <3>1 DEF Registered
    <3>2. CASE \E p \in Profiles : /\ gattsIf' = [gattsIf EXCEPT ![p] = Interface[p]]
                                   /\ tables' = tables \cup {<<p, Interface[p]>>}
      <4>1. \A p \in Profiles : Interface[p] \in 1 .. 2
        BY DEF Profiles, Interface
      <4> QED
        BY <2>1, <2>3, <3>2, <4>1 DEF Registered
    <3> QED
      BY <2>3, <3>1, <3>2, RegisteredMoves DEF RegisteredAs
  <2>4. CASE TableMade
    <3>1. CASE UNCHANGED services
      BY <2>1, <2>4, <3>1 DEF TableMade
    <3>2. CASE \E p \in Profiles : services' = services \cup {p}
      BY <2>1, <2>4, <3>2 DEF TableMade
    <3> QED
      BY <2>4, <3>1, <3>2, TableIsOfItsProfile
  <2>5. CASE HostInit \/ AdvertisingStep \/ LinkEvent \/ LinkUp \/ LinkDown \/ ExchangeMtu
    <3>1. UNCHANGED stack
      BY <2>5 DEF HostInit, AdvertisingStep, LinkEvent, LinkUp, LinkDown, ExchangeMtu
    <3> QED
      BY <2>2, <3>1 DEF stack
  <2> QED
    BY <2>3, <2>4, <2>5 DEF IdleStep
<1>8. /\ {startOta', hasBuf'} \subseteq BOOLEAN /\ offset' \in 0 .. BufLength
      /\ starts' \in 0 .. MaxStarts /\ Len(prep') <= 2
  BY <1>4 DEF TypeOK
<1> QED
  BY <1>4, <1>5, <1>6, <1>7, <1>8 DEF TypeOK

(* Steps that leave the component alone keep the stack, *)
LEMMA IdleStack == ASSUME Sequence(events), StackInv, IdleStep PROVE StackInv'
<1>1. CASE HostInit
  BY <1>1, HostInitStack
<1>2. CASE Registered
  BY <1>2, RegisteredStack
<1>3. CASE TableMade
  BY <1>3, TableMadeStack
<1>4. CASE AdvertisingStep
  <2>1. UNCHANGED stack
    BY <1>4, AdvertisingMoves
  <2>2. PICK more : Moved(1, more) /\ \A i \in 1 .. Len(more) : more[i].kind = "advData"
    <3>1. CASE Moved(1, <<>>)
      BY <3>1, ShortQueues
    <3>2. CASE \E more : Moved(1, more) /\ Len(more) = 1 /\ more[1] = [kind |-> "advData"]
      <4>1. PICK more : Moved(1, more) /\ Len(more) = 1 /\ more[1] = [kind |-> "advData"]
        BY <3>2
      <4>2. \A i \in 1 .. Len(more) : i = 1
        BY <4>1
      <4> QED
        BY <4>1, <4>2
    <3> QED
      BY <1>4, <3>1, <3>2, AdvertisingMoves
  <2> QED
    BY <2>1, <2>2, StackMoves
<1>5. CASE LinkEvent
  <2>1. UNCHANGED stack /\ Moved(1, <<>>) /\ Len(<<>>) = 0
    BY <1>5, LinkEventMoves, ShortQueues
  <2> QED
    BY <2>1, StackMoves
<1>6. CASE LinkUp \/ LinkDown \/ ExchangeMtu
  <2>1. PICK e : events' = Append(events, e) /\ e.kind \in {"connect", "disconnect", "mtu"}
    BY <1>6 DEF LinkUp, LinkDown, ExchangeMtu, Occurs
  <2>2. Moved(0, <<e>>) /\ Len(<<e>>) = 1 /\ <<e>>[1] = e
    BY <2>1, OccursMoves
  <2>3. \A i \in 1 .. Len(<<e>>) : <<e>>[i] = e
    BY <2>2
  <2>4. UNCHANGED stack
    BY <1>6 DEF LinkUp, LinkDown, ExchangeMtu
  <2> QED
    BY <2>1, <2>2, <2>3, <2>4, StackMoves
<1> QED
  BY <1>1, <1>2, <1>3, <1>4, <1>5, <1>6 DEF IdleStep

(* whose turn it is, *)
LEMMA IdleTurn == ASSUME Sequence(events), StackInv, TurnInv, IdleStep PROVE TurnInv'
<1>1. CASE TableMade
  <2>1. /\ Moved(1, <<>>) /\ Len(<<>>) = 0 /\ UNCHANGED <<gattsIf, adv, linked>>
    BY <1>1, TableIsOfItsProfile, ShortQueues DEF link
  <2> QED
    BY <2>1, TurnMoves
<1>2. CASE ExchangeMtu
  <2> DEFINE e == [kind |-> "mtu", mtu |-> 517]
  <2>1. events' = Append(events, e) /\ UNCHANGED <<gattsIf, adv, linked>>
    BY <1>2 DEF ExchangeMtu, Occurs, stack, link
  <2>2. ~Turn(e)
    BY DEF Turn
  <2> HIDE DEF e
  <2>3. Moved(0, <<e>>) /\ Len(<<e>>) = 1 /\ <<e>>[1] = e
    BY <2>1, OccursMoves
  <2>4. \A i \in 1 .. Len(<<e>>) : <<e>>[i] = e
    BY <2>3
  <2> QED
    BY <2>1, <2>2, <2>3, <2>4, TurnMoves
<1> QED
  BY <1>1, <1>2, HostInitTurn, RegisteredTurn, AdvertisingTurn, LinkTurn, LinkUpTurn, LinkDownTurn
    DEF IdleStep

(* and what waits apart. *)
LEMMA IdleApart ==
  ASSUME Sequence(events), StackInv, TurnInv, ApartInv, long \in Nat, IdleStep
  PROVE  ApartInv'
<1>1. PICK d, more : Idle(d, more) /\ (d = 1 \/ HostInit \/ LinkUp \/ LinkDown \/ ExchangeMtu)
  BY IdleSteps
<1>2. /\ Moved(d, more) /\ d \in {0, 1} /\ UNCHANGED <<startOta, starts>>
      /\ \A i \in 1 .. Len(more) : more[i].kind \notin {"write", "exec"}
  BY <1>1 DEF Idle, Moved, component
<1>3. CASE d = 1
  <2>1. \A i \in Waits : handles'["ota"] = handles["ota"] \/ events[i].kind # "write"
    BY <1>1 DEF Idle
  <2>2. services \subseteq services' /\ \A i \in 1 .. Len(more) : more[i].kind \notin {"write", "exec", "mtu"}
    BY <1>1, <1>3 DEF Idle
  <2>3. Moved(1, more)
    BY <1>2, <1>3
  <2> QED
    BY <1>2, <2>1, <2>2, <2>3, ApartPops
<1>4. CASE LinkDown
  BY <1>4, LinkDownApart
<1>5. ASSUME HostInit \/ LinkUp \/ ExchangeMtu PROVE ApartInv'
  <2>1. UNCHANGED <<handles, services, startOta, starts>> /\ (adv \/ Len(events) = 0)
    BY <1>5, ShortQueues DEF HostInit, LinkUp, ExchangeMtu, stack, component
  <2>2. \A i \in Waits : ~Apart(events[i])
    BY <2>1, NoneApart
  <2>3. PICK m : /\ Moved(0, m)
                 /\ \A i \in 1 .. Len(m) :
                      m[i].kind \in {"reg", "connect"} \/ m[i] = [kind |-> "mtu", mtu |-> 517]
    <3>1. CASE HostInit
      <4>1. PICK m : /\ Moved(0, m) /\ Len(m) = 2
                     /\ m[1] = [kind |-> "reg", profile |-> "ota", iface |-> 1]
                     /\ m[2] = [kind |-> "reg", profile |-> "dis", iface |-> 2]
        BY <3>1, HostInitMoves
      <4>2. \A i \in 1 .. Len(m) : i = 1 \/ i = 2
        BY <4>1
      <4>3. \A i \in 1 .. Len(m) : m[i].kind = "reg"
        BY <4>1, <4>2
      <4> QED
        BY <4>1, <4>3
    <3>2. CASE LinkUp \/ ExchangeMtu
      <4>1. PICK e : /\ events' = Append(events, e)
                     /\ e.kind = "connect" \/ e = [kind |-> "mtu", mtu |-> 517]
        BY <3>2 DEF LinkUp, ExchangeMtu, Occurs
      <4>2. Moved(0, <<e>>) /\ Len(<<e>>) = 1 /\ <<e>>[1] = e
        BY <4>1, OccursMoves
      <4>3. \A i \in 1 .. Len(<<e>>) : <<e>>[i] = e
        BY <4>2
      <4> QED
        BY <4>1, <4>2, <4>3
    <3> QED
      BY <1>5, <3>1, <3>2
  <2>4. ASSUME NEW i \in 1 .. Len(m) PROVE Known(m[i]) /\ ~Apart(m[i])
    <3>1. m[i].kind \notin {"write", "exec"} /\ (m[i].kind = "mtu" => m[i].mtu = 517)
      BY <2>3
    <3> QED
      BY <3>1 DEF Known, Apart, Takes, IsWrite
  <2> QED
    BY <2>1, <2>2, <2>3, <2>4, ApartAppends
<1> QED
  BY <1>1, <1>3, <1>4, <1>5

(* They do not change the flow either. *)
LEMMA IdleFlow ==
  ASSUME Sequence(events), Sequence(prep), LongInv, SessionInv, FlowInv, long \in Nat,
         NEW d, NEW more, Idle(d, more)
  PROVE  FlowInv'
<1>1. /\ Moved(d, more)
      /\ UNCHANGED <<hasBuf, sending, next, curSector, curPacket, offset, fwBuf, starts, startOta, prep>>
      /\ (ready' => ready) /\ long' \in {long, 0} /\ (linked' /\ long' > 0 => linked)
  BY DEF Idle, component
<1>2. ASSUME NEW e, e.kind \notin {"write", "exec"} PROVE ~Takes(e) /\ ~Piece(e)
  BY <1>2 DEF Takes, Piece, IsWrite
<1>3. d = 1 => 1 \in Waits /\ ~Takes(events[1]) /\ ~Piece(events[1])
  <2>1. ASSUME d = 1 PROVE 1 \in Waits /\ events[1].kind \notin {"write", "exec"}
    BY <2>1 DEF Idle
  <2> QED
    BY <1>2, <2>1
<1>4. ASSUME NEW i \in 1 .. Len(more)
      PROVE  ~Takes(more[i]) /\ ~Piece(more[i]) /\ more[i].kind # "write"
  <2>1. more[i].kind \notin {"write", "exec"}
    BY DEF Idle
  <2> QED
    BY <1>2, <2>1
<1>5. \A i \in Waits : handles'["ota"] = handles["ota"] \/ events[i].kind # "write"
  BY DEF Idle
<1>6. next \in Nat
  BY DEF SessionInv
<1> QED
  BY <1>1, <1>3, <1>4, <1>5, <1>6, FlowKept

-----------------------------------------------------------------------------
(* What the host sends: something that waits alone, *)
SentApart(e) ==
  /\ Apart(e) /\ ~Piece(e) /\ Len(events) = 0 /\ ~ready' /\ long = 0
  /\ Takes(e) => ~startOta
  /\ UNCHANGED <<long, next>>

(* a packet, a piece of one, and the end of a long write. *)
SentPacket(e) ==
  /\ ready /\ MaySend /\ Takes(e) /\ e.kind = "write" /\ Written(e.value, next)
  /\ next' = next + 1 /\ long = 0 /\ UNCHANGED <<ready, long>>
SentPiece(e) ==
  /\ ready /\ MaySend /\ Piece(e) /\ e.value = Packet(sending, next)
  /\ long \in {0, 1} /\ (long = 0 => prep = <<>> /\ Len(events) = 0)
  /\ long' = long + 1 /\ UNCHANGED <<ready, next>>
SentEnd(e) ==
  /\ ready /\ e.kind = "exec" /\ long = 2 /\ long' = 0
  /\ next' = IF Takes(e) THEN next + 1 ELSE next
  /\ UNCHANGED ready

Sent(e) ==
  /\ Moved(0, <<e>>) /\ UNCHANGED <<stack, link, component, prep, sending>>
  /\ linked /\ Known(e) /\ e.kind \in {"write", "exec"}
  /\ SentApart(e) \/ SentPacket(e) \/ SentPiece(e) \/ SentEnd(e)

Sends ==
  Subscribe \/ SendStart \/ SendStop \/ SendPacket \/ SendPiece \/ EndLong \/ SendStray

(* What is apart is no part of a long write: the host has begun none. *)
LEMMA ApartSent ==
  ASSUME NEW e, Apart(e), ~Piece(e), Len(events) = 0, ~ready, linked, LongInv, long \in Nat,
         UNCHANGED host
  PROVE  SentApart(e)
<1>1. long = 0
  <2>1. ~(long > 0)
    BY DEF LongInv
  <2> QED
    BY <2>1
<1>2. Takes(e) => ~startOta
  BY DEF Apart, Takes, IsWrite
<1> QED
  BY <1>1, <1>2 DEF SentApart, host

(* Each event that the host sends is one of these. *)
LEMMA HostSends ==
  ASSUME Sequence(events), StackInv, LongInv, SessionInv, long \in Nat, Sends
  PROVE  \E e : Sent(e)
<1>0. ASSUME NEW e, Moved(0, <<e>>), UNCHANGED <<stack, link, component, prep, sending>>, linked,
             Known(e), e.kind \in {"write", "exec"},
             SentApart(e) \/ SentPacket(e) \/ SentPiece(e) \/ SentEnd(e)
      PROVE  \E sent : Sent(sent)
  BY <1>0 DEF Sent
<1>1. linked /\ "ota" \in services /\ UNCHANGED <<stack, link, component, prep, sending>>
  BY DEF Sends, Subscribe, SendStart, SendStop, SendPacket, MaySend, SendPiece, EndLong, SendStray,
         Talks, host
<1>2. events = <<>> => Len(events) = 0
  BY NoneQueued
<1>3. CASE Subscribe
  <2>1. PICK char \in {"fwCcc", "cmdCcc"}, on \in BOOLEAN : Write(char, FALSE, on)
    BY <1>3 DEF Subscribe
  <2>2. PICK e : WrittenAs(e, char, FALSE, on)
    BY <1>1, <2>1, WriteMoves
  <2>3. Known(e) /\ Apart(e) /\ ~Piece(e)
    BY <1>1, <2>1, <2>2 DEF WrittenAs, Known, Apart, Piece, IsWrite
  <2>4. SentApart(e)
    BY <1>1, <1>2, <1>3, <2>3, ApartSent DEF Subscribe
  <2> QED
    BY <1>0, <1>1, <2>2, <2>3, <2>4 DEF WrittenAs
<1>4. CASE SendStart
  <2>1. Write("cmd", FALSE, "start") /\ starts < MaxStarts
    BY <1>4 DEF SendStart
  <2>2. PICK e : WrittenAs(e, "cmd", FALSE, "start")
    BY <1>1, <2>1, WriteMoves
  <2>3. Known(e) /\ Apart(e) /\ ~Piece(e)
    BY <1>1, <2>1, <2>2 DEF WrittenAs, Known, Apart, Piece, IsWrite
  <2>4. SentApart(e)
    BY <1>1, <1>2, <1>4, <2>3, ApartSent DEF SendStart
  <2> QED
    BY <1>0, <1>1, <2>2, <2>3, <2>4 DEF WrittenAs
<1>5. CASE SendStop
  <2>1. /\ Write("cmd", FALSE, "stop") /\ long = 0 /\ events = <<>> /\ ready' = FALSE
        /\ UNCHANGED <<sending, next, long>>
    BY <1>5 DEF SendStop
  <2>2. PICK e : WrittenAs(e, "cmd", FALSE, "stop")
    BY <1>1, <2>1, WriteMoves
  <2>3. Known(e) /\ Apart(e) /\ ~Piece(e) /\ ~Takes(e)
    BY <1>1, <2>1, <2>2 DEF WrittenAs, Known, Apart, Piece, IsWrite, Takes
  <2>4. SentApart(e)
    BY <1>2, <2>1, <2>3 DEF SentApart
  <2> QED
    BY <1>0, <1>1, <2>2, <2>3, <2>4 DEF WrittenAs
<1>6. CASE SendPacket
  <2>1. PICK p \in ToSend : Write("fw", FALSE, p)
    BY <1>6 DEF SendPacket
  <2>2. MaySend /\ long = 0 /\ next' = next + 1 /\ UNCHANGED <<ready, sending, long>>
    BY <1>6 DEF SendPacket
  <2>3. sending < Sectors /\ next < Packets(sending) /\ {sending, next} \subseteq Nat /\ ready
    BY <2>2 DEF MaySend, SessionInv
  <2>4. Written(p, next)
    <3>1. PICK s \in {sending} \cup (IF sending = Sectors - 1 THEN {LastMark} ELSE {}) :
            p = [Packet(sending, next) EXCEPT !.sector = s]
      BY <2>1 DEF ToSend
    <3>2. s \in {sending, LastMark} /\ (sending # LastMark => (s = LastMark => sending = Sectors - 1))
      BY <3>1
    <3>3. sending # LastMark
      <4>1. sending \in Nat /\ Sectors <= LastMark /\ LastMark \in Nat /\ Sectors \in Nat
        BY <2>3, Sizes, SectorCount DEF LastMark
      <4> QED
        BY <2>3, <4>1
    <3> QED
      BY <3>1, <3>2, <3>3 DEF Written
  <2>5. p \in PacketRecord
    BY <2>3, <2>4, WrittenPlace
  <2>6. PICK e : WrittenAs(e, "fw", FALSE, p)
    BY <1>1, <2>1, WriteMoves
  <2>7. Takes(e) /\ Known(e)
    BY <1>1, <2>5, <2>6 DEF WrittenAs, Takes, Known, IsWrite
  <2>8. SentPacket(e)
    BY <2>2, <2>3, <2>4, <2>6, <2>7 DEF WrittenAs, SentPacket
  <2> QED
    BY <1>0, <1>1, <2>6, <2>7, <2>8 DEF WrittenAs
<1>7. CASE SendPiece
  <2>1. /\ Write("fw", TRUE, Packet(sending, next)) /\ MaySend /\ long \in {0, 1}
        /\ (long = 0 => prep = <<>> /\ events = <<>>)
        /\ long' = long + 1 /\ UNCHANGED <<ready, sending, next>>
    BY <1>7 DEF SendPiece
  <2>2. sending < Sectors /\ next < Packets(sending) /\ {sending, next} \subseteq Nat /\ ready
    BY <2>1 DEF MaySend, SessionInv
  <2>3. Packet(sending, next) \in PacketRecord
    BY <2>2, PacketPlace
  <2>4. PICK p : p = Packet(sending, next)
    OBVIOUS
  <2>5. PICK e : WrittenAs(e, "fw", TRUE, p)
    BY <1>1, <2>1, <2>4, WriteMoves
  <2>6. Piece(e) /\ Known(e)
    BY <1>1, <2>3, <2>4, <2>5 DEF WrittenAs, Piece, Known, IsWrite
  <2>7. SentPiece(e)
    BY <1>2, <2>1, <2>2, <2>4, <2>5, <2>6 DEF WrittenAs, SentPiece
  <2> QED
    BY <1>0, <1>1, <2>5, <2>6, <2>7 DEF WrittenAs
<1>8. CASE EndLong
  <2>1. PICK flag \in {"exec", "cancel"} :
          /\ Occurs([kind |-> "exec", flag |-> flag])
          /\ next' = IF flag = "exec" THEN next + 1 ELSE next
    BY <1>8 DEF EndLong
  <2>2. long = 2 /\ long' = 0 /\ UNCHANGED <<ready, sending>>
    BY <1>8 DEF EndLong
  <2>3. PICK e : e = [kind |-> "exec", flag |-> flag]
    OBVIOUS
  <2>4. Moved(0, <<e>>)
    BY <2>1, <2>3, OccursMoves DEF Occurs
  <2>5. e.kind = "exec" /\ (Takes(e) <=> flag = "exec") /\ Known(e)
    BY <2>3 DEF Takes, Known, IsWrite
  <2>6. ready
    BY <1>1, <2>2 DEF LongInv
  <2>7. SentEnd(e)
    BY <2>1, <2>2, <2>5, <2>6 DEF SentEnd
  <2> QED
    BY <1>0, <1>1, <2>4, <2>5, <2>7
<1>9. CASE SendStray
  <2>1. ~startOta /\ ~ready /\ events = <<>> /\ UNCHANGED host
    BY <1>9 DEF SendStray
  <2>2. CASE Write("fw", FALSE, Packet(0, 0))
    <3>1. Sectors \in Nat \ {0}
      BY SectorCount
    <3>2. Packets(0) \in Nat \ {0}
      BY <3>1, PacketCount
    <3>3. Packet(0, 0) \in PacketRecord
      BY <3>1, <3>2, PacketPlace
    <3>4. PICK p : p = Packet(0, 0)
      OBVIOUS
    <3>5. PICK e : WrittenAs(e, "fw", FALSE, p)
      BY <1>1, <2>2, <3>4, WriteMoves
    <3>6. Known(e) /\ Apart(e) /\ ~Piece(e)
      BY <1>1, <2>1, <3>3, <3>5, <3>4 DEF WrittenAs, Known, Apart, Takes, Piece, IsWrite
    <3>7. SentApart(e)
      BY <1>1, <1>2, <2>1, <3>6, ApartSent
    <3> QED
      BY <1>0, <1>1, <3>5, <3>6, <3>7 DEF WrittenAs
  <2>3. CASE Occurs([kind |-> "exec", flag |-> "exec"])
    <3>1. PICK e : e = [kind |-> "exec", flag |-> "exec"]
      OBVIOUS
    <3>2. Moved(0, <<e>>)
      BY <2>3, <3>1, OccursMoves DEF Occurs
    <3>3. Known(e) /\ Apart(e) /\ ~Piece(e) /\ e.kind = "exec"
      BY <2>1, <3>1 DEF Known, Apart, Takes, Piece, IsWrite
    <3>4. SentApart(e)
      BY <1>1, <1>2, <2>1, <3>3, ApartSent
    <3> QED
      BY <1>0, <1>1, <3>2, <3>3, <3>4
  <2> QED
    BY <1>9, <2>2, <2>3 DEF SendStray
<1> QED
  BY <1>3, <1>4, <1>5, <1>6, <1>7, <1>8, <1>9 DEF Sends

(* What the host sends leaves the rest of the stack, the turns, and what waits apart
   as it should be.                                                                 *)
LEMMA SentFrame ==
  ASSUME Sequence(events), StackInv, TurnInv, ApartInv, SessionInv, NEW e, Sent(e)
  PROVE  Sequence(events') /\ StackInv' /\ TurnInv' /\ ApartInv'
<1>1. Moved(0, <<e>>) /\ UNCHANGED <<stack, link, component>> /\ e.kind \in {"write", "exec"}
  BY DEF Sent
<1>2. Len(<<e>>) = 1 /\ <<e>>[1] = e
  BY ShortQueues
<1>3. \A i \in 1 .. Len(<<e>>) : <<e>>[i] = e
  BY <1>2
<1>4. Sequence(events')
  BY <1>1 DEF Moved
<1>5. StackInv'
  BY <1>1, <1>3, StackMoves
<1>6. TurnInv'
  <2>1. ~Turn(e) /\ UNCHANGED <<adv, linked, gattsIf>>
    BY <1>1 DEF Turn, link, stack
  <2> QED
    BY <1>1, <1>3, <2>1, TurnMoves
<1>7. ApartInv'
  <2>1. UNCHANGED <<handles, services, startOta, starts, linked>> /\ linked /\ Known(e)
    BY <1>1 DEF Sent, stack, component, link
  <2>2. ready \/ Len(events) = 0
    BY DEF Sent, SentApart, SentPacket, SentPiece, SentEnd
  <2>3. \A i \in Waits : ~Apart(events[i])
    BY <2>2, NoneApart
  <2>4. Apart(e) => Len(events) = 0 /\ ~ready'
    <3>1. CASE SentApart(e)
      BY <3>1 DEF SentApart
    <3>2. CASE ready /\ (Takes(e) \/ Piece(e) \/ e.kind = "exec")
      <4>1. startOta
        BY <3>2 DEF SessionInv
      <4>2. ~Apart(e)
        BY <3>2, <4>1 DEF Apart, Takes, Piece, IsWrite
      <4> QED
        BY <4>2
    <3> QED
      BY <3>1, <3>2 DEF Sent, SentPacket, SentPiece, SentEnd
  <2> QED
    BY <1>1, <1>2, <1>3, <2>1, <2>3, <2>4, ApartAppends
<1> QED
  BY <1>4, <1>5, <1>6, <1>7

(* So are the pieces of long writes. *)
LEMMA SentPieces ==
  ASSUME Sequence(events), Sequence(prep), PieceInv, SessionInv, long \in Nat, NEW e, Sent(e)
  PROVE  PieceInv'
<1>1. /\ Moved(0, <<e>>) /\ UNCHANGED <<stack, component, prep>>
      /\ UNCHANGED handles /\ UNCHANGED startOta
  BY DEF Sent, stack, component
<1>2. Len(<<e>>) = 1 /\ <<e>>[1] = e
  BY ShortQueues
<1>3. \A i \in 1 .. Len(<<e>>) : <<e>>[i] = e
  BY <1>2
<1>4. CASE SentPiece(e)
  <2>1. /\ startOta /\ Piece(e) /\ long' = long + 1
        /\ (long = 0 /\ prep = <<>> /\ Len(events) = 0) \/ long = 1
    BY <1>4 DEF SentPiece, SessionInv
  <2> QED
    BY <1>1, <2>1, PieceSent
<1>5. ASSUME ~SentPiece(e) PROVE PieceInv'
  <2>1. ~Piece(e) /\ long' \in {long, 0}
    BY <1>5 DEF Sent, SentApart, SentPacket, SentEnd, Piece, Takes, IsWrite
  <2>2. Len(prep) \in Nat
    BY DEF Sequence
  <2>3. startOta' \/ \A i \in Waits : ~Piece(events[i])
    BY <1>1 DEF PieceInv
  <2> QED
    BY <1>1, <1>3, <2>1, <2>2, <2>3, PieceMoves
<1> QED
  BY <1>4, <1>5

(* A long write is begun when nothing waits, and its end is the only one that waits. *)
LEMMA SentLong ==
  ASSUME Sequence(events), LongInv, SessionInv, long \in Nat, NEW e, Sent(e)
  PROVE  LongInv'
<1>1. /\ Moved(0, <<e>>) /\ UNCHANGED <<stack, link, component>>
      /\ UNCHANGED handles /\ UNCHANGED linked
  BY DEF Sent, stack, link
<1>2. Len(<<e>>) = 1 /\ <<e>>[1] = e /\ Len(events) \in Nat
  BY ShortQueues DEF Sequence
<1>3. \A i \in 1 .. Len(<<e>>) : <<e>>[i] = e
  BY <1>2
<1>4. long' > 0 => ready'
  BY DEF Sent, SentApart, SentPacket, SentPiece, SentEnd
<1>5. ASSUME NEW i \in Waits, Takes(events[i]) \/ events[i].kind = "exec"
      PROVE  long = 0 /\ long' = 0
  <2>1. long = 0 /\ Len(events) # 0
    BY <1>2, <1>5 DEF LongInv, Waits
  <2> QED
    BY <2>1 DEF Sent, SentApart, SentPacket, SentPiece, SentEnd
<1>6. Takes(e) \/ e.kind = "exec" => long' = 0
  BY DEF Sent, SentApart, SentPacket, SentPiece, SentEnd, Takes, Piece, IsWrite
<1>7. ASSUME e.kind = "exec", NEW j \in Waits PROVE events[j].kind # "exec"
  <2>1. Len(events) # 0
    BY <1>2 DEF Waits
  <2>2. long = 2
    BY <1>7, <2>1 DEF Sent, SentApart, SentPacket, SentPiece, SentEnd, Piece, IsWrite
  <2> QED
    BY <1>5, <2>2
<1> QED
  BY <1>1, <1>2, <1>3, <1>4, <1>5, <1>6, <1>7, LongMoves

(* The component goes on as it was, and what the host counts are numbers still. *)
LEMMA SentSession ==
  ASSUME SessionInv, long \in Nat, NEW e, Sent(e)
  PROVE  SessionInv'
<1>1. UNCHANGED <<component, prep, sending>>
  BY DEF Sent
<1>2. next' \in Nat /\ (ready' => startOta)
  BY DEF Sent, SentApart, SentPacket, SentPiece, SentEnd, SessionInv
<1>3. starts = 0 => next' = 0 /\ long' = 0
  <2>1. CASE SentApart(e)
    BY <2>1 DEF SentApart, SessionInv
  <2>2. CASE ready
    <3>1. starts # 0
      BY <2>2 DEF SessionInv
    <3> QED
      BY <3>1
  <2> QED
    BY <2>1, <2>2 DEF Sent, SentPacket, SentPiece, SentEnd
<1>4. /\ curSector \in Nat /\ curPacket \in Nat /\ sending \in Nat
      /\ \A i \in 1 .. Len(prep) : prep[i] \in PacketRecord
      /\ startOta => starts > 0
      /\ starts = 0 => /\ offset = 0 /\ curSector = 0 /\ curPacket = 0 /\ fwBuf = {}
                       /\ delivered = <<>> /\ prep = <<>> /\ sending = 0
      /\ starts = 1 =>
           delivered = [i \in 1 .. curSector |-> [start |-> 1, data |-> SectorData(i - 1)]]
  BY DEF SessionInv
<1> QED
  BY <1>1, <1>2, <1>3, <1>4 DEF SessionInv, component

(* The types hold. *)
LEMMA SendsTypes ==
  ASSUME TypeOK, Sends, NEW e, Sent(e)
  PROVE  TypeOK'
<1>1. /\ UNCHANGED <<gattsIf, tables, services>> /\ UNCHANGED <<adv, linked, links, mtu, enabled>>
      /\ UNCHANGED <<startOta, hasBuf, offset, starts>> /\ UNCHANGED prep
  BY DEF Sent, stack, link, component
<1>2. ready' \in BOOLEAN
  <2>1. ready' = ready \/ ready' = FALSE
    BY DEF Sends, Subscribe, SendStart, SendStop, SendPacket, SendPiece, EndLong, SendStray, host
  <2>2. ready \in BOOLEAN
    BY DEF TypeOK
  <2> QED
    BY <2>1, <2>2
<1>3. long' \in 0 .. 2
  <2>1. long \in 0 .. 2
    BY DEF TypeOK
  <2> QED
    BY <2>1 DEF Sent, SentApart, SentPacket, SentPiece, SentEnd
<1>4. {adv, linked, startOta, hasBuf, ready}' \subseteq BOOLEAN
  <2>1. {adv, linked, startOta, hasBuf} \subseteq BOOLEAN
    BY DEF TypeOK
  <2> QED
    BY <1>1, <1>2, <2>1
<1> QED
  BY <1>1, <1>3, <1>4 DEF TypeOK

(* The packets that wait remain the next ones of the sector in hand. *)
LEMMA SentFlow ==
  ASSUME Sequence(events), Sequence(prep), LongInv, SessionInv, FlowInv, long \in Nat,
         startOta \in BOOLEAN, NEW e, Sent(e)
  PROVE  FlowInv'
<1>1. /\ Moved(0, <<e>>) /\ UNCHANGED <<stack, link, component, prep, sending>>
      /\ UNCHANGED handles /\ UNCHANGED linked /\ UNCHANGED startOta
      /\ UNCHANGED <<hasBuf, curSector, curPacket, offset, fwBuf, starts>> /\ linked
  BY DEF Sent, stack, link, component
<1>2. Len(<<e>>) = 1 /\ <<e>>[1] = e
  BY ShortQueues
<1>3. \A i \in 1 .. Len(<<e>>) : <<e>>[i] = e
  BY <1>2
<1>4. {sending, next} \subseteq Nat /\ next \in Nat
  BY DEF SessionInv
<1>5. ASSUME ~Takes(e), ~Piece(e), next' = next, ready' => ready, long' \in {long, 0} PROVE FlowInv'
  BY <1>1, <1>3, <1>4, <1>5, FlowKept
<1>6. CASE SentApart(e)
  <2>1. CASE Takes(e)
    <3>1. ~startOta'
      BY <1>1, <1>6, <2>1 DEF SentApart
    <3> QED
      BY <3>1 DEF FlowInv
  <2>2. CASE ~Takes(e)
    BY <1>5, <1>6, <2>2 DEF SentApart
  <2> QED
    BY <2>1, <2>2
<1>7. CASE SentPacket(e)
  <2>1. /\ Takes(e) /\ next' = next + 1 /\ long' = 0
        /\ MaySend /\ e.kind = "write" /\ Written(e.value, next)
    BY <1>7 DEF SentPacket
  <2> QED
    BY <1>1, <1>4, <2>1, FlowSends
<1>8. CASE SentPiece(e)
  <2>1. /\ MaySend /\ Piece(e) /\ e.value = Packet(sending, next) /\ long \in {0, 1}
        /\ (long = 0 => prep = <<>> /\ Len(events) = 0) /\ UNCHANGED next
    BY <1>8 DEF SentPiece
  <2> QED
    BY <1>1, <1>4, <2>1, FlowPieces
<1>9. CASE SentEnd(e)
  <2>1. e.kind = "exec" /\ long > 0 /\ long' = 0 /\ UNCHANGED ready
        /\ next' = IF Takes(e) THEN next + 1 ELSE next
    BY <1>9 DEF SentEnd
  <2>2. CASE Takes(e)
    BY <1>1, <1>4, <2>1, <2>2, FlowSends
  <2>3. CASE ~Takes(e)
    <3>1. ~Piece(e)
      BY <2>1 DEF Piece, IsWrite
    <3> QED
      BY <1>5, <2>1, <2>3, <3>1
  <2> QED
    BY <2>2, <2>3
<1> QED
  BY <1>6, <1>7, <1>8, <1>9 DEF Sent

-----------------------------------------------------------------------------
(* At first nothing waits, no profile is registered and no transfer was begun. *)
LEMMA InitHolds == Init => BluedroidInv
<1> SUFFICES ASSUME Init PROVE BluedroidInv
  OBVIOUS
<1>1. Len(<<>>) = 0 /\ Sequence(<<>>)
  BY ShortQueues
<1>2. Sequence(events) /\ Sequence(prep) /\ Len(events) = 0 /\ Len(prep) = 0 /\ Waits = {}
  <2>1. events = <<>> /\ prep = <<>>
    BY DEF Init
  <2> QED
    BY <1>1, <2>1 DEF Waits
<1>3. TypeOK
  <2>1. MaxLinks \in Nat /\ MaxStarts \in Nat /\ BufLength \in Nat
    BY Sizes DEF BufLength
  <2>2. /\ gattsIf = [p \in Profiles |-> 0] /\ tables = {} /\ services = {}
        /\ adv = FALSE /\ linked = FALSE /\ startOta = FALSE /\ hasBuf = FALSE /\ ready = FALSE
        /\ links = 0 /\ mtu = DefaultMtu /\ enabled = {} /\ offset = 0 /\ starts = 0 /\ long = 0
    BY DEF Init
  <2>3. gattsIf \in [Profiles -> 0 .. 2] /\ mtu \in {DefaultMtu, 517}
    BY <2>2
  <2>4. links \in 0 .. MaxLinks /\ offset \in 0 .. BufLength /\ starts \in 0 .. MaxStarts /\ long \in 0 .. 2
    BY <2>1, <2>2
  <2>5. {adv, linked, startOta, hasBuf, ready} \subseteq BOOLEAN /\ ~(adv /\ linked)
    BY <2>2
  <2> QED
    BY <1>2, <2>2, <2>3, <2>4, <2>5 DEF TypeOK
<1>4. StackInv
  BY <1>2 DEF Init, StackInv
<1>5. TurnInv
  BY <1>2 DEF Init, TurnInv
<1>6. ApartInv
  BY <1>2 DEF ApartInv
<1>7. PieceInv
  BY <1>2 DEF Init, PieceInv
<1>8. LongInv
  BY <1>2 DEF Init, LongInv
<1>9. SessionInv
  BY <1>1 DEF Init, SessionInv
<1>10. FlowInv
  BY DEF Init, FlowInv
<1> QED
  BY <1>2, <1>3, <1>4, <1>5, <1>6, <1>7, <1>8, <1>9, <1>10 DEF BluedroidInv

(* Every step keeps the invariant: those that have nothing to do with a transfer, *)
LEMMA IdleHolds ==
  ASSUME BluedroidInv, IdleStep
  PROVE  BluedroidInv'
<1>1. /\ TypeOK /\ Sequence(events) /\ Sequence(prep) /\ StackInv /\ TurnInv /\ ApartInv
      /\ PieceInv /\ LongInv /\ SessionInv /\ FlowInv
  BY DEF BluedroidInv
<1>2. long \in Nat
  BY <1>1 DEF TypeOK
<1>3. PICK d, more : Idle(d, more)
  BY <1>1, <1>2, IdleSteps
<1>4. Sequence(events') /\ Sequence(prep') /\ PieceInv' /\ LongInv' /\ SessionInv'
  BY <1>1, <1>2, <1>3, IdleKeeps
<1>5. StackInv'
  BY <1>1, IdleStack
<1>6. TurnInv'
  BY <1>1, IdleTurn
<1>7. ApartInv'
  BY <1>1, <1>2, IdleApart
<1>8. TypeOK'
  BY <1>1, <1>6, IdleTypes
<1>9. FlowInv'
  BY <1>1, <1>2, <1>3, IdleFlow
<1>10. Sequence(events)' /\ Sequence(prep)'
  BY <1>4 DEF Sequence
<1> QED
  BY <1>4, <1>5, <1>6, <1>7, <1>8, <1>9, <1>10 DEF BluedroidInv

(* the writes that are handled, *)
LEMMA HandledHolds ==
  ASSUME BluedroidInv, WriteEvent \/ ExecEvent
  PROVE  BluedroidInv'
<1>1. /\ TypeOK /\ Sequence(events) /\ Sequence(prep) /\ StackInv /\ TurnInv /\ ApartInv
      /\ PieceInv /\ LongInv /\ SessionInv /\ FlowInv
  BY DEF BluedroidInv
<1>2. long \in Nat /\ starts \in Nat /\ startOta \in BOOLEAN /\ Len(prep) <= 2
  BY <1>1, Sizes DEF TypeOK
<1>3. {sending, next} \subseteq Nat
  BY <1>1 DEF SessionInv
<1>4. Sequence(events') /\ StackInv' /\ TurnInv' /\ ApartInv'
  BY <1>1, HandledFrame
<1>5. PieceInv' /\ Sequence(prep') /\ Len(prep') <= 2
  BY <1>1, <1>2, <1>3, HandledPieces
<1>6. LongInv'
  BY <1>1, <1>3, HandledLong
<1>7. SessionInv'
  BY <1>1, <1>2, HandledSession
<1>8. TypeOK'
  BY <1>1, <1>5, HandledTypes
<1>9. FlowInv'
  BY <1>1, <1>2, HandledFlow
<1>10. Sequence(events)' /\ Sequence(prep)'
  BY <1>4, <1>5 DEF Sequence
<1> QED
  BY <1>4, <1>5, <1>6, <1>7, <1>8, <1>9, <1>10 DEF BluedroidInv

(* and those that the host sends. *)
LEMMA SentHolds ==
  ASSUME BluedroidInv, Sends
  PROVE  BluedroidInv'
<1>1. /\ TypeOK /\ Sequence(events) /\ Sequence(prep) /\ StackInv /\ TurnInv /\ ApartInv
      /\ PieceInv /\ LongInv /\ SessionInv /\ FlowInv
  BY DEF BluedroidInv
<1>2. long \in Nat /\ startOta \in BOOLEAN
  BY <1>1 DEF TypeOK
<1>3. PICK e : Sent(e)
  BY <1>1, <1>2, HostSends
<1>4. Sequence(events') /\ StackInv' /\ TurnInv' /\ ApartInv'
  BY <1>1, <1>3, SentFrame
<1>5. PieceInv'
  BY <1>1, <1>2, <1>3, SentPieces
<1>6. LongInv'
  BY <1>1, <1>2, <1>3, SentLong
<1>7. SessionInv'
  BY <1>1, <1>2, <1>3, SentSession
<1>8. TypeOK'
  BY <1>1, <1>3, SendsTypes
<1>9. FlowInv'
  BY <1>1, <1>2, <1>3, SentFlow
<1>10. Sequence(events)' /\ Sequence(prep)'
  <2>1. UNCHANGED prep
    BY <1>3 DEF Sent
  <2> QED
    BY <1>1, <1>4, <2>1 DEF Sequence
<1> QED
  BY <1>4, <1>5, <1>6, <1>7, <1>8, <1>9, <1>10 DEF BluedroidInv

(* A step that changes nothing changes no part of the invariant. *)
LEMMA StutterHolds ==
  ASSUME BluedroidInv, UNCHANGED vars
  PROVE  BluedroidInv'
<1>1. /\ TypeOK /\ Sequence(events) /\ Sequence(prep) /\ StackInv /\ TurnInv /\ ApartInv
      /\ PieceInv /\ LongInv /\ SessionInv /\ FlowInv
  BY DEF BluedroidInv
<1>2. /\ UNCHANGED <<events, prep, services, handles, starts, startOta, ready, linked, long>>
      /\ UNCHANGED <<stack, link, component>> /\ UNCHANGED <<sending, next>>
  BY DEF vars, stack, link, component, host
<1>3. long \in Nat
  BY <1>1 DEF TypeOK
<1>4. Moved(0, <<>>) /\ Idle(0, <<>>)
  <2>1. Sequence(<<>>) /\ Len(<<>>) = 0 /\ Len(events) \in Nat
    BY <1>1, ShortQueues DEF Sequence
  <2>2. Moved(0, <<>>)
    BY <1>1, <1>2, <2>1 DEF Moved
  <2> QED
    BY <1>2, <2>1, <2>2 DEF Idle
<1>5. PieceInv' /\ LongInv' /\ SessionInv'
  BY <1>1, <1>3, <1>4, IdleKeeps
<1>6. FlowInv'
  BY <1>1, <1>3, <1>4, IdleFlow
<1>7. StackInv' /\ TurnInv'
  BY <1>1, <1>2 DEF StackInv, TurnInv, Waits, Turn, stack, link
<1>8. ApartInv'
  <2>1. ASSUME NEW e PROVE (Known(e)' <=> Known(e)) /\ (Apart(e)' <=> Apart(e))
    <3>1. CharOf(e.handle)' = CharOf(e.handle)
      BY <1>2, CharKept
    <3>2. Known(e)' <=> Known(e)
      BY <1>2, <3>1 DEF Known, IsWrite
    <3> QED
      BY <1>2, <3>2, EventKept
  <2>2. ASSUME NEW i \in Waits'
        PROVE  /\ Known(events[i])'
               /\ Apart(events[i])' =>
                    /\ i = 1 /\ ~ready'
                    /\ IF linked' THEN Len(events') = 1
                       ELSE Len(events') = 2 /\ events'[2].kind = "disconnect"
    <3>1. PICK e : e = events'[i]
      OBVIOUS
    <3>2. i \in Waits /\ e = events[i]
      BY <1>2, <3>1 DEF Waits
    <3>3. Known(e) /\ (Apart(e) => /\ i = 1 /\ ~ready
                                  /\ IF linked THEN Len(events) = 1
                                     ELSE Len(events) = 2 /\ events[2].kind = "disconnect")
      BY <1>1, <3>2 DEF ApartInv
    <3>4. Known(e)' /\ (Apart(e)' <=> Apart(e))
      BY <2>1, <3>3
    <3> QED
      BY <1>2, <3>1, <3>3, <3>4
  <2> QED
    BY <2>2 DEF ApartInv
<1>9. TypeOK' /\ Sequence(events)' /\ Sequence(prep)'
  BY <1>1, <1>2 DEF TypeOK, Sequence, stack, link, component
<1> QED
  BY <1>5, <1>6, <1>7, <1>8, <1>9 DEF BluedroidInv

(* The inductive invariant holds in every state: each step is one of these. *)
THEOREM BluedroidInvariance == Spec => []BluedroidInv
<1>1. ASSUME BluedroidInv, [Next]_vars PROVE BluedroidInv'
  <2>1. CASE UNCHANGED vars
    BY <1>1, <2>1, StutterHolds
  <2>2. CASE Next
    <3>1. IdleStep \/ WriteEvent \/ ExecEvent \/ Sends
      BY <2>2 DEF Next, Handle, HostStep, IdleStep, Sends
    <3> QED
      BY <1>1, <3>1, IdleHolds, HandledHolds, SentHolds
  <2> QED
    BY <1>1, <2>1, <2>2
<1> QED
  BY InitHolds, <1>1, PTL DEF Spec

-----------------------------------------------------------------------------
(* As each profile has its own interface, there is at most one table for each. *)
LEMMA TablesApart ==
  ASSUME StackInv
  PROVE  Cardinality(tables) = Cardinality({t[1] : t \in tables})
<1> DEFINE T == {t[1] : t \in tables}
           f == [t \in tables |-> t[1]]
<1>1. \A t \in tables : t = <<t[1], Interface[t[1]]>> /\ t[1] \in Profiles
  BY DEF StackInv
<1>2. T \subseteq Profiles
  BY <1>1
<1>3. IsFiniteSet(Profiles)
  <2>1. Profiles = {"ota"} \cup {"dis"}
    BY DEF Profiles
  <2>2. IsFiniteSet({"ota"}) /\ IsFiniteSet({"dis"})
    BY FS_Singleton
  <2> QED
    BY <2>1, <2>2, FS_Union
<1>4. IsFiniteSet(T)
  BY <1>2, <1>3, FS_Subset
<1>5. f \in Injection(tables, T)
  <2>1. f \in [tables -> T]
    OBVIOUS
  <2>2. \A s, t \in tables : f[s] = f[t] => s = t
    BY <1>1
  <2> QED
    BY <2>1, <2>2 DEF Injection, IsInjective
<1>6. f \in Surjection(tables, T)
  BY DEF Surjection
<1> HIDE DEF T, f
<1>7. Cardinality(tables) = Cardinality(T)
  BY <1>4, <1>5, <1>6, FS_Injection
<1> QED
  BY <1>7 DEF T

(* Bluedroid gives every write to the profile it is for: the tables are apart, and a
   handle table that is filled is of its own service, which is the one started.     *)
THEOREM ProfilesStayApart == Spec => []ProfilesApart
<1>1. BluedroidInv => ProfilesApart
  <2> SUFFICES ASSUME BluedroidInv PROVE ProfilesApart
    OBVIOUS
  <2>1. StackInv
    BY DEF BluedroidInv
  <2>2. Cardinality(tables) = Cardinality({t[1] : t \in tables})
    BY <2>1, TablesApart
  <2>3. ASSUME NEW p \in Profiles, handles[p] # <<>>
        PROVE  handles[p] = HandlesOf(p) /\ p \in services /\ <<p, gattsIf[p]>> \in tables
    BY <2>1, <2>3 DEF StackInv
  <2> QED
    BY <2>2, <2>3 DEF ProfilesApart
<1> QED
  BY <1>1, BluedroidInvariance, PTL

(* The event that is due is the first that waits. *)
LEMMA FirstWaits ==
  ASSUME Sequence(events), NEW kind, Due(kind)
  PROVE  1 \in Waits /\ Head(events) = events[1] /\ events[1].kind = kind
BY Popped DEF Due, Waits

(* In a first transfer, a packet that is due fits behind what the ones before it left:
   they are the packets of one sector, in order.                                      *)
LEMMA DueFits ==
  ASSUME BluedroidInv, FirstTransfer, startOta, NEW p \in PacketDue
  PROVE  Fits(p)
<1>1. Sequence(events) /\ SessionInv /\ FlowInv /\ starts = 1
  BY DEF BluedroidInv, FirstTransfer
<1>2. {sending, next} \subseteq Nat
  BY <1>1 DEF SessionInv
<1>3. /\ 1 \in Waits /\ Takes(events[1])
      /\ p = IF events[1].kind = "write" THEN events[1].value ELSE prep[1]
  <2>1. CASE Due("write")
    <3>1. 1 \in Waits /\ Head(events) = events[1] /\ events[1].kind = "write"
      BY <1>1, <2>1, FirstWaits
    <3>2. CharOf(events[1].handle) = "fw" /\ ~events[1].prep /\ p = events[1].value
      BY <2>1, <3>1 DEF PacketDue
    <3> QED
      BY <3>1, <3>2 DEF Takes, IsWrite
  <2>2. CASE ~Due("write")
    <3>1. Due("exec") /\ Head(events).flag = "exec" /\ p = prep[1]
      BY <2>2 DEF PacketDue
    <3>2. 1 \in Waits /\ Head(events) = events[1] /\ events[1].kind = "exec"
      BY <1>1, <3>1, FirstWaits
    <3> QED
      BY <3>1, <3>2 DEF Takes
  <2> QED
    BY <2>1, <2>2
<1>4. Streams
  BY <1>1, <1>3 DEF FlowInv, Quiet
<1>5. curPacket \in Nat /\ curPacket < Packets(sending) /\ Written(p, curPacket)
  BY <1>1, <1>2, <1>3, <1>4, DuePlace
<1>6. hasBuf /\ offset = curPacket * Chunk /\ sending < Sectors
  BY <1>4 DEF Streams
<1>7. curPacket * Chunk + p.len <= BufLength
  BY <1>2, <1>5, <1>6, WrittenPlace
<1> QED
  BY <1>6, <1>7 DEF Fits

(* The buffer has room for every packet of a first transfer, whatever the host sends
   ahead, cuts into pieces, cancels or loses with its link.                          *)
THEOREM FirstTransferFits == Spec => []PacketsFit
<1>1. BluedroidInv => PacketsFit
  BY DueFits DEF BluedroidInv, PacketsFit, Overrun
<1> QED
  BY <1>1, BluedroidInvariance, PTL

-----------------------------------------------------------------------------
(* What was delivered in the first transfer comes before anything else. *)
FirstUpTo(q, n) == n \in 0 .. Len(q) /\ \A i \in 1 .. Len(q) : q[i].start = 1 <=> i <= n
Delivered == starts > 1 => Sequence(delivered) /\ \E n \in Nat : FirstUpTo(delivered, n)

FirstsOf(q) == [i \in 1 .. Cardinality({j \in 1 .. Len(q) : q[j].start = 1}) |-> q[i].data]
Whole(n) == [i \in 1 .. n |-> SectorData(i - 1)]
Taken(n) == [i \in 1 .. n |-> [start |-> 1, data |-> SectorData(i - 1)]]

(* So it is a beginning of what was delivered; *)
LEMMA FirstsCounted ==
  ASSUME NEW q, Len(q) \in Nat, NEW n \in Nat, FirstUpTo(q, n)
  PROVE  FirstsOf(q) = [i \in 1 .. n |-> q[i].data]
<1>1. {j \in 1 .. Len(q) : q[j].start = 1} = 1 .. n
  BY DEF FirstUpTo
<1>2. Cardinality(1 .. n) = n
  BY FS_Interval
<1> QED
  BY <1>1, <1>2 DEF FirstsOf

(* in a transfer that is the first, all of it. *)
LEMMA FirstsAre ==
  ASSUME NEW n \in Nat
  PROVE  /\ FirstsOf(Taken(n)) = Whole(n) /\ FirstUpTo(Taken(n), n)
         /\ Sequence(Taken(n)) /\ Len(Taken(n)) = n
<1>1. /\ Len(Taken(n)) = n /\ Sequence(Taken(n))
      /\ \A i \in 1 .. n : Taken(n)[i] = [start |-> 1, data |-> SectorData(i - 1)]
  BY DEF Taken, Sequence
<1>2. FirstUpTo(Taken(n), n)
  BY <1>1 DEF FirstUpTo
<1>3. FirstsOf(Taken(n)) = [i \in 1 .. n |-> Taken(n)[i].data]
  BY <1>1, <1>2, FirstsCounted
<1>4. \A i \in 1 .. n : Taken(n)[i].data = SectorData(i - 1)
  BY <1>1
<1> QED
  BY <1>1, <1>2, <1>3, <1>4 DEF Whole

(* One more sector is appended to those before it. *)
LEMMA WholeGrows ==
  ASSUME NEW n \in Nat
  PROVE  Len(Whole(n)) = n /\ Whole(n + 1) = Append(Whole(n), SectorData(n))
<1> DEFINE w == Whole(n)
           a == Append(w, SectorData(n))
<1>1. Len(w) = n /\ Sequence(w) /\ \A i \in 1 .. n : w[i] = SectorData(i - 1)
  BY DEF Whole, Sequence
<1> HIDE DEF w
<1>2. /\ Sequence(a) /\ Len(a) = n + 1 /\ a[n + 1] = SectorData(n)
      /\ \A i \in 1 .. n : a[i] = w[i]
  BY <1>1, Queued
<1>3. \A i \in 1 .. n + 1 : a[i] = SectorData(i - 1)
  <2>1. \A i \in 1 .. n + 1 : i \in 1 .. n \/ i = n + 1
    OBVIOUS
  <2>2. n + 1 - 1 = n
    OBVIOUS
  <2> HIDE DEF a
  <2> QED
    BY <1>1, <1>2, <2>1, <2>2
<1> HIDE DEF a
<1>4. a = [i \in 1 .. n + 1 |-> SectorData(i - 1)]
  BY <1>2, <1>3 DEF Sequence
<1> QED
  BY <1>1, <1>4 DEF Whole, w, a

(* The lemmas speak of the mapping of the specification. *)
LEMMA MappingIs ==
  /\ FirstGot = FirstsOf(delivered)
  /\ BluedroidInv /\ starts = 1 => delivered = Taken(curSector) /\ curSector \in Nat
  /\ BluedroidInv /\ starts = 0 => delivered = Taken(0) /\ delivered = <<>>
<1>1. FirstGot = FirstsOf(delivered)
  BY DEF FirstGot, FirstTaken, FirstsOf
<1>2. Taken(0) = <<>>
  BY DEF Taken
<1> QED
  BY <1>1, <1>2 DEF BluedroidInv, SessionInv, Taken

(* Where nothing is answered to a packet, the stream says nothing. *)
LEMMA Unsaid == answer.char # "fw" \/ ~FirstTransfer => FirstReply = <<>>
BY DEF FirstReply

(* The same after a step. *)
LEMMA UnsaidNext == answer'.char # "fw" \/ starts' # 1 => FirstReply' = <<>>
BY DEF FirstReply, FirstTransfer

(* A step that leaves the component alone is silent, or no step of the stream. *)
LEMMA StreamRests ==
  ASSUME UNCHANGED component, answer' = answer \/ answer'.char # "fw", Delivered
  PROVE  (Stream!Silence \/ UNCHANGED Stream!vars) /\ Delivered'
<1>1. UNCHANGED <<FirstOpen, FirstGot>>
  BY DEF component, FirstOpen, FirstTransfer, FirstGot, FirstTaken
<1>2. FirstReply' = FirstReply \/ FirstReply' = <<>>
  <2>1. CASE answer' = answer
    BY <2>1 DEF FirstReply, FirstTransfer, component
  <2>2. CASE answer'.char # "fw"
    BY <2>2, UnsaidNext
  <2> QED
    BY <2>1, <2>2
<1>3. Delivered'
  BY DEF Delivered, Sequence, FirstUpTo, component
<1> QED
  BY <1>1, <1>2, <1>3 DEF Stream!Silence, Stream!vars

(* A Start that is accepted opens the stream, if it is the first since the boot; *)
LEMMA StreamStarts ==
  ASSUME BluedroidInv, Delivered, StartAccepted
  PROVE  (Stream!Open \/ Stream!Silence) /\ Delivered'
<1>1. ~startOta /\ startOta' = TRUE /\ starts' = starts + 1 /\ delivered' = delivered /\ FirstReply' = <<>>
  BY UnsaidNext DEF StartAccepted
<1>2. starts \in Nat
  BY Sizes DEF BluedroidInv, TypeOK
<1>3. FirstGot' = FirstGot
  BY <1>1 DEF FirstGot, FirstTaken
<1>4. CASE starts = 0
  <2>1. FirstGot = <<>>
    <3>1. FirstGot = FirstsOf(Taken(0))
      BY <1>4, MappingIs
    <3>2. FirstGot = Whole(0)
      BY <3>1, FirstsAre
    <3> QED
      BY <3>2 DEF Whole
  <2>2. FirstOpen' = TRUE
    BY <1>1, <1>4 DEF FirstOpen, FirstTransfer
  <2>3. Delivered'
    BY <1>1, <1>4 DEF Delivered
  <2> QED
    BY <1>1, <1>3, <2>1, <2>2, <2>3 DEF Stream!Open
<1>5. CASE starts > 0
  <2>1. FirstOpen' = FirstOpen
    BY <1>1, <1>2, <1>5 DEF FirstOpen, FirstTransfer
  <2>2. Delivered'
    <3>1. CASE starts = 1
      <4>1. delivered' = Taken(curSector) /\ curSector \in Nat
        BY <1>1, <3>1, MappingIs
      <4>2. Sequence(delivered') /\ FirstUpTo(delivered', curSector)
        BY <4>1, FirstsAre
      <4> QED
        BY <4>1, <4>2 DEF Delivered, Sequence, FirstUpTo
    <3>2. CASE starts > 1
      BY <1>1, <3>2 DEF Delivered, Sequence, FirstUpTo
    <3> QED
      BY <1>2, <1>5, <3>1, <3>2
  <2> QED
    BY <1>1, <1>3, <2>1, <2>2 DEF Stream!Silence
<1> QED
  BY <1>2, <1>4, <1>5

(* a Stop closes it. *)
LEMMA StreamStops ==
  ASSUME Delivered, StopAccepted
  PROVE  Stream!Close /\ Delivered'
<1>1. startOta' = FALSE /\ starts' = starts /\ delivered' = delivered /\ FirstReply' = <<>>
  BY UnsaidNext DEF StopAccepted
<1>2. FirstGot' = FirstGot /\ FirstOpen' = FALSE
  BY <1>1 DEF FirstGot, FirstTaken, FirstOpen
<1>3. Delivered'
  BY <1>1 DEF Delivered, Sequence, FirstUpTo
<1> QED
  BY <1>1, <1>2, <1>3 DEF Stream!Close

(* A packet that does not end its sector is answered with the sector that is needed,
   or not at all.                                                                   *)
LEMMA StreamAsks ==
  ASSUME BluedroidInv, Delivered, startOta, NEW p, PacketCopied(p)
  PROVE  (Stream!Ask \/ Stream!Silence) /\ Delivered'
<1>1. UNCHANGED <<startOta, starts, delivered, curSector>>
  BY DEF PacketCopied
<1>2. FirstGot' = FirstGot /\ FirstOpen' = FirstOpen
  BY <1>1 DEF FirstGot, FirstTaken, FirstOpen, FirstTransfer
<1>3. Delivered'
  BY <1>1 DEF Delivered, Sequence, FirstUpTo
<1>4. CASE FirstReply' = <<>>
  BY <1>2, <1>3, <1>4 DEF Stream!Silence
<1>5. CASE answer'.char = "fw" /\ starts = 1
  <2>1. answer'.status = "indErr" /\ answer'.sector = curSector
    <3>1. Indicate("fw", "indErr", curSector) \/ Silent
      BY DEF PacketCopied
    <3> QED
      BY <1>5, <3>1 DEF Indicate, Silent, NoAnswer
  <2>2. FirstReply' = <<"needed", curSector>>
    BY <1>1, <1>5, <2>1 DEF FirstReply, FirstTransfer
  <2>3. Len(FirstGot) = curSector
    <3>1. FirstGot = FirstsOf(Taken(curSector)) /\ curSector \in Nat
      BY <1>5, MappingIs
    <3> QED
      BY <3>1, FirstsAre, WholeGrows
  <2>4. FirstOpen
    BY <1>5 DEF FirstOpen, FirstTransfer
  <2> QED
    BY <1>2, <1>3, <2>2, <2>3, <2>4 DEF Stream!Ask
<1> QED
  BY <1>1, <1>4, <1>5, UnsaidNext

(* The packet that ends its sector gives the whole of it to the application. *)
LEMMA StreamTakes ==
  ASSUME BluedroidInv, BluedroidInv', Delivered, 1 \in Waits,
         NEW p, PacketTaken(p), SectorEnd(p)
  PROVE  (Stream!Take \/ Stream!Silence) /\ Delivered'
<1>1. /\ UNCHANGED <<startOta, starts>> /\ curSector' = curSector + 1 /\ startOta
      /\ delivered' = Append(delivered,
           [start |-> starts, data |-> {u \in Filled(p) : u[1] < SectorBytes}])
      /\ answer'.char = "fw" /\ answer'.status = "success"
  BY DEF SectorEnd, PacketTaken, Indicate
<1>2. FirstOpen' = FirstOpen
  BY <1>1 DEF FirstOpen, FirstTransfer
<1>3. starts \in Nat /\ starts > 0
  BY <1>1, Sizes DEF BluedroidInv, TypeOK, SessionInv
<1>4. CASE starts = 1
  <2>1. /\ sending < Sectors /\ curSector = sending /\ answer'.sector \in {sending, LastMark}
        /\ answer'.sector = LastMark => sending = Sectors - 1
    <3>1. Sequence(events) /\ FlowInv /\ {sending, next} \subseteq Nat
      BY DEF BluedroidInv, SessionInv
    <3> QED
      BY <1>4, <3>1, TakenSector
  <2>2. FirstGot = Whole(curSector) /\ curSector \in Nat
    <3>1. FirstGot = FirstsOf(Taken(curSector)) /\ curSector \in Nat
      BY <1>4, MappingIs
    <3> QED
      BY <3>1, FirstsAre
  <2>3. FirstGot' = Whole(curSector + 1)
    <3>1. delivered' = Taken(curSector + 1)
      BY <1>1, <1>4 DEF BluedroidInv, SessionInv, Taken
    <3>2. FirstGot' = FirstsOf(delivered')
      BY DEF FirstGot, FirstTaken, FirstsOf
    <3> QED
      BY <2>2, <3>1, <3>2, FirstsAre
  <2>4. FirstGot' = Append(FirstGot, SectorData(Len(FirstGot))) /\ Len(FirstGot) = curSector
    BY <2>2, <2>3, WholeGrows
  <2>5. FirstReply' = <<"taken", Len(FirstGot)>>
    <3>1. FirstReply' = <<"taken", IF answer'.sector = LastMark THEN Sectors - 1 ELSE answer'.sector>>
      BY <1>1, <1>4 DEF FirstReply, FirstTransfer
    <3> QED
      BY <2>1, <2>4, <3>1
  <2>6. FirstOpen
    BY <1>1, <1>4 DEF FirstOpen, FirstTransfer
  <2>7. Delivered'
    BY <1>1, <1>4 DEF Delivered
  <2> QED
    BY <1>2, <2>1, <2>4, <2>5, <2>6, <2>7 DEF Stream!Take
<1>5. CASE starts > 1
  <2>1. PICK n \in Nat : FirstUpTo(delivered, n)
    BY <1>5 DEF Delivered
  <2>2. Sequence(delivered) /\ Len(delivered) \in Nat
    BY <1>5 DEF Delivered, Sequence
  <2>3. PICK d : d.start # 1 /\ delivered' = Append(delivered, d)
    BY <1>1, <1>5
  <2>4. /\ Sequence(delivered') /\ Len(delivered') = Len(delivered) + 1
        /\ \A i \in 1 .. Len(delivered) : delivered'[i] = delivered[i]
        /\ delivered'[Len(delivered) + 1] = d
    BY <2>2, <2>3, Queued
  <2>5. FirstUpTo(delivered', n)
    BY <2>1, <2>2, <2>3, <2>4 DEF FirstUpTo
  <2>6. FirstGot' = FirstGot
    <3>1. FirstGot' = FirstsOf(delivered') /\ FirstGot = FirstsOf(delivered)
      BY DEF FirstGot, FirstTaken, FirstsOf
    <3>2. FirstsOf(delivered) = [i \in 1 .. n |-> delivered[i].data]
      BY <2>1, <2>2, FirstsCounted
    <3>3. FirstsOf(delivered') = [i \in 1 .. n |-> delivered'[i].data]
      BY <2>2, <2>4, <2>5, FirstsCounted
    <3>4. \A i \in 1 .. n : delivered'[i].data = delivered[i].data
      BY <2>1, <2>2, <2>4 DEF FirstUpTo
    <3> QED
      BY <3>1, <3>2, <3>3, <3>4
  <2>7. Delivered'
    BY <2>4, <2>5 DEF Delivered, Sequence, FirstUpTo
  <2>8. FirstReply' = <<>>
    BY <1>1, <1>5, UnsaidNext
  <2> QED
    BY <1>2, <2>6, <2>7, <2>8 DEF Stream!Silence
<1> QED
  BY <1>3, <1>4, <1>5

(* Each step is a step of the stream, or none of its business. *)
LEMMA StreamStep ==
  ASSUME BluedroidInv, BluedroidInv', Delivered, [Next]_vars
  PROVE  [Stream!Next]_(Stream!vars) /\ Delivered'
<1>1. ASSUME UNCHANGED component, answer' = answer \/ answer'.char # "fw"
      PROVE  [Stream!Next]_(Stream!vars) /\ Delivered'
  BY <1>1, StreamRests DEF Stream!Next
<1>2. CASE UNCHANGED vars
  BY <1>1, <1>2 DEF vars
<1>3. CASE IdleStep \/ Sends
  <2>1. UNCHANGED component /\ (answer' = answer \/ answer' = NoAnswer)
    BY <1>3 DEF IdleStep, HostInit, Registered, TableMade, AdvertisingStep, LinkEvent, LinkUp, LinkDown,
                ExchangeMtu, Sends, Subscribe, SendStart, SendStop, SendPacket, MaySend, SendPiece,
                EndLong, SendStray, Talks
  <2>2. NoAnswer.char # "fw"
    BY DEF NoAnswer
  <2> QED
    BY <1>1, <2>1, <2>2
<1>4. CASE WriteEvent \/ ExecEvent
  <2>1. Sequence(events)
    BY DEF BluedroidInv
  <2>2. 1 \in Waits /\ (CalmEvent \/ StartAccepted \/ StopAccepted \/ \E p : PacketTaken(p))
    BY <1>4, <2>1, HandledCases
  <2>3. CASE CalmEvent
    BY <1>1, <2>3 DEF CalmEvent
  <2>4. CASE StartAccepted
    BY <2>4, StreamStarts DEF Stream!Next
  <2>5. CASE StopAccepted
    BY <2>5, StreamStops DEF Stream!Next
  <2>6. ASSUME NEW p, PacketTaken(p) PROVE [Stream!Next]_(Stream!vars) /\ Delivered'
    <3>1. startOta /\ (PacketCopied(p) \/ SectorEnd(p))
      BY <2>6 DEF PacketTaken
    <3>2. CASE PacketCopied(p)
      BY <3>1, <3>2, StreamAsks DEF Stream!Next
    <3>3. CASE SectorEnd(p)
      BY <2>2, <2>6, <3>3, StreamTakes DEF Stream!Next
    <3> QED
      BY <3>1, <3>2, <3>3
  <2> QED
    BY <2>2, <2>3, <2>4, <2>5, <2>6
<1> QED
  BY <1>2, <1>3, <1>4 DEF Next, Handle, HostStep, IdleStep, Sends

(* To the transport, the first transfer over Bluedroid is a stream of whole sectors
   in order, each answered for when the application has it.                        *)
THEOREM FirstTransferIsAStream == Spec => ImplementsStream
<1>1. Init => Stream!Init /\ Delivered
  <2> SUFFICES ASSUME Init PROVE Stream!Init /\ Delivered
    OBVIOUS
  <2>1. startOta = FALSE /\ delivered = <<>> /\ starts = 0
    BY DEF Init
  <2>2. BluedroidInv
    BY InitHolds
  <2>3. FirstGot = <<>>
    <3>1. FirstGot = FirstsOf(Taken(0))
      BY <2>1, <2>2, MappingIs
    <3>2. FirstGot = Whole(0)
      BY <3>1, FirstsAre
    <3> QED
      BY <3>2 DEF Whole
  <2>4. FirstReply = <<>>
    BY <2>1, Unsaid DEF FirstTransfer
  <2> QED
    BY <2>1, <2>3, <2>4 DEF Stream!Init, FirstOpen, Delivered
<1>2. BluedroidInv /\ BluedroidInv' /\ Delivered /\ [Next]_vars
        => [Stream!Next]_(Stream!vars) /\ Delivered'
  BY StreamStep
<1> QED
  BY <1>1, <1>2, BluedroidInvariance, PTL DEF Spec, ImplementsStream, Stream!Spec

-----------------------------------------------------------------------------
(* The safe half of AdvertisesAgain: a device that is neither linked nor advertising
   has an event that waits on the way to advertising.                              *)
Returns(e) == e.kind \in {"advParams", "advData", "disconnect"}
WayBack == gattsIf["ota"] # 0 => adv \/ linked \/ \E i \in Waits : Returns(events[i])

(* An event that is not taken waits on. *)
LEMMA WaitsOn ==
  ASSUME Sequence(events), NEW d, NEW more, Moved(d, more), NEW i \in Waits, i > d
  PROVE  \E j \in Waits' : events'[j] = events[i]
<1>1. /\ d \in {0, 1} /\ Len(events) \in Nat /\ Len(more) \in Nat /\ i \in Nat /\ i <= Len(events)
      /\ Len(events') = Len(events) - d + Len(more)
      /\ \A j \in 1 .. Len(events) - d : events'[j] = events[j + d]
  BY NoneQueued DEF Moved, Waits
<1>2. i - d \in 1 .. Len(events) - d /\ i - d \in 1 .. Len(events') /\ i - d + d = i
  BY <1>1
<1>3. events'[i - d] = events[i]
  BY <1>1, <1>2
<1> QED
  BY <1>2, <1>3 DEF Waits

(* The steps that take no such event leave it waiting. *)
LEMMA ReturnKept ==
  ASSUME Sequence(events), WayBack, NEW d, NEW more, Moved(d, more),
         UNCHANGED <<adv, linked>>, gattsIf'["ota"] = gattsIf["ota"],
         d = 1 => ~Returns(events[1])
  PROVE  WayBack'
<1> SUFFICES ASSUME gattsIf["ota"] # 0, ~adv, ~linked, NEW i \in Waits, Returns(events[i])
             PROVE  \E j \in Waits' : Returns(events[j])'
  BY DEF WayBack
<1>1. i > d
  <2>1. d \in {0, 1} /\ i \in Nat /\ i # 0
    BY DEF Moved, Waits
  <2>2. d = 1 => i # 1
    OBVIOUS
  <2> QED
    BY <2>1, <2>2
<1>2. PICK j \in Waits' : events'[j] = events[i]
  BY <1>1, WaitsOn
<1> QED
  BY <1>2 DEF Returns

(* The other steps bring it, or make it unnecessary. *)
LEMMA ReturnStep ==
  ASSUME BluedroidInv, BluedroidInv', WayBack, [Next]_vars
  PROVE  WayBack'
<1>1. Sequence(events) /\ StackInv /\ Len(events) \in Nat
  BY DEF BluedroidInv, Sequence
<1>2. CASE HostInit
  <2>1. gattsIf'["ota"] = 0
    BY <1>2 DEF HostInit, stack, Profiles
  <2> QED
    BY <2>1 DEF WayBack
<1>3. CASE Registered
  <2>1. events[1].kind = "reg" /\ ~Returns(events[1]) /\ UNCHANGED <<adv, linked>>
    BY <1>1, <1>3, RegisteredMoves DEF Returns, link
  <2>2. CASE Moved(1, <<>>) /\ UNCHANGED <<gattsIf, tables>>
    BY <1>1, <2>1, <2>2, ReturnKept
  <2>3. ASSUME NEW p, NEW more, Moved(1, more), RegisteredAs(p, more) PROVE WayBack'
    <3>1. CASE p = "ota"
      <4>1. Len(more) = 2 /\ more[1].kind = "advParams"
        BY <2>3, <3>1 DEF RegisteredAs
      <4>2. 1 \in 1 .. Len(more)
        BY <4>1
      <4>3. Len(events) - 1 + 1 = Len(events) /\ Len(events) \in 1 .. Len(events')
        BY <1>1, <2>3, <4>1 DEF Moved
      <4>4. events'[Len(events)] = more[1]
        BY <2>3, <4>2, <4>3 DEF Moved
      <4>5. Returns(events[Len(events)])' \/ ~(Len(events') = Len(events))
        BY <4>1, <4>4 DEF Returns
      <4>6. \E j \in Waits' : Returns(events'[j])
        BY <4>1, <4>3, <4>4 DEF Returns, Waits
      <4> QED
        BY <4>6 DEF WayBack, Returns
    <3>2. CASE p # "ota"
      <4>1. gattsIf'["ota"] = gattsIf["ota"]
        BY <2>3, <3>2 DEF RegisteredAs
      <4> QED
        BY <1>1, <2>1, <2>3, <4>1, ReturnKept
    <3> QED
      BY <3>1, <3>2
  <2> QED
    BY <1>1, <1>3, <2>2, <2>3, RegisteredMoves
<1>4. CASE AdvertisingStep
  <2>1. CASE adv' = TRUE
    BY <2>1 DEF WayBack
  <2>2. ASSUME NEW more, Moved(1, more), Len(more) = 1, more[1] = [kind |-> "advData"] PROVE WayBack'
    <3>1. 1 \in 1 .. Len(more) /\ more[1].kind = "advData"
      BY <2>2
    <3>2. Len(events) - 1 + 1 = Len(events) /\ Len(events) \in 1 .. Len(events')
      BY <1>1, <2>2 DEF Moved
    <3>3. events'[Len(events)] = more[1]
      BY <2>2, <3>1, <3>2 DEF Moved
    <3>4. \E j \in Waits' : Returns(events'[j])
      BY <3>1, <3>2, <3>3 DEF Returns, Waits
    <3> QED
      BY <3>4 DEF WayBack, Returns
  <2> QED
    BY <1>1, <1>4, <2>1, <2>2, AdvertisingMoves
<1>5. CASE LinkEvent
  <2>1. CASE adv' = TRUE
    BY <2>1 DEF WayBack
  <2>2. CASE events[1].kind \in {"mtu", "connect"} /\ UNCHANGED adv
    <3>1. Moved(1, <<>>) /\ UNCHANGED <<gattsIf, linked>> /\ ~Returns(events[1])
      BY <1>1, <1>5, <2>2, LinkEventMoves DEF stack, Returns
    <3> QED
      BY <1>1, <2>2, <3>1, ReturnKept
  <2> QED
    BY <1>1, <1>5, <2>1, <2>2, LinkEventMoves
<1>6. CASE LinkUp
  BY <1>6 DEF LinkUp, WayBack
<1>7. CASE LinkDown
  <2>1. events' = Append(events, [kind |-> "disconnect"])
    BY <1>7 DEF LinkDown
  <2>2. Len(events') = Len(events) + 1 /\ events'[Len(events) + 1] = [kind |-> "disconnect"]
    BY <1>1, <2>1, OccursMoves
  <2>3. \E j \in Waits' : Returns(events'[j])
    BY <1>1, <2>2 DEF Returns, Waits
  <2> QED
    BY <2>3 DEF WayBack, Returns
<1>8. ASSUME NEW e, events' = Append(events, e), UNCHANGED <<adv, linked, gattsIf>> PROVE WayBack'
  <2>1. Moved(0, <<e>>)
    BY <1>1, <1>8, OccursMoves
  <2> QED
    BY <1>1, <1>8, <2>1, ReturnKept
<1>9. CASE ExchangeMtu
  BY <1>8, <1>9 DEF ExchangeMtu, Occurs, stack, link
<1>10. CASE Sends
  <2>1. LongInv /\ SessionInv /\ long \in Nat
    BY DEF BluedroidInv, TypeOK
  <2>2. PICK e : Sent(e)
    BY <1>1, <1>10, <2>1, HostSends
  <2>3. Moved(0, <<e>>) /\ UNCHANGED <<adv, linked, gattsIf>>
    BY <2>2 DEF Sent, stack, link
  <2> QED
    BY <1>1, <2>3, ReturnKept
<1>11. CASE WriteEvent \/ ExecEvent
  <2>1. /\ Moved(1, <<>>) /\ UNCHANGED <<stack, adv, linked>>
        /\ events[1].kind \in {"write", "exec"}
    BY <1>1, <1>11, HandledCases
  <2>2. ~Returns(events[1]) /\ UNCHANGED gattsIf
    BY <2>1 DEF Returns, stack
  <2> QED
    BY <1>1, <2>1, <2>2, ReturnKept
<1>12. CASE UNCHANGED vars
  BY <1>12 DEF vars, stack, link, WayBack, Waits, Returns
<1>13. CASE TableMade
  <2>1. /\ Moved(1, <<>>) /\ events[1].kind = "table"
        /\ UNCHANGED <<gattsIf, adv, linked>>
    BY <1>1, <1>13, TableIsOfItsProfile DEF link
  <2> QED
    BY <1>1, <2>1, ReturnKept DEF Returns
<1> QED
  BY <1>2, <1>3, <1>4, <1>5, <1>6, <1>7, <1>9, <1>10, <1>11, <1>12, <1>13
  DEF Next, Handle, HostStep, Sends

(* Once the OTA profile is registered, the device is advertising, or linked, or it has
   an event waiting that leads back to advertising: no order of links, losses and
   registrations leaves it silent with nothing to wake it (gatts_profile_event_handler
   and gap_event_handler of ble_ota.c).                                             *)
THEOREM FoundAgain == Spec => []WayBack
<1>1. Init => WayBack
  BY DEF Init, WayBack, Profiles
<1>2. BluedroidInv /\ BluedroidInv' /\ WayBack /\ [Next]_vars => WayBack'
  BY ReturnStep
<1> QED
  BY <1>1, <1>2, BluedroidInvariance, PTL DEF Spec
=============================================================================
