---------------------------- MODULE BluedroidOta ----------------------------
(***************************************************************************)
(* The vendor component over Bluedroid (ble_ota/src/ble_ota.c): its two GATT *)
(* profiles, advertising, the writes of a host and the answers.  Bluedroid   *)
(* gives its events to the component's handlers one at a time, in order, in  *)
(* one task: each is one action.  The host may be several events ahead, as   *)
(* Bluedroid itself responds to its writes.                                  *)
(*                                                                         *)
(* The handlers check little, so what they do right depends on the host: it  *)
(* sends firmware only after a Start of its own was acknowledged, in order,  *)
(* and a sector only when the last one was.                                  *)
(***************************************************************************)
EXTENDS Naturals, Sequences, FiniteSets

CONSTANTS
  ImageBytes, Chunk,  \* length of the image, and of the payload of a packet
  MaxStarts,          \* bound on accepted Starts
  MaxLinks,           \* bound on links
  MaxAhead            \* bound on events that wait

VARIABLES
  events,             \* what Bluedroid has still to give to the handlers
  gattsIf, handles,   \* of each profile: its interface (0: none), its handle table
  tables, services,   \* Bluedroid's side: interface of each table made, services started
  adv, linked, links, mtu,
  enabled,            \* ota_notification: characteristics with indications on
  startOta, offset, curSector, curPacket,
  fwBuf,              \* what lies where in fw_buf: <<position, unit>>
  hasBuf, prep,       \* fw_buf # NULL; the prepared pieces of a long write
  answer,             \* the answer to the last write, and the parts it was sent in
  delivered, starts,  \* calls of recv_fw_cb, accepted Starts (history)
  ready, sending, next, long \* the host: may send, sector, packet, long write it is in

stack     == <<gattsIf, handles, tables, services>>
link      == <<adv, linked, links, mtu, enabled>>
component == <<startOta, offset, curSector, curPacket, fwBuf, hasBuf, delivered, starts>>
host      == <<ready, sending, next, long>>
vars      == <<events, stack, link, component, prep, answer, host>>

Profiles == {"ota", "dis"}
Attributes == [
  ota |-> <<"svc", "fwDecl", "fw", "fwCcc", "statusDecl", "status", "statusCcc",
            "cmdDecl", "cmd", "cmdCcc", "cusDecl", "cus", "cusCcc">>,
  dis |-> <<"svc", "modelDecl", "model", "snDecl", "sn", "fwRevDecl", "fwRev">>]
CccOf == [fwCcc |-> "fw", statusCcc |-> "status", cmdCcc |-> "cmd", cusCcc |-> "cus"]

SectorBytes == 4096
FaultyBufLength == 4096
BufLength == 4098
CrcBytes == 2
DefaultMtu == 23
AckBytes == 20

(* The image, cut into sectors and packets: <<n, k>> is packet k of sector n. *)
Sectors == (ImageBytes + SectorBytes - 1) \div SectorBytes
Bytes(n) == IF n + 1 < Sectors THEN SectorBytes ELSE ImageBytes - n * SectorBytes
Packets(n) == (Bytes(n) + Chunk - 1) \div Chunk
Eof == 255
LastMark == 65535
MinPayload == DefaultMtu - 3 - 3  \* ATT's header and the packet's own

(* The index of a sector has two bytes, and 0xffff is no sector. *)
ASSUME BluedroidAssumption ==
  /\ {ImageBytes, Chunk, MaxStarts, MaxLinks, MaxAhead} \subseteq Nat
  /\ ImageBytes > 0 /\ Chunk >= MinPayload /\ Sectors <= LastMark

Packet(n, k) ==
  LET tail == k = Packets(n) - 1 IN
    [sector |-> n, seq |-> IF tail THEN Eof ELSE k, unit |-> <<n, k>>,
     len |-> IF tail THEN Bytes(n) - k * Chunk + CrcBytes ELSE Chunk]
SectorData(n) == {<<k * Chunk, <<n, k>>>> : k \in 0 .. Packets(n) - 1}

NoAnswer == [char |-> "none", status |-> "none", sector |-> 0, parts |-> <<>>]

Init ==
  /\ events = <<>> /\ gattsIf = [p \in Profiles |-> 0] /\ handles = [p \in Profiles |-> <<>>]
  /\ tables = {} /\ services = {}
  /\ adv = FALSE /\ linked = FALSE /\ links = 0 /\ mtu = DefaultMtu /\ enabled = {}
  /\ startOta = FALSE /\ offset = 0 /\ curSector = 0 /\ curPacket = 0
  /\ fwBuf = {} /\ hasBuf = FALSE /\ prep = <<>> /\ answer = NoAnswer
  /\ delivered = <<>> /\ starts = 0
  /\ ready = FALSE /\ sending = 0 /\ next = 0 /\ long = 0

-----------------------------------------------------------------------------
(* esp_ble_ota_host_init: Bluedroid registers the two profiles. *)
HostInit ==
  /\ events = <<>> /\ gattsIf = [p \in Profiles |-> 0] /\ tables = {}
  /\ events' = <<[kind |-> "reg", profile |-> "ota", iface |-> 1],
                 [kind |-> "reg", profile |-> "dis", iface |-> 2]>>
  /\ UNCHANGED <<stack, link, component, prep, answer, host>>

Due(kind) == events # <<>> /\ Head(events).kind = kind
Handled == events' = Tail(events)
Raises(more) == events' = Tail(events) \o more

(* gatts_event_handler: the profiles that an event of an interface is for *)
Called(iface) == {p \in Profiles : gattsIf'[p] = iface}

FaultyStoresIf(e) == gattsIf' = [gattsIf EXCEPT !["ota"] = e.iface]
StoresIf(e) == gattsIf' = [gattsIf EXCEPT ![e.profile] = e.iface]

MakesTable(p, iface) == [kind |-> "table", of |-> p, iface |-> iface]

(* ESP_GATTS_REG_EVT; a registration that failed is only logged. *)
Registered ==
  /\ Due("reg")
  /\ LET e == Head(events) IN
       \/ /\ StoresIf(e)
          /\ tables' = tables \cup {<<p, e.iface>> : p \in Called(e.iface)}
          /\ Raises((IF "ota" \in Called(e.iface)
                       THEN <<[kind |-> "advParams"], MakesTable("ota", e.iface)>> ELSE <<>>)
                    \o (IF "dis" \in Called(e.iface) THEN <<MakesTable("dis", e.iface)>> ELSE <<>>))
       \/ Handled /\ UNCHANGED <<gattsIf, tables>>
  /\ UNCHANGED <<handles, services, link, component, prep, answer, host>>

(* ESP_GATTS_CREAT_ATTR_TAB_EVT: a table of the wrong size is not taken. *)
FirstHandle(p) == IF p = "ota" THEN 40 ELSE 60
HandlesOf(p) == [i \in DOMAIN Attributes[p] |-> FirstHandle(p) + i]

TableMade ==
  /\ Due("table")
  /\ LET e == Head(events)
         made == {p \in Profiles : gattsIf[p] = e.iface
                                   /\ Len(Attributes[p]) = Len(Attributes[e.of])} IN
       \/ /\ handles' = [p \in Profiles |-> IF p \in made THEN HandlesOf(e.of) ELSE handles[p]]
          /\ services' = services \cup {e.of : p \in made}
       \/ UNCHANGED <<handles, services>>
  /\ Handled
  /\ UNCHANGED <<gattsIf, tables, link, component, prep, answer, host>>

(* gap_event_handler *)
AdvertisingStep ==
  /\ \/ Due("advParams") /\ Raises(<<[kind |-> "advData"]>>) /\ UNCHANGED adv
     \/ Due("advData") /\ Handled /\ adv' = TRUE
  /\ UNCHANGED <<stack, linked, links, mtu, enabled, component, prep, answer, host>>

-----------------------------------------------------------------------------
(* esp_ble_ota_notification_data and esp_ble_ota_send_indication *)
FaultyParts(len, room) ==
  IF len < room THEN <<len>>
  ELSE [i \in 1 .. (len + room - 2) \div (room - 1) |->
          IF i * (room - 1) < len THEN room - 1 ELSE len - (i - 1) * (room - 1)]
Parts(len, room) ==
  IF len <= room THEN <<len>>
  ELSE [i \in 1 .. (len + room - 1) \div room |->
          IF i * room < len THEN room ELSE len - (i - 1) * room]

Indicate(char, status, sector) ==
  answer' = [char |-> char, status |-> status, sector |-> sector,
             parts |-> IF char \in enabled /\ linked THEN Parts(AckBytes, mtu - 3) ELSE <<>>]
Reaches(status) == answer'.status = status /\ Len(answer'.parts) = 1
Silent == answer' = NoAnswer

(* esp_ble_ota_process_recv_data: a Start.  When there is no memory it is neither
   acknowledged nor undone.                                                      *)
Start ==
  \/ /\ startOta /\ Indicate("cmd", "rejected", 0) /\ UNCHANGED component
  \/ /\ ~startOta /\ startOta' = TRUE /\ starts' = starts + 1
     /\ \/ hasBuf' = TRUE /\ fwBuf' = {} /\ Indicate("cmd", "started", 0)
        \/ hasBuf' = FALSE /\ Silent /\ UNCHANGED fwBuf
     /\ UNCHANGED <<offset, curSector, curPacket, delivered>>

Stop ==
  \/ /\ startOta /\ startOta' = FALSE /\ hasBuf' = FALSE /\ fwBuf' = {}
     /\ Indicate("cmd", "stopped", 0)
     /\ UNCHANGED <<offset, curSector, curPacket, delivered, starts>>
  \/ /\ ~startOta /\ Indicate("cmd", "rejected", 0) /\ UNCHANGED component

(* A firmware packet: a wrong sector is answered, a wrong sequence number only
   logged, and the packet is copied all the same; one answer stays, the last.
   What follows a copy that leaves the buffer is undefined, and not modelled.  *)
Filled(p) == fwBuf \cup {<<offset, p.unit>>}
Fits(p) == hasBuf /\ offset + p.len <= BufLength
WrongSector(p) == p.sector \notin {curSector, LastMark}

PacketCopied(p) ==
  /\ p.seq # Eof /\ Fits(p)
  /\ fwBuf' = Filled(p) /\ offset' = offset + p.len /\ curPacket' = curPacket + 1
  /\ IF WrongSector(p) THEN Indicate("fw", "indErr", curSector) ELSE Silent
  /\ UNCHANGED <<startOta, curSector, hasBuf, delivered, starts>>

FaultySectorEnd(p) ==
  /\ p.seq = Eof /\ Fits(p)
  /\ delivered' = Append(delivered,
       [start |-> starts, data |-> {u \in Filled(p) : u[1] < SectorBytes}])
  /\ fwBuf' = {} /\ offset' = 0 /\ curPacket' = 0 /\ curSector' = curSector + 1
  /\ Indicate("fw", "success", curSector')
  /\ UNCHANGED <<startOta, hasBuf, starts>>
SectorEnd(p) ==
  /\ p.seq = Eof /\ Fits(p)
  /\ delivered' = Append(delivered,
       [start |-> starts, data |-> {u \in Filled(p) : u[1] < SectorBytes}])
  /\ fwBuf' = {} /\ offset' = 0 /\ curPacket' = 0 /\ curSector' = curSector + 1
  /\ Indicate("fw", "success", p.sector)
  /\ UNCHANGED <<startOta, hasBuf, starts>>

RecvFw(p) ==
  \/ startOta /\ (PacketCopied(p) \/ SectorEnd(p))
  \/ ~startOta /\ Silent /\ UNCHANGED component

(* find_ota_char_and_desr_by_handle, over the handle table of the profile *)
CharOf(handle) ==
  LET at == {i \in DOMAIN handles["ota"] : handles["ota"][i] = handle} IN
    IF at = {} THEN "invalid" ELSE Attributes["ota"][CHOOSE i \in at : TRUE]

(* What a host does about an answer that reached it *)
HostReads ==
  /\ ready' = CASE Reaches("started") -> TRUE
                [] Reaches("stopped") \/ Reaches("indErr") -> FALSE
                [] OTHER -> ready
  /\ IF Reaches("success") /\ ready
       THEN sending' = sending + 1 /\ next' = 0
       ELSE IF Reaches("started") THEN sending' = 0 /\ next' = 0
       ELSE UNCHANGED <<sending, next>>
  /\ UNCHANGED long

(* ESP_GATTS_WRITE_EVT of the OTA profile *)
Subscribed(char, on) ==
  /\ enabled' = IF on THEN enabled \cup {CccOf[char]} ELSE enabled \ {CccOf[char]}
  /\ Silent /\ UNCHANGED <<component, prep>>

WriteEvent ==
  /\ Due("write") /\ Handled
  /\ LET e == Head(events)  char == CharOf(e.handle) IN
       \/ char \in DOMAIN CccOf /\ Subscribed(char, e.value)
       \/ char = "cmd" /\ e.value = "start" /\ Start /\ UNCHANGED <<prep, enabled>>
       \/ char = "cmd" /\ e.value = "stop" /\ Stop /\ UNCHANGED <<prep, enabled>>
       \/ char = "fw" /\ ~e.prep /\ RecvFw(e.value) /\ UNCHANGED <<prep, enabled>>
       \/ /\ char = "fw" /\ e.prep
          /\ prep' = Append(prep, e.value) /\ Silent /\ UNCHANGED <<component, enabled>>
  /\ HostReads
  /\ UNCHANGED <<stack, adv, linked, links, mtu>>

(* ESP_GATTS_EXEC_WRITE_EVT: what was prepared is a firmware packet, and is not
   dropped once it was used; a cancel drops it.                               *)
ExecEvent ==
  /\ Due("exec") /\ Handled
  /\ IF Head(events).flag = "exec"
       THEN /\ IF prep = <<>> THEN Silent /\ UNCHANGED component ELSE RecvFw(prep[1])
            /\ UNCHANGED prep
       ELSE prep' = <<>> /\ Silent /\ UNCHANGED component
  /\ HostReads
  /\ UNCHANGED <<stack, link>>

(* ESP_GATTS_MTU_EVT, ESP_GATTS_CONNECT_EVT, ESP_GATTS_DISCONNECT_EVT *)
FaultyLinkEvent ==
  /\ \/ Due("mtu") /\ mtu' = Head(events).mtu /\ UNCHANGED adv
     \/ Due("connect") /\ UNCHANGED <<adv, mtu>>
     \/ Due("disconnect") /\ mtu' = DefaultMtu /\ adv' = startOta
  /\ Handled
  /\ UNCHANGED <<stack, linked, links, enabled, component, prep, answer, host>>
LinkEvent ==
  /\ \/ Due("mtu") /\ mtu' = Head(events).mtu /\ UNCHANGED adv
     \/ Due("connect") /\ UNCHANGED <<adv, mtu>>
     \/ Due("disconnect") /\ mtu' = DefaultMtu /\ adv' = TRUE
  /\ Handled
  /\ UNCHANGED <<stack, linked, links, enabled, component, prep, answer, host>>

Handle ==
  \/ Registered \/ TableMade \/ AdvertisingStep \/ WriteEvent \/ ExecEvent \/ LinkEvent

-----------------------------------------------------------------------------
(* The host and its link *)
Occurs(e) == Len(events) < MaxAhead /\ events' = Append(events, e)
Write(char, prepared, value) ==
  \E i \in DOMAIN Attributes["ota"] :
    /\ Attributes["ota"][i] = char
    /\ Occurs([kind |-> "write", handle |-> FirstHandle("ota") + i, prep |-> prepared, value |-> value])

LinkUp ==
  /\ adv /\ links < MaxLinks /\ links' = links + 1
  /\ adv' = FALSE /\ linked' = TRUE
  /\ ready' = FALSE /\ long' = 0 /\ answer' = NoAnswer
  /\ Occurs([kind |-> "connect"])
  /\ UNCHANGED <<stack, mtu, enabled, component, prep, sending, next>>

LinkDown ==
  /\ linked /\ linked' = FALSE /\ ready' = FALSE
  /\ events' = Append(events, [kind |-> "disconnect"])
  /\ UNCHANGED <<stack, adv, links, mtu, enabled, component, prep, answer, sending, next, long>>

Talks == linked /\ "ota" \in services /\ UNCHANGED <<stack, link, component, prep, answer>>

ExchangeMtu ==
  /\ linked /\ mtu = DefaultMtu /\ events = <<>> /\ Occurs([kind |-> "mtu", mtu |-> 517])
  /\ UNCHANGED <<stack, link, component, prep, answer, host>>
Subscribe ==
  /\ Talks /\ ~ready /\ events = <<>>
  /\ \E char \in {"fwCcc", "cmdCcc"}, on \in BOOLEAN :
       /\ on # (CccOf[char] \in enabled)
       /\ Write(char, FALSE, on)
  /\ UNCHANGED host
SendStart ==
  /\ Talks /\ {"fw", "cmd"} \subseteq enabled /\ ~ready /\ events = <<>> /\ starts < MaxStarts
  /\ Write("cmd", FALSE, "start") /\ UNCHANGED host
SendStop ==
  /\ Talks /\ long = 0 /\ events = <<>> /\ Write("cmd", FALSE, "stop")
  /\ ready' = FALSE /\ UNCHANGED <<sending, next, long>>

(* The next packet of the sector; the last sector may be called 0xffff. *)
ToSend ==
  {[Packet(sending, next) EXCEPT !.sector = s] :
     s \in {sending} \cup (IF sending = Sectors - 1 THEN {LastMark} ELSE {})}
MaySend == Talks /\ ready /\ sending < Sectors /\ next < Packets(sending)
SendPacket ==
  /\ MaySend /\ long = 0
  /\ \E p \in ToSend : Write("fw", FALSE, p)
  /\ next' = next + 1 /\ UNCHANGED <<ready, sending, long>>

(* A packet sent in two prepared pieces, and executed or cancelled.  The host
   begins one only while the component holds no pieces: it never drops those it
   has used.                                                                 *)
SendPiece ==
  /\ MaySend
  /\ long \in {0, 1} /\ (long = 0 => prep = <<>> /\ events = <<>>)
  /\ Write("fw", TRUE, Packet(sending, next))
  /\ long' = long + 1 /\ UNCHANGED <<ready, sending, next>>
EndLong ==
  /\ Talks /\ long = 2
  /\ \E flag \in {"exec", "cancel"} :
       /\ Occurs([kind |-> "exec", flag |-> flag])
       /\ next' = IF flag = "exec" THEN next + 1 ELSE next
  /\ long' = 0 /\ UNCHANGED <<ready, sending>>

(* What the component has to ignore: firmware before a Start, nothing to execute *)
SendStray ==
  /\ Talks /\ ~startOta /\ ~ready /\ events = <<>>
  /\ \/ Write("fw", FALSE, Packet(0, 0))
     \/ prep = <<>> /\ Occurs([kind |-> "exec", flag |-> "exec"])
  /\ UNCHANGED host

HostStep ==
  \/ LinkUp \/ LinkDown \/ ExchangeMtu \/ Subscribe \/ SendStart \/ SendStop
  \/ SendPacket \/ SendPiece \/ EndLong \/ SendStray

Next == HostInit \/ Handle \/ HostStep

Spec == Init /\ [][Next]_vars

(* Bluedroid's task runs while there are events; a host that has begun sends on, and
   does not for ever begin and cancel a long write.                                *)
FairSpec ==
  /\ Spec /\ WF_vars(Handle)
  /\ SF_vars(SendPacket) /\ WF_vars(SendPiece /\ long = 1) /\ WF_vars(EndLong)

-----------------------------------------------------------------------------
TypeOK ==
  /\ gattsIf \in [Profiles -> 0 .. 2]
  /\ tables \subseteq Profiles \X (1 .. 2) /\ services \subseteq Profiles
  /\ {adv, linked, startOta, hasBuf, ready} \subseteq BOOLEAN /\ links \in 0 .. MaxLinks
  /\ mtu \in {DefaultMtu, 517} /\ enabled \subseteq {"fw", "status", "cmd", "cus"}
  /\ offset \in 0 .. BufLength /\ starts \in 0 .. MaxStarts
  /\ long \in 0 .. 2 /\ Len(prep) <= 2 /\ ~(adv /\ linked)

FirstTransfer == starts = 1

(* Each profile has its own interface, each table was made once, and a handle table
   that is filled is of its own service, which then is the one started: so a write
   to an attribute is taken for what it is.                                        *)
ProfilesApart ==
  /\ Cardinality(tables) = Cardinality({t[1] : t \in tables})
  /\ \A p \in Profiles :
       handles[p] # <<>> => handles[p] = HandlesOf(p) /\ p \in services /\ <<p, gattsIf[p]>> \in tables

(* The buffer has room for the packets of a sector with their CRC, exactly: in the
   first transfer after a boot, whatever is rejected, cancelled or cut off on the
   way, every packet that waits fits behind what the ones before it left.  (The
   types hold, too.)                                                               *)
PacketDue ==
  IF Due("write") THEN {e.value : e \in {x \in {Head(events)} : CharOf(x.handle) = "fw" /\ ~x.prep}}
  ELSE IF Due("exec") /\ Head(events).flag = "exec" /\ prep # <<>> THEN {prep[1]} ELSE {}
Overrun == startOta /\ \E p \in PacketDue : ~Fits(p)
PacketsFit == TypeOK /\ (FirstTransfer => ~Overrun)

(* The first transfer after a boot, as the transport sees it, is SectorStream: whole
   sectors in order, each acknowledged when it was given to the application.  The
   component does not start a second one afresh: see the README.                    *)
FirstOpen  == startOta /\ FirstTransfer
FirstTaken == {i \in 1 .. Len(delivered) : delivered[i].start = 1}
FirstGot   == [i \in 1 .. Cardinality(FirstTaken) |-> delivered[i].data]
FirstReply ==
  IF ~FirstTransfer \/ answer.char # "fw" THEN <<>>
  ELSE IF answer.status = "success"
    THEN <<"taken", IF answer.sector = LastMark THEN Sectors - 1 ELSE answer.sector>>
    ELSE <<"needed", answer.sector>>
Stream == INSTANCE SectorStream WITH open <- FirstOpen, got <- FirstGot, reply <- FirstReply
ImplementsStream == Stream!Spec

(* Whatever happens to a link, the device is found again, if its profile was
   registered and no packet of a second transfer has left the buffer.        *)
AdvertisesAgain == [](gattsIf["ota"] # 0 => <>(adv \/ linked \/ Overrun))

(* A first transfer whose Start is accepted ends with the acknowledgement of its last
   sector, unless the link is lost or the host stops: every answer arrives, and in one
   piece, even when the MTU was never raised.                                        *)
Subscribing == {"fw", "cmd"} \subseteq enabled
TransferEnds ==
  FirstTransfer /\ answer.status = "started" /\ linked /\ Subscribing
    ~> sending = Sectors \/ ~linked \/ ~startOta \/ ~Subscribing

-----------------------------------------------------------------------------
(* The inductive invariant.  A numbering of the events that wait gives each the
   packet that is due when its turn comes; the last number is the packet the host
   sends next.                                                                   *)
Sequence(q) == Len(q) \in Nat /\ q = [i \in 1 .. Len(q) |-> q[i]]
Waits == 1 .. Len(events)
Interface == [ota |-> 1, dis |-> 2]
PacketRecord == [sector : Nat, seq : Nat, unit : Nat \X Nat, len : Nat]

IsWrite(e, char) == e.kind = "write" /\ CharOf(e.handle) = char
Takes(e) == \/ IsWrite(e, "fw") /\ ~e.prep
            \/ e.kind = "exec" /\ e.flag = "exec"
Piece(e) == IsWrite(e, "fw") /\ e.prep

StackInv ==
  /\ DOMAIN gattsIf = Profiles /\ DOMAIN handles = Profiles /\ services \subseteq Profiles
  /\ tables \subseteq {<<p, Interface[p]>> : p \in Profiles}
  /\ \A p \in Profiles :
       /\ gattsIf[p] \in {0, Interface[p]}
       /\ handles[p] = IF p \in services THEN HandlesOf(p) ELSE <<>>
       /\ p \in services => <<p, gattsIf[p]>> \in tables
  /\ \A i \in Waits :
       /\ events[i].kind = "reg" => /\ events[i].profile \in Profiles
                                    /\ events[i].iface = Interface[events[i].profile]
       /\ events[i].kind = "table" => /\ events[i].of \in Profiles
                                      /\ events[i].iface = Interface[events[i].of]
                                      /\ events[i].iface = gattsIf[events[i].of]
                                      /\ <<events[i].of, events[i].iface>> \in tables

(* Advertising, the link, and the event that brings one or the other: one at a time. *)
Turn(e) == e.kind \in {"advParams", "advData", "disconnect"} \/ (e.kind = "reg" /\ e.profile = "ota")
TurnInv ==
  /\ ~(adv /\ linked)
  /\ \A i \in Waits : Turn(events[i]) => /\ ~adv /\ ~linked
                                         /\ \A j \in Waits : Turn(events[j]) => j = i
                                         /\ events[i].kind # "reg" => gattsIf["ota"] # 0
  /\ adv \/ linked => gattsIf["ota"] # 0

(* A write that is not part of a transfer waits alone. *)
Apart(e) == \/ e.kind = "write" /\ CharOf(e.handle) # "fw"
            \/ Takes(e) /\ ~startOta
Known(e) ==
  /\ e.kind = "write" =>
       /\ "ota" \in services
       /\ CharOf(e.handle) = "fw" => e.value \in PacketRecord
       /\ IsWrite(e, "cmd") /\ e.value = "start" => starts < MaxStarts
  /\ e.kind = "mtu" => e.mtu = 517

ApartInv ==
  \A i \in Waits :
    /\ Known(events[i])
    /\ Apart(events[i]) =>
         /\ i = 1 /\ ~ready
         /\ IF linked THEN Len(events) = 1 ELSE Len(events) = 2 /\ events[2].kind = "disconnect"

PieceInv ==
  /\ \A i \in Waits : Piece(events[i]) => Len(prep) <= 1 /\ startOta
  /\ \A i, j \in Waits : Piece(events[i]) /\ Piece(events[j]) /\ i < j => prep = <<>>
  /\ \A i, j, k \in Waits :
       ~(i < j /\ j < k /\ Piece(events[i]) /\ Piece(events[j]) /\ Piece(events[k]))
  /\ long = 1 => /\ Len(prep) <= 1
                 /\ \A i \in Waits : Piece(events[i]) => prep = <<>>
                 /\ \A i, j \in Waits : Piece(events[i]) /\ Piece(events[j]) => i = j

(* A long write is begun when nothing waits, and ended before anything else is sent. *)
LongInv ==
  /\ long > 0 /\ linked => ready
  /\ \A i \in Waits : Takes(events[i]) \/ events[i].kind = "exec" => long = 0
  /\ \A i, j \in Waits : events[i].kind = "exec" /\ events[j].kind = "exec" => i = j

SessionInv ==
  /\ {curSector, curPacket, sending, next} \subseteq Nat
  /\ \A i \in 1 .. Len(prep) : prep[i] \in PacketRecord
  /\ ready => startOta
  /\ startOta => starts > 0
  /\ starts = 0 => /\ offset = 0 /\ curSector = 0 /\ curPacket = 0 /\ fwBuf = {}
                   /\ delivered = <<>> /\ prep = <<>>
                   /\ sending = 0 /\ next = 0 /\ long = 0
  /\ starts = 1 =>
       delivered = [i \in 1 .. curSector |-> [start |-> 1, data |-> SectorData(i - 1)]]

(* In the first transfer: either nothing of the firmware waits or will come, *)
Quiet ==
  /\ \A i \in Waits : ~Takes(events[i])
  /\ ready => sending >= Sectors \/ next >= Packets(sending)
  /\ linked => long = 0

(* or the packets that wait are the next ones of the sector in hand. *)
Written(p, k) ==
  \E s \in {sending, LastMark} :
    p = [Packet(sending, k) EXCEPT !.sector = s] /\ (s = LastMark => sending = Sectors - 1)
Held(k) ==
  /\ \A i \in Waits : Piece(events[i]) => events[i].value = Packet(sending, k)
  /\ prep # <<>> => prep[1] = Packet(sending, k)

Numbered(num) ==
  /\ num[1] = curPacket /\ num[Len(events) + 1] = next
  /\ \A i, j \in 1 .. Len(events) + 1 : i <= j => num[i] <= num[j]
  /\ \A i \in Waits :
       /\ num[i + 1] = IF Takes(events[i]) THEN num[i] + 1 ELSE num[i]
       /\ Takes(events[i]) /\ events[i].kind = "write" => Written(events[i].value, num[i])
       /\ Takes(events[i]) /\ events[i].kind = "exec" =>
            Held(num[i]) /\ (prep # <<>> \/ \E j \in Waits : j < i /\ Piece(events[j]))

Streams ==
  /\ hasBuf /\ sending < Sectors /\ curSector = sending /\ next <= Packets(sending)
  /\ offset = curPacket * Chunk
  /\ fwBuf = {<<k * Chunk, <<sending, k>>>> : k \in 0 .. curPacket - 1}
  /\ \E num \in [1 .. Len(events) + 1 -> 0 .. next] : Numbered(num)
  /\ long > 0 => /\ next < Packets(sending) /\ Held(next)
                 /\ prep # <<>> \/ \E i \in Waits : Piece(events[i])

FlowInv == starts = 1 /\ startOta => Quiet \/ Streams

BluedroidInv ==
  /\ TypeOK /\ Sequence(events) /\ Sequence(prep)
  /\ StackInv /\ TurnInv /\ ApartInv /\ PieceInv /\ LongInv /\ SessionInv /\ FlowInv
=============================================================================
