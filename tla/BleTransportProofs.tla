------------------------- MODULE BleTransportProofs -------------------------
(***************************************************************************)
(* Proofs about the transport over the sink, for any image, ring, slot and  *)
(* set of worlds.                                                           *)
(***************************************************************************)
EXTENDS BleTransportProps, SequenceTheorems, TLAPS

(* Sectors are sequences of units. *)
LEMMA SectorType ==
  ASSUME starts \in Nat, curSector \in Nat, ~AllSent
  PROVE  SectorOf(curSector) \in Seq(AnyUnit)
<1> DEFINE m == curSector * SectorUnits + 1
           n == IF (curSector + 1) * SectorUnits < ImageUnits THEN (curSector + 1) * SectorUnits ELSE ImageUnits
<1>1. Stream(starts) \in Seq(AnyUnit) /\ Len(Stream(starts)) = ImageUnits
  BY TransportAssumption DEF Stream, Unit, AnyUnit
<1>2. curSector * SectorUnits \in Nat /\ (curSector + 1) * SectorUnits \in Nat
  BY SinkAssumption
<1>3. (curSector + 1) * SectorUnits >= curSector * SectorUnits
  BY SinkAssumption
<1>4. m \in 1 .. (ImageUnits + 1) /\ n \in (m - 1) .. ImageUnits
  BY <1>2, <1>3, TransportAssumption DEF AllSent
<1>5. SubSeq(Stream(starts), m, n) \in Seq(AnyUnit)
  BY <1>1, <1>4, SubSeqProperties
<1> QED
  BY <1>5 DEF SectorOf

(* A sector that is still to be sent is one of the image. *)
LEMMA SectorBound ==
  ASSUME curSector \in Nat, ~AllSent
  PROVE  curSector + 1 \in 0 .. ImageUnits
<1>1. curSector * SectorUnits >= curSector
  BY SinkAssumption
<1>2. curSector * SectorUnits \in Nat
  BY SinkAssumption
<1> QED
  BY <1>1, <1>2, TransportAssumption DEF AllSent

(* The transport starts with no session and both buffers empty. *)
LEMMA InitInv ==
  ASSUME Init
  PROVE  PumpInv
<1>1. world \in World
  BY TransportAssumption DEF Init
<1>2. call \in AnyCall /\ call.op = "idle"
  BY DEF Init, SinkInit, NoCall, AnyCall, Window
<1>3. /\ starts = 0 /\ startOta = FALSE /\ fwLen = 0 /\ curSector = 0 /\ nimble = "idle"
      /\ armed = FALSE /\ blocked = FALSE /\ ring = <<>> /\ held = <<>> /\ pump = "receive"
      /\ pEpoch = 0 /\ pFwLen = 0 /\ pPumped = 0 /\ cfgSize = 0
  BY DEF Init
<1>4. /\ state = "IDLE" /\ live = FALSE /\ handle = 0 /\ written = 0 /\ epoch = 0 /\ nextEpoch = 1
  BY DEF Init, SinkInit
<1>5. world.maxStarts \in Nat /\ ImageUnits \in Nat /\ RingCap \in Nat /\ MaxEpoch \in Nat
  BY <1>1, SinkAssumption, TransportAssumption DEF World
<1>6. TransportTypeOK
  <2>1. Len(ring) + Len(held) <= RingCap
    BY <1>3, <1>5
  <2>2. call.op \in CASE pump = "wrote"     -> {"idle", "write", "account"}
                       [] pump = "finished"  -> {"idle", "end"}
                       [] pump = "activated" -> {"idle", "boot", "close", "restart"}
                       [] OTHER              -> {"idle"}
    BY <1>2, <1>3
  <2>3. /\ starts \in 0 .. world.maxStarts /\ curSector \in 0 .. ImageUnits /\ pEpoch \in 0 .. MaxEpoch
        /\ fwLen \in world.announced \cup {0} /\ pFwLen \in world.announced \cup {0}
    BY <1>3, <1>5
  <2>4. /\ startOta \in BOOLEAN /\ armed \in BOOLEAN /\ blocked \in BOOLEAN
        /\ nimble \in {"idle", "arm", "flush", "invalidate", "disarm"}
    BY <1>3
  <2> QED
    BY <2>1, <2>2, <2>3, <2>4, Zenon DEF TransportTypeOK
<1>7. LocalInv
  <2>1. ring \in Seq(AnyUnit) /\ held \in Seq(AnyUnit)
    BY <1>3
  <2>2. epoch \in 0 .. MaxEpoch /\ nextEpoch \in 1 .. (MaxEpoch + 1)
    BY <1>4, <1>5
  <2> QED
    BY <1>1, <1>2, <1>3, <1>4, <1>6, <2>1, <2>2 DEF LocalInv, PumpPlace, SinkState
<1>8. PlaceInv /\ CountInv /\ (Writing => pEpoch = epoch)
  BY <1>3, <1>4 DEF PlaceInv, CountInv, Writing
<1> QED
  BY <1>7, <1>8 DEF PumpInv

-----------------------------------------------------------------------------
(* Steps of the NimBLE task and the host: all but the invalidation leave the pump
   and the sink alone.                                                           *)
NimbleAlone ==
  /\ UNCHANGED <<sinkVars, pumpVars, world>>
  /\ starts' \in Nat /\ starts' <= world.maxStarts /\ startOta' \in BOOLEAN
  /\ fwLen' \in world.announced \cup {0} /\ curSector' \in 0 .. ImageUnits
  /\ nimble' \in {"idle", "arm", "flush", "invalidate", "disarm"}
  /\ armed' \in BOOLEAN /\ blocked' \in BOOLEAN
  /\ ring' \in Seq(AnyUnit) /\ Len(ring') + Len(held) <= RingCap

(* Each of those steps is of that form: the ring is never given more than it has room for. *)
LEMMA NimbleSteps ==
  ASSUME PumpInv,
         (\E len \in world.announced : StartCmd(len)) \/ StopCmd \/ Disconnect \/ SectorDone
           \/ CbArm \/ CbFlush \/ CbDisarm
  PROVE  NimbleAlone
<1>1. /\ world.maxStarts \in Nat /\ ImageUnits \in Nat /\ RingCap \in Nat
      /\ Len(ring) + Len(held) <= RingCap /\ ring \in Seq(AnyUnit) /\ held \in Seq(AnyUnit)
      /\ starts \in Nat /\ starts <= world.maxStarts
      /\ startOta \in BOOLEAN /\ fwLen \in world.announced \cup {0} /\ curSector \in 0 .. ImageUnits
      /\ nimble \in {"idle", "arm", "flush", "invalidate", "disarm"}
      /\ armed \in BOOLEAN /\ blocked \in BOOLEAN
  BY TransportAssumption DEF World, PumpInv, LocalInv, TransportTypeOK
<1> USE DEF NimbleAlone, component, flags
<1>2. ASSUME NEW len \in world.announced, StartCmd(len)
      PROVE  NimbleAlone
  BY <1>1, <1>2 DEF StartCmd
<1>3. CASE StopCmd
  <2>1. /\ startOta' = FALSE /\ fwLen' = 0 /\ curSector' = 0 /\ nimble' = "disarm"
        /\ UNCHANGED <<sinkVars, pumpVars, world>> /\ UNCHANGED <<starts, armed, blocked, ring>>
    BY <1>3 DEF StopCmd
  <2>2. 0 \in 0 .. ImageUnits /\ fwLen' \in world.announced \cup {0}
    BY <1>1, <2>1
  <2> QED
    BY <1>1, <2>1, <2>2
<1>4. CASE Disconnect
  BY <1>1, <1>4 DEF Disconnect
<1>5. CASE SectorDone
  <2> DEFINE sec == SectorOf(curSector)
  <2>1. curSector \in Nat /\ sec \in Seq(AnyUnit) /\ curSector' \in 0 .. ImageUnits
    BY <1>1, <1>5, SectorType, SectorBound DEF SectorDone
  <2>2. ring' \in Seq(AnyUnit) /\ Len(ring') + Len(held) <= RingCap
    <3>1. CASE ring' = ring
      BY <1>1, <3>1
    <3>2. CASE HasRoom(Len(sec)) /\ ring' = ring \o sec
      <4>1. Len(ring') = Len(ring) + Len(sec) /\ ring' \in Seq(AnyUnit)
        BY <1>1, <2>1, <3>2
      <4> QED
        BY <1>1, <2>1, <3>2, <4>1 DEF HasRoom
    <3> QED
      BY <1>5, <3>1, <3>2 DEF SectorDone, RecvCb
  <2> QED
    BY <1>1, <1>5, <2>1, <2>2 DEF SectorDone
<1>6. CASE CbArm \/ CbDisarm
  BY <1>1, <1>6 DEF CbArm, CbDisarm
<1>7. CASE CbFlush
  <2>1. ring' \in Seq(AnyUnit) /\ Len(ring') <= Len(ring)
    BY <1>1, <1>7 DEF CbFlush
  <2> QED
    BY <1>1, <1>7, <2>1 DEF CbFlush
<1> QED
  BY <1>2, <1>3, <1>4, <1>5, <1>6, <1>7

(* What leaves the pump and the sink alone keeps what they agree on. *)
LEMMA NimbleKeeps ==
  ASSUME PumpInv, NimbleAlone
  PROVE  PumpInv'
<1>1. UNCHANGED <<state, epoch, live, nextEpoch, handle, size, written, call, ret, world,
                  pump, held, pEpoch, pFwLen, pPumped, cfgSize>>
  BY DEF NimbleAlone, sinkVars, sink, pumpVars, session
<1>2. TransportTypeOK'
  BY <1>1 DEF NimbleAlone, PumpInv, LocalInv, TransportTypeOK
<1>3. LocalInv'
  BY <1>1, <1>2 DEF NimbleAlone, PumpInv, LocalInv
<1>4. PlaceInv' /\ CountInv' /\ (Writing => pEpoch = epoch)'
  BY <1>1 DEF PumpInv, PlaceInv, CountInv, Writing, IsCurrent, Accounted, InCall
<1> QED
  BY <1>3, <1>4 DEF PumpInv

(* An invalidation may fall between any two steps of the pump: the session it ends can no
   longer be current, so that nothing is left to agree on.                                *)
LEMMA InvalidateKeeps ==
  ASSUME PumpInv, CbInvalidate
  PROVE  PumpInv'
<1>1. /\ live' = FALSE /\ state' \in SinkState /\ nimble' = "idle"
      /\ UNCHANGED <<epoch, nextEpoch, handle, size, written, call, ret, world, starts, startOta, fwLen,
                     curSector, armed, blocked, ring, pump, held, pEpoch, pFwLen, pPumped, cfgSize>>
  BY DEF CbInvalidate, Invalidate, component, flags, pumpVars, session, SinkState, PumpInv, LocalInv
<1>2. LocalInv'
  BY <1>1 DEF PumpInv, LocalInv, TransportTypeOK
<1>3. PlaceInv' /\ CountInv' /\ (Writing => pEpoch = epoch)'
  BY <1>1 DEF PumpInv, PlaceInv, CountInv, Writing, IsCurrent, InCall
<1> QED
  BY <1>2, <1>3 DEF PumpInv

-----------------------------------------------------------------------------
(* Steps of the pump, which leave the NimBLE side alone but for what it takes from the
   ring, and for the latch.                                                           *)
PumpFrame ==
  /\ UNCHANGED <<component, nimble, armed>>
  /\ blocked' \in BOOLEAN /\ ring' \in Seq(AnyUnit) /\ held' \in Seq(AnyUnit)
  /\ Len(ring') + Len(held') <= Len(ring) + Len(held)

SinkTypes ==
  /\ state \in SinkState /\ live \in BOOLEAN /\ handle \in Nat /\ written \in Nat
  /\ epoch \in 0 .. MaxEpoch /\ nextEpoch \in 1 .. (MaxEpoch + 1)
  /\ call \in AnyCall

SessionTypes ==
  /\ pump \in PumpPlace /\ pEpoch \in 0 .. MaxEpoch /\ pFwLen \in world.announced \cup {0}
  /\ pPumped \in Nat /\ cfgSize \in world.announced \cup {0}

InStep ==
  call.op \in CASE pump = "wrote"     -> {"idle", "write", "account"}
                [] pump = "finished"  -> {"idle", "end"}
                [] pump = "activated" -> {"idle", "boot", "close", "restart"}
                [] OTHER              -> {"idle"}

(* What is left to show of a step of the pump *)
LEMMA PumpStepKeeps ==
  ASSUME PumpInv, PumpFrame, SinkTypes', SessionTypes', InStep',
         PlaceInv', CountInv', (Writing => pEpoch = epoch)'
  PROVE  PumpInv'
<1>1. world' = world
  BY DEF PumpFrame, component
<1>2. Len(ring') + Len(held') <= RingCap
  <2>1. Len(ring) \in Nat /\ Len(held) \in Nat /\ Len(ring') \in Nat /\ Len(held') \in Nat /\ RingCap \in Nat
    BY TransportAssumption DEF PumpInv, LocalInv, PumpFrame
  <2> QED
    BY <2>1 DEF PumpFrame, PumpInv, LocalInv, TransportTypeOK
<1>3. TransportTypeOK'
  BY <1>1, <1>2 DEF PumpInv, LocalInv, TransportTypeOK, PumpFrame, component, SessionTypes, InStep
<1>4. LocalInv'
  BY <1>1, <1>3 DEF PumpInv, LocalInv, PumpFrame, SinkTypes, SessionTypes, component
<1> QED
  BY <1>4 DEF PumpInv

(* What the invariant says of the state in these terms *)
LEMMA InvParts ==
  ASSUME PumpInv
  PROVE  SinkTypes /\ SessionTypes /\ InStep /\ PlaceInv /\ CountInv /\ (Writing => pEpoch = epoch)
BY DEF PumpInv, LocalInv, TransportTypeOK, SinkTypes, SessionTypes, InStep

(* Taking a chunk from the ring moves units from one buffer to the other. *)
LEMMA ReceiveKeeps ==
  ASSUME PumpInv, PumpReceive
  PROVE  PumpInv'
<1>1. PICK n \in 1 .. Len(ring) : held' = SubSeq(ring, 1, n) /\ ring' = SubSeq(ring, n + 1, Len(ring))
  BY DEF PumpReceive
<1>2. ring \in Seq(AnyUnit) /\ Len(ring) \in Nat /\ Len(held) \in Nat
  BY DEF PumpInv, LocalInv
<1>3. held' \in Seq(AnyUnit) /\ Len(held') = n
  BY <1>1, <1>2, SubSeqProperties
<1>4. ring' \in Seq(AnyUnit) /\ Len(ring') = Len(ring) - n
  BY <1>1, <1>2, SubSeqProperties
<1>5. /\ pump = "receive" /\ pump' = "item"
      /\ UNCHANGED <<sinkVars, component, nimble, flags, session, cfgSize>>
  BY DEF PumpReceive, Goto
<1>6. PumpFrame
  BY <1>2, <1>3, <1>4, <1>5 DEF PumpFrame, flags, PumpInv, LocalInv, TransportTypeOK
<1>7. SinkTypes' /\ SessionTypes' /\ InStep'
  BY <1>5, InvParts DEF SinkTypes, SessionTypes, InStep, PumpPlace, session, component, sinkVars, sink
<1>8. PlaceInv' /\ CountInv' /\ (Writing => pEpoch = epoch)'
  BY <1>5, InvParts DEF PlaceInv, CountInv, Writing, IsCurrent, Accounted, InCall, session, sinkVars, sink
<1> QED
  BY <1>6, <1>7, <1>8, PumpStepKeeps

(* The pump's own bookkeeping, between two calls of the sink: the sink and the
   session are as they were, and a chunk is at most given back.                *)
PumpAside ==
  /\ UNCHANGED <<sinkVars, component, nimble, armed, ring, session>>
  /\ blocked' \in BOOLEAN /\ held' \in {held, <<>>}
  /\ cfgSize' \in world.announced \cup {0}
  /\ InCall("idle") /\ pump \in {"receive", "timeout", "item", "block"}
  /\ pump' \in {"receive", "timeout", "open", "block", "write"}
  /\ pump' \in {"open", "block"} => pEpoch = 0
  /\ pump' = "write" => pEpoch # 0

(* Such bookkeeping keeps the invariant. *)
LEMMA AsideKeeps ==
  ASSUME PumpInv, PumpAside
  PROVE  PumpInv'
<1>1. Len(held) \in Nat /\ ring \in Seq(AnyUnit) /\ held \in Seq(AnyUnit) /\ Len(ring) \in Nat
  BY DEF PumpInv, LocalInv
<1>2. held' \in Seq(AnyUnit) /\ Len(held') <= Len(held) /\ Len(held') \in Nat
  <2>1. CASE held' = held
    BY <1>1, <2>1
  <2>2. CASE held' = <<>>
    BY <1>1, <2>2
  <2> QED
    BY <2>1, <2>2 DEF PumpAside
<1>3. PumpFrame
  BY <1>1, <1>2 DEF PumpFrame, PumpAside
<1>4. SinkTypes' /\ SessionTypes' /\ InStep'
  BY InvParts DEF PumpAside, SinkTypes, SessionTypes, InStep, PumpPlace, InCall, session, component, sinkVars, sink
<1>5. PlaceInv' /\ CountInv' /\ (Writing => pEpoch = epoch)'
  BY InvParts
  DEF PumpAside, PlaceInv, CountInv, Writing, IsCurrent, Accounted, InCall, session, sinkVars, sink
<1> QED
  BY <1>3, <1>4, <1>5, PumpStepKeeps

(* The steps of the pump that are such bookkeeping *)
LEMMA Asides ==
  ASSUME PumpInv,
         PumpReceiveTimeout \/ PumpItem \/ PumpDiscard \/ PumpBlock
           \/ (PumpTimeout /\ ~(pEpoch # 0 /\ ~armed))
  PROVE  PumpAside
<1>1. /\ fwLen \in world.announced \cup {0} /\ cfgSize \in world.announced \cup {0} /\ blocked \in BOOLEAN
      /\ pump \in {"receive", "timeout", "item", "block"} => call.op = "idle"
  BY InvParts DEF PumpInv, LocalInv, TransportTypeOK, InStep
<1>2. pump \in {"block"} => pEpoch = 0
  BY InvParts DEF PlaceInv
<1>3. CASE PumpReceiveTimeout
  BY <1>1, <1>3 DEF PumpReceiveTimeout, PumpAside, flags, Goto, InCall
<1>4. CASE PumpItem
  BY <1>1, <1>4 DEF PumpItem, PumpAside, flags, Goto, InCall
<1>5. CASE PumpDiscard
  BY <1>1, <1>5 DEF PumpDiscard, PumpAside, flags, Goto, InCall
<1>6. CASE PumpBlock
  BY <1>1, <1>6 DEF PumpBlock, PumpAside, flags, Goto, InCall
<1>7. CASE PumpTimeout /\ ~(pEpoch # 0 /\ ~armed)
  BY <1>1, <1>7 DEF PumpTimeout, PumpAside, flags, Goto, InCall
<1> QED
  BY <1>3, <1>4, <1>5, <1>6, <1>7

-----------------------------------------------------------------------------
(* Steps of the pump that call the sink: the NimBLE side and the ring are left alone. *)
CallFrame ==
  /\ UNCHANGED <<component, nimble, flags, ring>>
  /\ cfgSize' = cfgSize /\ held' \in {held, <<>>}

LEMMA CallFrames ==
  ASSUME PumpInv, CallFrame
  PROVE  PumpFrame
<1>1. /\ Len(held) \in Nat /\ ring \in Seq(AnyUnit) /\ held \in Seq(AnyUnit) /\ Len(ring) \in Nat
      /\ blocked \in BOOLEAN
  BY DEF PumpInv, LocalInv, TransportTypeOK
<1>2. held' \in Seq(AnyUnit) /\ Len(held') <= Len(held) /\ Len(held') \in Nat
  <2>1. CASE held' = held
    BY <1>1, <2>1
  <2>2. CASE held' = <<>>
    BY <1>1, <2>2
  <2> QED
    BY <2>1, <2>2 DEF CallFrame
<1> QED
  BY <1>1, <1>2 DEF PumpFrame, CallFrame, flags

(* The record of a caller inside no call is well typed. *)
LEMMA IdleTyped == NoCall \in AnyCall /\ NoCall.op = "idle"
<1>1. <<>> \in Seq(AnyUnit)
  BY EmptySeq
<1> QED
  BY <1>1 DEF NoCall, AnyCall, Window

(* A call record made of well-typed parts is well typed. *)
LEMMA CallMade ==
  ASSUME NEW o \in Window, NEW e \in Nat, NEW d \in Seq(AnyUnit), NEW h \in Nat, NEW r \in BOOLEAN
  PROVE  [op |-> o, epoch |-> e, data |-> d, handle |-> h, reboot |-> r] \in AnyCall
BY DEF AnyCall

(* An abort that drops the session leaves nobody writing. *)
LEMMA AbortKeeps ==
  ASSUME PumpInv, Abort(pEpoch), DropSession, CallFrame, pump' = "receive"
  PROVE  PumpInv'
<1>1. PumpFrame /\ world' = world
  BY CallFrames DEF CallFrame, component
<1>2. call' = NoCall /\ UNCHANGED <<epoch, nextEpoch, size, written>>
  BY DEF Abort, Return
<1>3. SinkTypes' /\ ~Writing'
  <2>1. /\ SinkTypes /\ (Writing => pEpoch = epoch) /\ call' \in AnyCall
        /\ 0 \in Nat /\ "IDLE" \in SinkState
    BY <1>2, IdleTyped, InvParts DEF SinkState
  <2>2. CASE ~(live /\ pEpoch = epoch) /\ UNCHANGED <<state, live, handle>>
    <3>1. SinkTypes'
      BY <1>2, <2>1, <2>2 DEF SinkTypes
    <3> QED
      BY <2>1, <2>2, <3>1, Zenon DEF Writing
  <2>3. CASE ToIdle /\ handle' \in {0, handle}
    <3>1. handle' \in Nat
      BY <2>1, <2>3 DEF SinkTypes
    <3> QED
      BY <1>2, <2>1, <2>3, <3>1 DEF SinkTypes, ToIdle, Writing
  <2> QED
    BY <2>2, <2>3 DEF Abort
<1>4. SessionTypes' /\ InStep'
  BY <1>1, <1>2, IdleTyped, InvParts, SinkAssumption DEF SessionTypes, InStep, DropSession, CallFrame, PumpPlace
<1>5. PlaceInv' /\ CountInv' /\ (Writing => pEpoch = epoch)'
  BY <1>2, <1>3 DEF PlaceInv, CountInv, DropSession
<1> QED
  BY <1>1, <1>3, <1>4, <1>5, PumpStepKeeps

(* The timeout of a pump that finds the stream disarmed, and a write that failed. *)
LEMMA AbortsKeep ==
  ASSUME PumpInv, PumpWriteFailed \/ (PumpTimeout /\ pEpoch # 0 /\ ~armed)
  PROVE  PumpInv'
BY AbortKeeps DEF PumpWriteFailed, PumpTimeout, CallFrame, Goto

(* Giving the session up without an abort, once the sink is no longer writing. *)
LEMMA DropKeeps ==
  ASSUME PumpInv, PumpActivated \/ PumpFinished
  PROVE  PumpInv'
<1>1. /\ UNCHANGED <<sinkVars, component, nimble, flags, ring, held, cfgSize>> /\ InCall("idle")
      /\ pump \in {"activated", "finished"}
      /\ \/ pump' = "receive" /\ DropSession
         \/ pump' = "activate" /\ UNCHANGED session
  BY DEF PumpActivated, PumpFinished, Goto
<1>2. PumpFrame
  BY <1>1, CallFrames DEF CallFrame
<1>3. ~Writing /\ pEpoch # 0
  BY <1>1, InvParts DEF PlaceInv
<1>4. SinkTypes' /\ SessionTypes' /\ InStep'
  BY <1>1, InvParts, SinkAssumption
  DEF SinkTypes, SessionTypes, InStep, PumpPlace, DropSession, InCall, session, component, sinkVars, sink
<1>5. PlaceInv' /\ CountInv' /\ (Writing => pEpoch = epoch)'
  BY <1>1, <1>3, InvParts
  DEF PlaceInv, CountInv, Writing, IsCurrent, Accounted, InCall, DropSession, session, sinkVars, sink
<1> QED
  BY <1>2, <1>4, <1>5, PumpStepKeeps

(* A refused open changes nothing of the session it found, but for closing one
   whose abort was pending.                                                    *)
LEMMA RefusedKeeps ==
  ASSUME PumpInv, NEW code, OpenRefused(cfgSize, code) \/ OpenBadArg(cfgSize),
         pump = "open", pump' = "block", UNCHANGED session, held' = held, CallFrame
  PROVE  PumpInv'
<1>1. PumpFrame /\ world' = world
  BY CallFrames DEF CallFrame, component
<1>2. /\ call' = NoCall /\ UNCHANGED <<epoch, live, nextEpoch, size, written>>
      /\ handle' \in {0, handle} /\ state' \in {"IDLE", state}
  BY DEF OpenRefused, OpenBadArg, Return, Pending, sink
<1>3. SinkTypes' /\ (Writing' => Writing)
  BY <1>2, IdleTyped, InvParts DEF SinkTypes, SinkState, Writing
<1>4. SessionTypes' /\ InStep'
  BY <1>1, <1>2, IdleTyped, InvParts DEF SessionTypes, InStep, CallFrame, PumpPlace, session
<1>5. pEpoch = 0 /\ pEpoch' = 0
  BY InvParts DEF PlaceInv, session
<1>6. PlaceInv' /\ CountInv' /\ (Writing => pEpoch = epoch)'
  BY <1>2, <1>3, <1>5, InvParts DEF PlaceInv, CountInv
<1> QED
  BY <1>1, <1>3, <1>4, <1>6, PumpStepKeeps

(* A session that opens is the pump's own, and nothing is counted yet. *)
LEMMA AcceptedKeeps ==
  ASSUME PumpInv, OpenAccepted(cfgSize), pump' = "write",
         pEpoch' = epoch', pFwLen' = cfgSize, pPumped' = 0, held' = held, CallFrame
  PROVE  PumpInv'
<1>1. PumpFrame /\ world' = world
  BY CallFrames DEF CallFrame, component
<1>2. SinkTypes /\ SessionTypes
  BY InvParts
<1>3. /\ call' = NoCall /\ epoch' = nextEpoch /\ nextEpoch' = nextEpoch + 1 /\ nextEpoch <= MaxEpoch
      /\ live' = TRUE /\ state' = "WRITING" /\ written' = 0 /\ size' = cfgSize /\ cfgSize > 0
  BY DEF OpenAccepted, Return, ResetCounters
<1>4. handle' \in Nat
  BY SinkAssumption DEF OpenAccepted
<1>5. nextEpoch \in 1 .. MaxEpoch /\ nextEpoch + 1 \in 1 .. (MaxEpoch + 1)
  BY <1>2, <1>3, SinkAssumption DEF SinkTypes
<1>6. SinkTypes'
  BY <1>2, <1>3, <1>4, <1>5, IdleTyped, SinkAssumption DEF SinkTypes, SinkState
<1>7. SessionTypes' /\ InStep'
  BY <1>1, <1>2, <1>3, <1>5, IdleTyped, SinkAssumption DEF SessionTypes, InStep, CallFrame, PumpPlace
<1>8. PlaceInv' /\ CountInv' /\ (Writing => pEpoch = epoch)'
  BY <1>3, <1>5 DEF PlaceInv, CountInv, Writing, IsCurrent, Accounted
<1> QED
  BY <1>1, <1>6, <1>7, <1>8, PumpStepKeeps

(* An open is one or the other. *)
LEMMA OpenKeeps ==
  ASSUME PumpInv, PumpOpen
  PROVE  PumpInv'
<1>1. CallFrame /\ held' = held /\ pump = "open"
  BY DEF PumpOpen, CallFrame
<1>2. CASE OpenAccepted(cfgSize)
  <2>1. ret' = "OK"
    BY <1>2 DEF OpenAccepted, Return
  <2> QED
    BY <1>1, <1>2, <2>1, AcceptedKeeps DEF PumpOpen, Goto, CapturedLength
<1>3. ASSUME NEW code \in {"BUSY", "PARTITION", "SIZE_INVALID", "BEGIN_FAIL"},
             OpenRefused(cfgSize, code) \/ OpenBadArg(cfgSize)
      PROVE  PumpInv'
  <2>1. ret' # "OK"
    BY <1>3 DEF OpenRefused, OpenBadArg, Return
  <2> QED
    BY <1>1, <1>3, <2>1, RefusedKeeps DEF PumpOpen, Goto
<1> QED
  BY <1>2, <1>3 DEF PumpOpen, Open

(* A call the pump begins carries its own session and the chunk in hand. *)
LEMMA WriteKeeps ==
  ASSUME PumpInv, PumpWrite
  PROVE  PumpInv'
<1>1. /\ pump = "write" /\ pump' = "wrote" /\ held' = held /\ UNCHANGED <<session, sink>>
      /\ CallFrame /\ PumpFrame
  BY CallFrames DEF PumpWrite, CallFrame, WriteEnter, Goto
<1>2. SinkTypes /\ SessionTypes /\ held \in Seq(AnyUnit) /\ PlaceInv /\ CountInv
      /\ (Writing => pEpoch = epoch)
  BY InvParts DEF PumpInv, LocalInv
<1>3. \/ call' = [op |-> "write", epoch |-> pEpoch, data |-> held, handle |-> handle, reboot |-> FALSE]
      \/ call' = NoCall /\ ret' = "STALE"
  BY DEF PumpWrite, WriteEnter, Return
<1>4. call' \in AnyCall /\ call'.op \in {"idle", "write"}
      /\ (call'.op # "idle" => call'.epoch = pEpoch /\ call'.data = held)
      /\ (call'.op = "idle" => ret' = "STALE")
  <2>1. pEpoch \in Nat /\ handle \in Nat
    BY <1>2, SinkAssumption DEF SessionTypes, SinkTypes
  <2>2. "write" \in Window
    BY DEF Window
  <2>3. CASE call' = NoCall /\ ret' = "STALE"
    BY <2>3, IdleTyped
  <2>4. CASE call' = [op |-> "write", epoch |-> pEpoch, data |-> held, handle |-> handle, reboot |-> FALSE]
    <3>1. call' \in AnyCall
      BY <1>2, <2>1, <2>2, <2>4, CallMade
    <3> QED
      BY <2>4, <3>1
  <2> QED
    BY <1>3, <2>3, <2>4
<1>5. SinkTypes'
  BY <1>1, <1>2, <1>4 DEF SinkTypes, sink
<1>6. SessionTypes' /\ InStep'
  BY <1>1, <1>2, <1>4 DEF SessionTypes, InStep, CallFrame, PumpPlace, session, component
<1>7. PlaceInv' /\ CountInv' /\ (Writing => pEpoch = epoch)'
  BY <1>1, <1>2, <1>4 DEF PlaceInv, CountInv, Writing, IsCurrent, Accounted, InCall, session, sink
<1> QED
  BY <1>1, <1>5, <1>6, <1>7, PumpStepKeeps

(* What the sink has counted, the pump counts when the call has returned. *)
LEMMA WroteKeeps ==
  ASSUME PumpInv, PumpWrote
  PROVE  PumpInv'
<1>1. /\ pump = "wrote" /\ InCall("idle") /\ Accounted /\ held' = <<>>
      /\ pPumped' = pPumped + Len(held) /\ UNCHANGED <<sinkVars, pEpoch, pFwLen>> /\ CallFrame /\ PumpFrame
      /\ pump' = (IF AllPumped(pPumped') THEN "finish" ELSE "receive")
  BY CallFrames DEF PumpWrote, CallFrame, Accounted, Goto
<1>2. SinkTypes /\ SessionTypes /\ PlaceInv /\ CountInv /\ (Writing => pEpoch = epoch)
  BY InvParts
<1>3. pEpoch # 0 /\ pPumped < pFwLen /\ pPumped \in Nat /\ pFwLen \in Nat /\ Len(held) \in Nat
  <2>1. world.announced \subseteq Nat
    BY DEF PumpInv, LocalInv, World
  <2> QED
    BY <1>1, <1>2, <2>1 DEF PlaceInv, CountInv, SessionTypes, PumpInv, LocalInv
<1>4. pPumped' \in Nat /\ (pump' = "receive" => pPumped' < pFwLen) /\ pump' \in {"receive", "finish"}
  BY <1>1, <1>3 DEF AllPumped
<1>5. SinkTypes' /\ SessionTypes' /\ InStep'
  BY <1>1, <1>2, <1>4 DEF SinkTypes, SessionTypes, InStep, CallFrame, PumpPlace, InCall, component, sinkVars, sink
<1>6. PlaceInv' /\ CountInv' /\ (Writing => pEpoch = epoch)'
  BY <1>1, <1>2, <1>3, <1>4 DEF PlaceInv, CountInv, Writing, IsCurrent, Accounted, InCall, sinkVars, sink
<1> QED
  BY <1>1, <1>5, <1>6, PumpStepKeeps

(* A finish begins on the session that is being written, or finds it gone. *)
LEMMA FinishKeeps ==
  ASSUME PumpInv, PumpFinish
  PROVE  PumpInv'
<1>1. /\ pump = "finish" /\ pump' = "finished" /\ held' = held /\ CallFrame /\ PumpFrame
      /\ UNCHANGED <<session, state, epoch, live, nextEpoch, size, written>>
  BY CallFrames DEF PumpFinish, CallFrame, FinishEnter, Goto
<1>2. SinkTypes /\ SessionTypes /\ PlaceInv /\ CountInv /\ (Writing => pEpoch = epoch)
      /\ pEpoch \in Nat /\ handle \in Nat /\ <<>> \in Seq(AnyUnit) /\ "end" \in Window
  BY InvParts, EmptySeq, SinkAssumption DEF SessionTypes, SinkTypes, Window
<1>3. \/ /\ call' = [op |-> "end", epoch |-> pEpoch, data |-> <<>>, handle |-> handle, reboot |-> FALSE]
         /\ handle' = 0
      \/ call' = NoCall /\ handle' = handle /\ ~(live /\ pEpoch = epoch /\ state = "WRITING")
  BY DEF PumpFinish, FinishEnter, Return
<1>4. call' \in AnyCall /\ call'.op \in {"idle", "end"} /\ (call'.op = "idle" => ~Writing) /\ handle' \in Nat
  <2>1. CASE call' = NoCall /\ handle' = handle /\ ~(live /\ pEpoch = epoch /\ state = "WRITING")
    BY <1>2, <2>1, IdleTyped DEF Writing
  <2>2. CASE /\ call' = [op |-> "end", epoch |-> pEpoch, data |-> <<>>, handle |-> handle, reboot |-> FALSE]
             /\ handle' = 0
    <3>1. call' \in AnyCall
      BY <1>2, <2>2, CallMade
    <3> QED
      BY <2>2, <3>1
  <2> QED
    BY <1>3, <2>1, <2>2
<1>5. SinkTypes'
  BY <1>1, <1>2, <1>4 DEF SinkTypes
<1>6. SessionTypes' /\ InStep'
  BY <1>1, <1>2, <1>4 DEF SessionTypes, InStep, CallFrame, PumpPlace, session, component
<1>7. PlaceInv' /\ CountInv' /\ (Writing => pEpoch = epoch)'
  BY <1>1, <1>2, <1>4 DEF PlaceInv, CountInv, Writing, IsCurrent, Accounted, InCall, session
<1> QED
  BY <1>1, <1>5, <1>6, <1>7, PumpStepKeeps

(* An activation begins on a session nobody writes any more. *)
LEMMA ActivateKeeps ==
  ASSUME PumpInv, PumpActivate
  PROVE  PumpInv'
<1>1. /\ pump = "activate" /\ pump' = "activated" /\ held' = held /\ CallFrame /\ PumpFrame
      /\ UNCHANGED <<session, epoch, live, nextEpoch, handle, size, written>>
      /\ state' \in {"ACTIVATED", state}
  BY CallFrames DEF PumpActivate, CallFrame, ActivateEnter, Goto
<1>2. SinkTypes /\ SessionTypes /\ PlaceInv /\ CountInv /\ ~Writing /\ pEpoch # 0
      /\ pEpoch \in Nat /\ 0 \in Nat /\ <<>> \in Seq(AnyUnit) /\ "boot" \in Window
  BY <1>1, InvParts, EmptySeq, SinkAssumption DEF SessionTypes, SinkTypes, Window, PlaceInv
<1>3. \/ call' = [op |-> "boot", epoch |-> pEpoch, data |-> <<>>, handle |-> 0, reboot |-> TRUE]
      \/ call' = NoCall
  BY DEF PumpActivate, ActivateEnter, Return
<1>4. call' \in AnyCall /\ call'.op \in {"idle", "boot"}
  <2>1. CASE call' = NoCall
    BY <2>1, IdleTyped
  <2>2. CASE call' = [op |-> "boot", epoch |-> pEpoch, data |-> <<>>, handle |-> 0, reboot |-> TRUE]
    <3>1. call' \in AnyCall
      BY <1>2, <2>2, CallMade
    <3> QED
      BY <2>2, <3>1
  <2> QED
    BY <1>3, <2>1, <2>2
<1>5. SinkTypes' /\ ~Writing'
  BY <1>1, <1>2, <1>4 DEF SinkTypes, SinkState, Writing
<1>6. SessionTypes' /\ InStep'
  BY <1>1, <1>2, <1>4 DEF SessionTypes, InStep, CallFrame, PumpPlace, session, component
<1>7. PlaceInv' /\ CountInv' /\ (Writing => pEpoch = epoch)'
  BY <1>1, <1>2, <1>5 DEF PlaceInv, CountInv, Writing, IsCurrent, Accounted, InCall, session
<1> QED
  BY <1>1, <1>5, <1>6, <1>7, PumpStepKeeps

-----------------------------------------------------------------------------
(* Steps inside a call of the sink: the pump stands still. *)
InsideFrame == UNCHANGED <<component, nimble, flags, ring, pumpVars>>

LEMMA InsideKeeps ==
  ASSUME PumpInv, InsideFrame, SinkTypes', InStep', PlaceInv', CountInv', (Writing => pEpoch = epoch)'
  PROVE  PumpInv'
<1>1. CallFrame /\ UNCHANGED <<pump, session, cfgSize, held, world>>
  BY DEF InsideFrame, CallFrame, pumpVars, component
<1>2. PumpFrame
  BY <1>1, CallFrames
<1>3. SessionTypes'
  BY <1>1, InvParts DEF SessionTypes, session
<1> QED
  BY <1>2, <1>3, PumpStepKeeps

(* Which of the pump's statements a call belongs to *)
LEMMA Inside ==
  ASSUME PumpInv
  PROVE  /\ InCall("write") \/ InCall("account") => pump = "wrote"
         /\ InCall("end") => pump = "finished"
         /\ InCall("boot") \/ InCall("close") => pump = "activated"
BY InvParts DEF InStep, InCall

(* A call that goes on to its next stage keeps its arguments. *)
LEMMA CallGoesOn ==
  ASSUME call \in AnyCall, NEW o \in Window, call' = [call EXCEPT !.op = o]
  PROVE  call' \in AnyCall /\ call'.op = o /\ call'.epoch = call.epoch /\ call'.data = call.data
BY DEF AnyCall

(* A write that the flash took, or that ends without being counted *)
LEMMA UncountedKeeps ==
  ASSUME PumpInv, InsideFrame, WriteFlash \/ WriteStale
  PROVE  PumpInv'
<1>1. /\ pump = "wrote" /\ ~InCall("idle") /\ UNCHANGED <<pump, held, pEpoch, pFwLen, pPumped, world>>
      /\ UNCHANGED <<state, epoch, live, nextEpoch, handle, size, written>>
  BY Inside DEF InsideFrame, pumpVars, session, component, WriteFlash, WriteStale, sink, InCall
<1>2. SinkTypes /\ SessionTypes /\ PlaceInv /\ CountInv /\ (Writing => pEpoch = epoch)
  BY InvParts
<1>3. call' = [call EXCEPT !.op = "account"] \/ (call' = NoCall /\ ret' \in {"WRITE_FAIL", "STALE"})
  BY DEF WriteFlash, WriteStale, Return
<1>4. /\ call' \in AnyCall /\ call'.op \in {"idle", "account"}
      /\ (call'.op # "idle" => call'.epoch = pEpoch /\ call'.data = held)
      /\ (call'.op = "idle" => ret' \in {"WRITE_FAIL", "STALE"})
  <2>1. CASE call' = NoCall /\ ret' \in {"WRITE_FAIL", "STALE"}
    BY <2>1, IdleTyped
  <2>2. CASE call' = [call EXCEPT !.op = "account"]
    <3>1. call' \in AnyCall /\ call'.op = "account" /\ call'.epoch = call.epoch /\ call'.data = call.data
      BY <1>2, <2>2, CallGoesOn DEF SinkTypes, Window
    <3> QED
      BY <1>1, <1>2, <3>1 DEF PlaceInv
  <2> QED
    BY <1>3, <2>1, <2>2
<1>5. SinkTypes' /\ InStep'
  BY <1>1, <1>2, <1>4 DEF SinkTypes, InStep
<1>6. PlaceInv' /\ CountInv' /\ (Writing => pEpoch = epoch)'
  BY <1>1, <1>2, <1>4 DEF PlaceInv, CountInv, Writing, IsCurrent, Accounted, InCall
<1> QED
  BY <1>5, <1>6, InsideKeeps

(* The sink counts what it wrote as the call returns. *)
LEMMA CountedKeeps ==
  ASSUME PumpInv, InsideFrame, WriteAccount
  PROVE  PumpInv'
<1>1. /\ pump = "wrote" /\ call.op = "account" /\ UNCHANGED <<pump, held, pEpoch, pFwLen, pPumped, world>>
      /\ UNCHANGED <<state, epoch, live, nextEpoch, handle, size>>
      /\ call' = NoCall /\ ret' \in {"OK", "NVS"} /\ written' = written + Len(call.data)
  BY Inside DEF InsideFrame, pumpVars, session, component, WriteAccount, Return, InCall
<1>2. SinkTypes /\ SessionTypes /\ PlaceInv /\ CountInv /\ (Writing => pEpoch = epoch)
      /\ held \in Seq(AnyUnit)
  BY InvParts DEF PumpInv, LocalInv
<1>3. call.data = held /\ Len(held) \in Nat /\ ~Accounted /\ Accounted'
  BY <1>1, <1>2, IdleTyped DEF PlaceInv, Accounted, InCall
<1>4. SinkTypes' /\ InStep'
  BY <1>1, <1>2, <1>3, IdleTyped DEF SinkTypes, InStep
<1>5. PlaceInv' /\ (Writing => pEpoch = epoch)'
  BY <1>1, <1>2, IdleTyped DEF PlaceInv, Writing, InCall
<1>6. CountInv'
  <2>1. IsCurrent(pEpoch)' <=> IsCurrent(pEpoch)
    BY <1>1 DEF IsCurrent
  <2>2. pPumped \in Nat /\ written \in Nat
    BY <1>2 DEF SessionTypes, SinkTypes
  <2> QED
    BY <1>1, <1>2, <1>3, <2>1, <2>2 DEF CountInv
<1> QED
  BY <1>4, <1>5, <1>6, InsideKeeps

(* The outcome of esp_ota_end: validated, or closed. *)
LEMMA EndedKeeps ==
  ASSUME PumpInv, InsideFrame, FinishOk \/ FinishFail
  PROVE  PumpInv'
<1>1. /\ pump = "finished" /\ UNCHANGED <<pump, held, pEpoch, pFwLen, pPumped, world>>
      /\ UNCHANGED <<epoch, nextEpoch, handle, size, written>> /\ call' = NoCall
      /\ state' \in {"VALIDATED", "IDLE"} /\ live' \in {FALSE, live}
  BY Inside DEF InsideFrame, pumpVars, session, component, FinishOk, FinishFail, ToIdle, Return, InCall
<1>2. SinkTypes /\ SessionTypes /\ PlaceInv /\ CountInv
  BY InvParts
<1>3. SinkTypes' /\ InStep' /\ ~Writing'
  BY <1>1, <1>2, IdleTyped DEF SinkTypes, SinkState, InStep, Writing
<1>4. PlaceInv' /\ CountInv' /\ (Writing => pEpoch = epoch)'
  BY <1>1, <1>2, <1>3 DEF PlaceInv, CountInv, Writing, IsCurrent
<1> QED
  BY <1>3, <1>4, InsideKeeps

(* The stages of activate *)
LEMMA ActivatingKeeps ==
  ASSUME PumpInv, InsideFrame, SetBootOk \/ SetBootFail \/ ActivateClose
  PROVE  PumpInv'
<1>1. /\ pump = "activated" /\ UNCHANGED <<pump, held, pEpoch, pFwLen, pPumped, world>>
      /\ UNCHANGED <<epoch, nextEpoch, handle, size, written>>
      /\ state' \in {"VALIDATED", state} /\ live' \in {FALSE, live}
      /\ \/ call' = NoCall
         \/ call' = [call EXCEPT !.op = "close"]
         \/ call' = [call EXCEPT !.op = "restart"]
  BY Inside
  DEF InsideFrame, pumpVars, session, component, SetBootOk, SetBootFail, ActivateClose, Return, InCall, sink
<1>2. SinkTypes /\ SessionTypes /\ PlaceInv /\ CountInv /\ ~Writing
  BY <1>1, InvParts DEF PlaceInv
<1>3. call' \in AnyCall /\ call'.op \in {"idle", "close", "restart"}
  <2>1. CASE call' = NoCall
    BY <2>1, IdleTyped
  <2>2. ASSUME NEW o \in {"close", "restart"}, call' = [call EXCEPT !.op = o]
        PROVE  call' \in AnyCall /\ call'.op = o
    BY <1>2, <2>2, CallGoesOn DEF SinkTypes, Window
  <2> QED
    BY <1>1, <2>1, <2>2
<1>4. SinkTypes' /\ InStep' /\ ~Writing'
  <2>1. live' \in BOOLEAN /\ state' \in SinkState
    BY <1>1, <1>2 DEF SinkTypes, SinkState
  <2>2. SinkTypes' /\ InStep'
    BY <1>1, <1>2, <1>3, <2>1 DEF SinkTypes, InStep
  <2>3. CASE live' = FALSE
    BY <2>2, <2>3 DEF Writing
  <2>4. CASE live' = live
    BY <1>1, <1>2, <2>2, <2>4 DEF Writing
  <2> QED
    BY <1>1, <2>3, <2>4
<1>5. PlaceInv' /\ CountInv' /\ (Writing => pEpoch = epoch)'
  BY <1>1, <1>2, <1>4 DEF PlaceInv, CountInv, Writing, IsCurrent
<1> QED
  BY <1>4, <1>5, InsideKeeps

(* The stages of every call of the sink *)
LEMMA InCallKeeps ==
  ASSUME PumpInv, PumpInCall
  PROVE  PumpInv'
BY UncountedKeeps, CountedKeeps, EndedKeeps, ActivatingKeeps DEF PumpInCall, CallStep, InsideFrame

(* A restart loses the RAM of both tasks, and the session with it. *)
LEMMA RebootKeeps ==
  ASSUME PumpInv, Reboot
  PROVE  PumpInv'
<1>1. /\ UNCHANGED <<world, starts>> /\ startOta' = FALSE /\ fwLen' = 0 /\ curSector' = 0
      /\ nimble' = "idle" /\ armed' = FALSE /\ blocked' = FALSE /\ ring' = <<>>
      /\ pump' = "receive" /\ held' = <<>> /\ cfgSize' = 0
      /\ pEpoch' = 0 /\ pFwLen' = 0 /\ pPumped' = 0
  BY DEF Reboot
<1>2. /\ state' = "IDLE" /\ epoch' = 0 /\ live' = FALSE /\ nextEpoch' = 1 /\ handle' = 0
      /\ written' = 0 /\ call' = NoCall
  BY DEF Reboot, Restart
<1>3. /\ world \in World /\ starts \in Nat /\ starts \in 0 .. world.maxStarts
      /\ ImageUnits \in Nat /\ RingCap \in Nat /\ MaxEpoch \in Nat
  BY SinkAssumption, TransportAssumption DEF PumpInv, LocalInv, TransportTypeOK
<1>4. /\ ring' \in Seq(AnyUnit) /\ held' \in Seq(AnyUnit) /\ Len(ring') + Len(held') <= RingCap
      /\ epoch' \in 0 .. MaxEpoch /\ nextEpoch' \in 1 .. (MaxEpoch + 1) /\ state' \in SinkState
      /\ 0 \in 0 .. ImageUnits /\ 0 \in 0 .. MaxEpoch
  BY <1>1, <1>2, <1>3 DEF SinkState
<1>5. call' \in AnyCall /\ InStep'
  BY <1>1, <1>2, IdleTyped DEF InStep
<1>6. TransportTypeOK'
  BY <1>1, <1>3, <1>4, <1>5 DEF TransportTypeOK, InStep
<1>7. LocalInv'
  BY <1>1, <1>2, <1>3, <1>4, <1>5, <1>6 DEF LocalInv, PumpPlace
<1>8. PlaceInv' /\ CountInv' /\ (Writing => pEpoch = epoch)'
  BY <1>1, <1>2 DEF PlaceInv, CountInv, Writing
<1> QED
  BY <1>7, <1>8 DEF PumpInv

-----------------------------------------------------------------------------
(* One case for each step of the two tasks, the host and the power *)
LEMMA StepKeeps == ASSUME PumpInv, [Next]_vars PROVE PumpInv'
<1>1. CASE Host \/ CbArm \/ CbFlush \/ CbDisarm
  BY <1>1, NimbleSteps, NimbleKeeps DEF Host
<1>2. CASE CbInvalidate
  BY <1>2, InvalidateKeeps
<1>3. CASE PumpStep
  <2>1. CASE \/ PumpReceiveTimeout \/ PumpItem \/ PumpDiscard \/ PumpBlock
             \/ (PumpTimeout /\ ~(pEpoch # 0 /\ ~armed))
    BY <2>1, Asides, AsideKeeps
  <2>2. CASE PumpWriteFailed \/ (PumpTimeout /\ pEpoch # 0 /\ ~armed)
    BY <2>2, AbortsKeep
  <2>3. CASE PumpReceive \/ PumpOpen \/ PumpWrite \/ PumpWrote
    BY <2>3, ReceiveKeeps, OpenKeeps, WriteKeeps, WroteKeeps
  <2>4. CASE PumpFinish \/ PumpFinished \/ PumpActivate \/ PumpActivated
    BY <2>4, FinishKeeps, DropKeeps, ActivateKeeps
  <2>5. CASE PumpInCall
    BY <2>5, InCallKeeps
  <2> QED
    BY <1>3, <2>1, <2>2, <2>3, <2>4, <2>5 DEF PumpStep
<1>4. CASE Reboot
  BY <1>4, RebootKeeps
<1>5. CASE UNCHANGED vars
  <2>1. /\ UNCHANGED <<state, epoch, live, nextEpoch, handle, size, written, call, ret>>
        /\ UNCHANGED <<world, starts, startOta, fwLen, curSector, nimble, armed, blocked, ring>>
        /\ UNCHANGED <<pump, held, pEpoch, pFwLen, pPumped, cfgSize>>
    BY <1>5 DEF vars, sinkVars, sink, component, flags, pumpVars, session
  <2>2. TransportTypeOK' <=> TransportTypeOK
    BY <2>1 DEF TransportTypeOK
  <2>3. LocalInv' <=> LocalInv
    BY <2>1, <2>2 DEF LocalInv
  <2>4. PlaceInv' /\ CountInv' /\ (Writing => pEpoch = epoch)'
    BY <2>1 DEF PumpInv, PlaceInv, CountInv, Writing, IsCurrent, Accounted, InCall
  <2> QED
    BY <2>3, <2>4 DEF PumpInv
<1> QED
  BY <1>1, <1>2, <1>3, <1>4, <1>5 DEF Next, NimbleStep

(* The pump and the sink agree, at every point of a write, on how far the session
   is and whose it is: the inductive invariant.                                   *)
THEOREM PumpInvariance == Spec => []PumpInv
<1>1. Init => PumpInv
  BY InitInv
<1>2. PumpInv /\ [Next]_vars => PumpInv'
  BY StepKeeps
<1> QED
  BY <1>1, <1>2, PTL DEF Spec

(* Whatever the host, the flash and the power do, a session that is being written
   is the one the pump remembers, so that the pump can still close it.            *)
THEOREM WriterIsThePump == Spec => []WriterHasPump
<1>1. PumpInv => WriterHasPump
  BY DEF PumpInv, LocalInv, WriterHasPump, Writing
<1> QED
  BY <1>1, PumpInvariance, PTL

(* While the pump waits for data, its count of the session's bytes is the sink's, and
   short of the length the session was opened with: a session is finished by the
   write that completes it, neither sooner nor later.                               *)
THEOREM PumpAndSinkAgree == Spec => []PumpCountsWhatSinkWrote
<1>1. PumpInv => PumpCountsWhatSinkWrote
  BY DEF PumpInv, CountInv, Accounted, LocalInv, PumpCountsWhatSinkWrote
<1> QED
  BY <1>1, PumpInvariance, PTL
=============================================================================
