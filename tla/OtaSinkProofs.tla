--------------------------- MODULE OtaSinkProofs ---------------------------
(***************************************************************************)
(* Proofs about OtaSink under its general client, for every choice of the   *)
(* constants: any slot size, any number of sessions, handles and images.    *)
(* The last part proves that it implements the session service of           *)
(* OtaSession.  The mapping needs IInv: that the accepted units are those in *)
(* the slot, that a dead session's slot is nobody's, and that an image      *)
(* handed to activate was counted whole.                                    *)
(***************************************************************************)
EXTENDS OtaSinkRefinement, SequenceTheorems, TLAPS

(* The steps of Next, one by one, so that a proof by cases has one case for
   each operation of ota_sink.c (Invalidate and Restart included).           *)
Step ==
  \/ \E sz \in Sizes : OpenBadArg(sz)
  \/ \E sz \in Sizes : \E code \in {"BUSY", "PARTITION", "SIZE_INVALID", "BEGIN_FAIL"} :
       OpenRefused(sz, code)
  \/ \E sz \in Sizes : OpenAccepted(sz)
  \/ \E e \in Issued, n \in ChunkLens : WriteEnter(e, Chunk(e, n))
  \/ \E e \in Issued : Abort(e)
  \/ \E e \in Issued : FinishEnter(e)
  \/ \E e \in Issued, reboot \in BOOLEAN : ActivateEnter(e, reboot)
  \/ WriteFlash \/ WriteStale \/ WriteAccount
  \/ FinishOk \/ FinishFail
  \/ SetBootOk \/ SetBootFail \/ ActivateClose
  \/ Invalidate
  \/ Restart

(* Next is exactly the disjunction of those steps. *)
LEMMA NextIsStep == Next <=> Step
BY DEF Next, Step, Open, CallStep

(* Dividing a count of units into sectors never counts a unit too many. *)
LEMMA DivBound ==
  ASSUME NEW a \in Nat, NEW b \in Nat \ {0}
  PROVE  a \div b \in Nat /\ (a \div b) * b <= a
<1>1. a \div b \in Nat
  BY SMT
<1>2. a = (b * (a \div b)) + (a % b) /\ a % b \in 0 .. (b - 1)
  BY SMT
<1> QED
  BY <1>1, <1>2, SMT

(* A chunk is a non-empty sequence made of the epoch's own units. *)
LEMMA ChunkIsData ==
  ASSUME NEW e \in Issued, NEW n \in ChunkLens, nextEpoch \in 1 .. (MaxEpoch + 1)
  PROVE  /\ Chunk(e, n) \in Seq(Data)
         /\ Chunk(e, n) # <<>>
         /\ \A i \in DOMAIN Chunk(e, n) : Chunk(e, n)[i] = e
<1>1. n \in Nat \ {0} /\ e \in Data
  BY ClientAssumption, SinkAssumption DEF Issued, Epoch
<1>2. Chunk(e, n) \in Seq(Data)
  BY <1>1, IsASeq DEF Chunk
<1>3. DOMAIN Chunk(e, n) = 1 .. n
  BY DEF Chunk
<1> QED
  BY <1>1, <1>2, <1>3 DEF Chunk

-----------------------------------------------------------------------------
(* Type correctness *)

(* A call record made of well-typed parts is well typed... *)
LEMMA CallTyped ==
  ASSUME NEW o \in Window, NEW e \in 0 .. MaxEpoch, NEW d \in Seq(Data),
         NEW h \in Handle \cup {0}, NEW r \in BOOLEAN
  PROVE  [op |-> o, epoch |-> e, data |-> d, handle |-> h, reboot |-> r] \in CallRecord
BY DEF CallRecord

(* ... and so is that of a caller inside no call. *)
LEMMA IdleCall == NoCall \in CallRecord
<1>1. <<>> \in Seq(Data)
  BY EmptySeq
<1> QED
  BY <1>1, SinkAssumption DEF NoCall, CallRecord, Window

(* The device leaves the factory with every variable well typed. *)
LEMMA TypeInit == SinkInit => TypeOK
<1> SUFFICES ASSUME SinkInit PROVE TypeOK
  OBVIOUS
<1>1. <<>> \in Seq(Data) /\ FactoryImage \in Seq(Data)
  BY EmptySeq, SinkAssumption
<1>2. slots \in [Slot -> Seq(Data)]
  BY <1>1 DEF SinkInit
<1>3. ops \in [Handle -> 0 .. MaxEpoch]
  BY SinkAssumption DEF SinkInit, Closed
<1>4. call \in CallRecord /\ ret \in Code
  BY IdleCall DEF SinkInit, Code
<1>5. boot \in Slot /\ running \in Slot /\ nvs \in [size : Nat, sector : Nat]
  BY DEF SinkInit, Slot, NoProgress
<1>6. /\ epoch \in 0 .. MaxEpoch /\ nextEpoch \in 1 .. (MaxEpoch + 1)
      /\ size \in 0 .. SlotSize /\ written \in Nat /\ sectors \in Nat
  BY SinkAssumption DEF SinkInit
<1> QED
  BY <1>2, <1>3, <1>4, <1>5, <1>6 DEF SinkInit, TypeOK, SinkState

(* Closing a handle keeps the handle table well typed; the slot being written
   is one of the two.                                                         *)
LEMMA HelperTypes ==
  ASSUME TypeOK
  PROVE  /\ \A h : CloseHandle(h) \in [Handle -> 0 .. MaxEpoch]
         /\ OpsAfterPending \in [Handle -> 0 .. MaxEpoch]
         /\ Target \in Slot /\ Target # running
<1>0. ops \in [Handle -> 0 .. MaxEpoch] /\ 0 \in 0 .. MaxEpoch
  BY SinkAssumption DEF TypeOK
<1>1. \A h : CloseHandle(h) \in [Handle -> 0 .. MaxEpoch]
  BY <1>0 DEF CloseHandle, Closed
<1> QED
  BY <1>1 DEF OpsAfterPending, Target, OtherSlot, Slot, TypeOK

(* Every step keeps the variables well typed. *)
LEMMA TypeStep == TypeOK /\ [Next]_sinkVars => TypeOK'
<1> SUFFICES ASSUME TypeOK, [Next]_sinkVars PROVE TypeOK'
  OBVIOUS
<1>a. CASE UNCHANGED sinkVars
  BY <1>a DEF sinkVars, sink, flash, TypeOK
<1>1. ASSUME NEW sz \in Sizes, OpenBadArg(sz) PROVE TypeOK'
  BY <1>1, IdleCall DEF OpenBadArg, Return, Code, sink, flash, TypeOK
<1>2. ASSUME NEW sz \in Sizes, NEW code \in {"BUSY", "PARTITION", "SIZE_INVALID", "BEGIN_FAIL"},
             OpenRefused(sz, code)
      PROVE TypeOK'
  <2>1. <<>> \in Seq(Data)
    BY EmptySeq
  <2>2. slots' \in [Slot -> Seq(Data)]
    BY <1>2, <2>1, HelperTypes DEF OpenRefused, TypeOK
  <2>3. state' \in SinkState /\ handle' \in Handle \cup {0}
    BY <1>2 DEF OpenRefused, SinkState, TypeOK
  <2>4. call' \in CallRecord /\ ret' \in Code
    BY <1>2, IdleCall DEF OpenRefused, Return, Code
  <2>5. ops' \in [Handle -> 0 .. MaxEpoch]
    BY <1>2, HelperTypes DEF OpenRefused
  <2> QED
    BY <1>2, <2>2, <2>3, <2>4, <2>5 DEF OpenRefused, TypeOK
<1>3. ASSUME NEW sz \in Sizes, OpenAccepted(sz) PROVE TypeOK'
  <2>1. <<>> \in Seq(Data)
    BY EmptySeq
  <2>2. slots' \in [Slot -> Seq(Data)]
    BY <1>3, <2>1, HelperTypes DEF OpenAccepted, TypeOK
  <2>3. nextEpoch \in 1 .. MaxEpoch
    BY <1>3, SinkAssumption DEF OpenAccepted, TypeOK
  <2>4. ops' \in [Handle -> 0 .. MaxEpoch] /\ handle' \in Handle
    BY <1>3, <2>3, HelperTypes DEF OpenAccepted
  <2>5. epoch' \in 0 .. MaxEpoch /\ nextEpoch' \in 1 .. (MaxEpoch + 1)
    BY <1>3, <2>3, SinkAssumption DEF OpenAccepted
  <2>6. size' \in 0 .. SlotSize
    BY <1>3, SinkAssumption, ClientAssumption DEF OpenAccepted, Fits
  <2>7. call' \in CallRecord /\ ret' \in Code
    BY <1>3, IdleCall DEF OpenAccepted, Return, Code
  <2> QED
    BY <1>3, <2>2, <2>4, <2>5, <2>6, <2>7
       DEF OpenAccepted, ResetCounters, SinkState, TypeOK
<1>4. ASSUME NEW e \in Issued, NEW n \in ChunkLens, WriteEnter(e, Chunk(e, n)) PROVE TypeOK'
  <2>1. Chunk(e, n) \in Seq(Data) /\ e \in 0 .. MaxEpoch
    BY ChunkIsData, SinkAssumption DEF TypeOK, Issued
  <2>0. [op |-> "write", epoch |-> e, data |-> Chunk(e, n), handle |-> handle,
         reboot |-> FALSE] \in CallRecord
    BY <2>1, CallTyped DEF TypeOK, Window
  <2>2. call' \in CallRecord /\ ret' \in Code
    BY <1>4, <2>0, <2>1, IdleCall DEF WriteEnter, Return, Code, TypeOK
  <2> QED
    BY <1>4, <2>2 DEF WriteEnter, sink, flash, TypeOK
<1>5. ASSUME NEW e \in Issued, Abort(e) PROVE TypeOK'
  BY <1>5, HelperTypes, IdleCall DEF Abort, ToIdle, Return, Code, SinkState, TypeOK
<1>6. ASSUME NEW e \in Issued, FinishEnter(e) PROVE TypeOK'
  <2>1. <<>> \in Seq(Data) /\ e \in 0 .. MaxEpoch
    BY EmptySeq, SinkAssumption DEF TypeOK, Issued
  <2>0. [op |-> "end", epoch |-> e, data |-> <<>>, handle |-> handle,
         reboot |-> FALSE] \in CallRecord
    BY <2>1, CallTyped DEF TypeOK, Window
  <2>2. call' \in CallRecord /\ ret' \in Code /\ handle' \in Handle \cup {0}
    BY <1>6, <2>0, IdleCall DEF FinishEnter, Return, Code, TypeOK
  <2> QED
    BY <1>6, <2>2 DEF FinishEnter, flash, TypeOK
<1>7. ASSUME NEW e \in Issued, NEW reboot \in BOOLEAN, ActivateEnter(e, reboot) PROVE TypeOK'
  <2>1. <<>> \in Seq(Data) /\ e \in 0 .. MaxEpoch
    BY EmptySeq, SinkAssumption DEF TypeOK, Issued
  <2>0. [op |-> "boot", epoch |-> e, data |-> <<>>, handle |-> 0,
         reboot |-> reboot] \in CallRecord
    BY <2>1, CallTyped DEF Window
  <2>2. call' \in CallRecord /\ ret' \in Code /\ state' \in SinkState
    BY <1>7, <2>0, IdleCall DEF ActivateEnter, Return, Code, SinkState, TypeOK
  <2> QED
    BY <1>7, <2>2 DEF ActivateEnter, flash, TypeOK
<1>8. ASSUME WriteFlash PROVE TypeOK'
  <2>1. slots[Target] \o call.data \in Seq(Data)
    BY HelperTypes, ConcatProperties DEF TypeOK, CallRecord
  <2>2. slots' \in [Slot -> Seq(Data)]
    BY <1>8, <2>1 DEF WriteFlash, TypeOK
  <2>3. call' \in CallRecord /\ ret' \in Code
    BY <1>8, IdleCall DEF WriteFlash, Return, Code, CallRecord, Window, TypeOK
  <2> QED
    BY <1>8, <2>2, <2>3 DEF WriteFlash, sink, TypeOK
<1>9. ASSUME WriteStale PROVE TypeOK'
  BY <1>9, IdleCall DEF WriteStale, Return, Code, sink, flash, TypeOK
<1>10. ASSUME WriteAccount PROVE TypeOK'
  <2>1. Len(call.data) \in Nat
    BY LenProperties DEF TypeOK, CallRecord
  <2>2. written' \in Nat
    BY <1>10, <2>1 DEF WriteAccount, TypeOK
  <2>3. sectors' \in Nat
    BY <1>10, <2>2, DivBound, SinkAssumption DEF WriteAccount
  <2>4. PICK saved \in sectors .. sectors', allSaved \in BOOLEAN :
          SaveProgress(saved) /\ Return(IF allSaved THEN "OK" ELSE "NVS")
    BY <1>10 DEF WriteAccount
  <2>5. saved \in Nat
    BY <2>3, <2>4 DEF TypeOK
  <2>6. nvs' \in [size : Nat, sector : Nat]
    BY <2>4, <2>5, SinkAssumption DEF SaveProgress, TypeOK
  <2>6a. dirty' \in BOOLEAN
    <3>1. (saved < sectors') \in BOOLEAN
      BY <2>3, <2>5
    <3> QED
      BY <2>4, <3>1, Zenon DEF SaveProgress, TypeOK
  <2>7. call' \in CallRecord /\ ret' \in Code
    BY <2>4, IdleCall DEF Return, Code
  <2> QED
    BY <1>10, <2>2, <2>3, <2>6, <2>6a, <2>7 DEF WriteAccount, TypeOK
<1>11. ASSUME FinishOk PROVE TypeOK'
  BY <1>11, HelperTypes, IdleCall DEF FinishOk, Return, Code, SinkState, TypeOK
<1>12. ASSUME FinishFail PROVE TypeOK'
  BY <1>12, HelperTypes, IdleCall DEF FinishFail, ToIdle, Return, Code, SinkState, TypeOK
<1>13. ASSUME SetBootOk PROVE TypeOK'
  <2>1. call' \in CallRecord
    BY <1>13 DEF SetBootOk, CallRecord, Window, TypeOK
  <2> QED
    BY <1>13, <2>1, HelperTypes DEF SetBootOk, sink, TypeOK
<1>14. ASSUME SetBootFail PROVE TypeOK'
  BY <1>14, IdleCall DEF SetBootFail, Return, Code, SinkState, flash, TypeOK
<1>15. ASSUME ActivateClose PROVE TypeOK'
  <2>1. call' \in CallRecord /\ ret' \in Code
    <3>1. call \in CallRecord /\ ret \in Code
      BY DEF TypeOK
    <3>2. CASE call.reboot
      <4>1. call' = [call EXCEPT !.op = "restart"] /\ ret' = ret
        BY <1>15, <3>2 DEF ActivateClose
      <4>2. [call EXCEPT !.op = "restart"] \in CallRecord
        BY <3>1 DEF CallRecord, Window
      <4> QED
        BY <3>1, <4>1, <4>2
    <3>3. CASE ~call.reboot
      <4>1. call' = NoCall /\ ret' = "OK"
        BY <1>15, <3>3 DEF ActivateClose, Return
      <4> QED
        BY <4>1, IdleCall DEF Code
    <3> QED
      BY <3>2, <3>3
  <2>2. nvs' \in [size : Nat, sector : Nat]
    BY <1>15 DEF ActivateClose, NoProgress, TypeOK
  <2> QED
    BY <1>15, <2>1, <2>2 DEF ActivateClose, TypeOK
<1>16. ASSUME Invalidate PROVE TypeOK'
  BY <1>16 DEF Invalidate, flash, SinkState, TypeOK
<1>17. ASSUME Restart PROVE TypeOK'
  <2>1. ops' \in [Handle -> 0 .. MaxEpoch]
    BY <1>17, SinkAssumption DEF Restart, Closed
  <2>2. call' \in CallRecord /\ ret' \in Code /\ state' \in SinkState
    BY <1>17, IdleCall DEF Restart, Code, SinkState
  <2>3. /\ epoch' \in 0 .. MaxEpoch /\ nextEpoch' \in 1 .. (MaxEpoch + 1)
        /\ size' \in 0 .. SlotSize /\ written' \in Nat /\ sectors' \in Nat
    BY <1>17, SinkAssumption DEF Restart
  <2> QED
    BY <1>17, <2>1, <2>2, <2>3 DEF Restart, TypeOK
<1> QED
  BY <1>a, <1>1, <1>2, <1>3, <1>4, <1>5, <1>6, <1>7, <1>8, <1>9, <1>10, <1>11,
     <1>12, <1>13, <1>14, <1>15, <1>16, <1>17, NextIsStep DEF Step

(* The sink's variables always have their types, and a session's size never
   exceeds the slot, whatever the callers do.                                *)
THEOREM TypeCorrect == Spec => []TypeOK
<1> QED
  BY TypeInit, TypeStep, PTL DEF Spec

-----------------------------------------------------------------------------
(* The inductive invariant *)

(* Every step keeps the session's state, epoch and liveness in agreement. *)
LEMMA SessionStep == IInv /\ [Next]_sinkVars => SessionInv'
<1> SUFFICES ASSUME IInv, [Next]_sinkVars PROVE SessionInv'
  OBVIOUS
<1> USE DEF SessionInv, Holding
<1>t. /\ epoch \in Nat /\ nextEpoch \in Nat /\ nextEpoch >= 1 /\ SessionInv
      /\ (InCall("end") => Holding)
      /\ (InCall("boot") \/ InCall("close") => state = "ACTIVATED")
  BY SinkAssumption DEF IInv, TypeOK, CallInv, InCall
<1>a. CASE UNCHANGED sinkVars
  BY <1>a, <1>t DEF sinkVars, sink
<1>1. ASSUME NEW sz \in Sizes, OpenBadArg(sz) PROVE SessionInv'
  BY <1>1, <1>t DEF OpenBadArg, sink
<1>2. ASSUME NEW sz \in Sizes, NEW code \in {"BUSY", "PARTITION", "SIZE_INVALID", "BEGIN_FAIL"},
             OpenRefused(sz, code)
      PROVE SessionInv'
  BY <1>2, <1>t DEF OpenRefused, Pending
<1>3. ASSUME NEW sz \in Sizes, OpenAccepted(sz) PROVE SessionInv'
  BY <1>3, <1>t DEF OpenAccepted
<1>4. ASSUME NEW e \in Issued, NEW n \in ChunkLens, WriteEnter(e, Chunk(e, n)) PROVE SessionInv'
  BY <1>4, <1>t DEF WriteEnter, sink
<1>5. ASSUME NEW e \in Issued, Abort(e) PROVE SessionInv'
  BY <1>5, <1>t DEF Abort, ToIdle
<1>6. ASSUME NEW e \in Issued, FinishEnter(e) PROVE SessionInv'
  BY <1>6, <1>t DEF FinishEnter
<1>7. ASSUME NEW e \in Issued, NEW reboot \in BOOLEAN, ActivateEnter(e, reboot) PROVE SessionInv'
  BY <1>7, <1>t DEF ActivateEnter, Activatable
<1>8. ASSUME WriteFlash PROVE SessionInv'
  BY <1>8, <1>t DEF WriteFlash, sink
<1>9. ASSUME WriteStale PROVE SessionInv'
  BY <1>9, <1>t DEF WriteStale, sink
<1>10. ASSUME WriteAccount PROVE SessionInv'
  BY <1>10, <1>t DEF WriteAccount
<1>11. ASSUME FinishOk PROVE SessionInv'
  BY <1>11, <1>t DEF FinishOk
<1>12. ASSUME FinishFail PROVE SessionInv'
  BY <1>12, <1>t DEF FinishFail, ToIdle
<1>13. ASSUME SetBootOk PROVE SessionInv'
  BY <1>13, <1>t DEF SetBootOk, sink
<1>14. ASSUME SetBootFail PROVE SessionInv'
  BY <1>14, <1>t DEF SetBootFail
<1>15. ASSUME ActivateClose PROVE SessionInv'
  BY <1>15, <1>t DEF ActivateClose
<1>16. ASSUME Invalidate PROVE SessionInv'
  BY <1>16, <1>t DEF Invalidate
<1>17. ASSUME Restart PROVE SessionInv'
  BY <1>17, <1>t DEF Restart
<1> QED
  BY <1>a, <1>1, <1>2, <1>3, <1>4, <1>5, <1>6, <1>7, <1>8, <1>9, <1>10, <1>11,
     <1>12, <1>13, <1>14, <1>15, <1>16, <1>17, NextIsStep DEF Step

(* Outside of finish, when the session holds no handle none is open. *)
LEMMA AllClosed ==
  ASSUME IInv, ~Holding, ~InCall("end")
  PROVE  handle = 0 /\ \A h \in Handle : ops[h] = Closed
BY SinkAssumption DEF IInv, HandleInv, NoHandleLeak

(* Every step leaves each open handle with exactly one holder. *)
LEMMA HandleStep == IInv /\ [Next]_sinkVars => HandleInv'
<1> SUFFICES ASSUME IInv, [Next]_sinkVars PROVE HandleInv'
  OBVIOUS
<1> USE DEF HandleInv, NoHandleLeak, Holding, InCall
<1>t. /\ ops \in [Handle -> 0 .. MaxEpoch] /\ handle \in Handle \cup {0}
      /\ Handle \subseteq Nat \ {0} /\ epoch \in Nat /\ nextEpoch \in Nat
      /\ HandleInv /\ SessionInv
  BY SinkAssumption DEF IInv, TypeOK
<1>c. /\ call.op \in {"write", "account"} =>
           Holding /\ call.handle = handle /\ call.epoch = epoch
      /\ call.op = "end" =>
           Holding /\ call.epoch = epoch /\ call.handle \in Handle /\ ops[call.handle] = epoch
      /\ call.op \in {"boot", "close", "restart"} => state = "ACTIVATED"
  BY DEF IInv, TypeOK, CallInv, CallRecord
<1>a. CASE UNCHANGED sinkVars
  BY <1>a, <1>t DEF sinkVars, sink, flash
<1>1. ASSUME NEW sz \in Sizes, OpenBadArg(sz) PROVE HandleInv'
  BY <1>1, <1>t DEF OpenBadArg, sink, flash, Return, NoCall
<1>2. ASSUME NEW sz \in Sizes, NEW code \in {"BUSY", "PARTITION", "SIZE_INVALID", "BEGIN_FAIL"},
             OpenRefused(sz, code)
      PROVE HandleInv'
  <2>1. /\ call'.op = "idle" /\ epoch' = epoch
        /\ state' = IF Pending THEN "IDLE" ELSE state
        /\ handle' = IF Pending \/ code = "BEGIN_FAIL" THEN 0 ELSE handle
        /\ ops' = IF Pending /\ handle # 0 THEN CloseHandle(handle) ELSE ops
        /\ code = "BEGIN_FAIL" => ~live
        /\ call.op = "idle"
    BY <1>2 DEF OpenRefused, Return, NoCall, OpsAfterPending
  <2>2. CASE Pending
    BY <2>1, <2>2, <1>t DEF Pending, CloseHandle, Closed
  <2>3. CASE ~Pending
    <3>1. code = "BEGIN_FAIL" => handle = 0
      BY <2>1, <2>3, <1>t DEF SessionInv, Pending
    <3> QED
      BY <2>1, <2>3, <3>1, <1>t
  <2> QED
    BY <2>2, <2>3
<1>3. ASSUME NEW sz \in Sizes, OpenAccepted(sz) PROVE HandleInv'
  <2>1. \A h \in Handle : OpsAfterPending[h] = Closed
    <3>1. CASE Pending
      BY <1>3, <3>1, <1>t DEF OpenAccepted, OpsAfterPending, Pending, CloseHandle, Closed
    <3>2. CASE ~Pending
      BY <1>3, <3>2, <1>t DEF OpenAccepted, OpsAfterPending, Pending, SessionInv, Closed
    <3> QED
      BY <3>1, <3>2
  <2>2. PICK h \in Handle : ops' = [OpsAfterPending EXCEPT ![h] = nextEpoch] /\ handle' = h
    BY <1>3 DEF OpenAccepted
  <2>3. OpsAfterPending \in [Handle -> 0 .. MaxEpoch]
    BY HelperTypes DEF IInv
  <2>4. ops'[h] = nextEpoch /\ \A k \in Handle \ {h} : ops'[k] = Closed
    BY <2>1, <2>2, <2>3
  <2> QED
    BY <1>3, <2>2, <2>4, <1>t DEF OpenAccepted, Return, NoCall, Closed
<1>4. ASSUME NEW e \in Issued, NEW n \in ChunkLens, WriteEnter(e, Chunk(e, n)) PROVE HandleInv'
  <2>1. call.op = "idle" /\ call'.op \in {"idle", "write"}
    BY <1>4 DEF WriteEnter, Return, NoCall
  <2> QED
    BY <1>4, <2>1, <1>t DEF WriteEnter, sink, flash
<1>5. ASSUME NEW e \in Issued, Abort(e) PROVE HandleInv'
  <2>1. call.op = "idle" /\ call'.op = "idle"
    BY <1>5 DEF Abort, Return, NoCall
  <2>2. CASE live /\ e = epoch
    BY <1>5, <2>1, <2>2, <1>t DEF Abort, ToIdle, CloseHandle, Closed, SessionInv
  <2>3. CASE ~(live /\ e = epoch)
    BY <1>5, <2>1, <2>3, <1>t DEF Abort
  <2> QED
    BY <2>2, <2>3
<1>6. ASSUME NEW e \in Issued, FinishEnter(e) PROVE HandleInv'
  <2>1. CASE live /\ e = epoch /\ state = "WRITING"
    BY <1>6, <2>1, <1>t DEF FinishEnter, flash
  <2>2. CASE ~(live /\ e = epoch /\ state = "WRITING")
    BY <1>6, <2>2, <1>t DEF FinishEnter, Return, NoCall, flash
  <2> QED
    BY <2>1, <2>2
<1>7. ASSUME NEW e \in Issued, NEW reboot \in BOOLEAN, ActivateEnter(e, reboot) PROVE HandleInv'
  <2>1. call.op = "idle" /\ call'.op \in {"idle", "boot"}
    BY <1>7 DEF ActivateEnter, Return, NoCall
  <2> QED
    BY <1>7, <2>1, <1>t DEF ActivateEnter, Activatable, flash
<1>8. ASSUME WriteFlash PROVE HandleInv'
  <2>1. call.op = "write" /\ call'.op \in {"idle", "account"}
    BY <1>8 DEF WriteFlash, Return, NoCall, IInv, TypeOK, CallRecord
  <2> QED
    BY <1>8, <2>1, <1>t DEF WriteFlash, sink
<1>9. ASSUME WriteStale PROVE HandleInv'
  BY <1>9, <1>t DEF WriteStale, Return, NoCall, sink, flash
<1>10. ASSUME WriteAccount PROVE HandleInv'
  <2>1. call.op = "account" /\ call'.op = "idle"
    BY <1>10 DEF WriteAccount, Return, NoCall
  <2> QED
    BY <1>10, <2>1, <1>t DEF WriteAccount
<1>11. ASSUME FinishOk PROVE HandleInv'
  BY <1>11, <1>t, <1>c DEF FinishOk, CloseHandle, Closed, Return, NoCall
<1>12. ASSUME FinishFail PROVE HandleInv'
  BY <1>12, <1>t, <1>c DEF FinishFail, ToIdle, CloseHandle, Closed, Return, NoCall
<1>13. ASSUME SetBootOk PROVE HandleInv'
  <2>1. call.op = "boot" /\ call'.op = "close"
    BY <1>13 DEF SetBootOk, IInv, TypeOK, CallRecord
  <2> QED
    BY <1>13, <2>1, <1>t DEF SetBootOk, sink
<1>14. ASSUME SetBootFail PROVE HandleInv'
  <2>1. call.op = "boot" /\ call'.op = "idle"
    BY <1>14 DEF SetBootFail, Return, NoCall
  <2> QED
    BY <1>14, <2>1, <1>t, <1>c DEF SetBootFail, flash
<1>15. ASSUME ActivateClose PROVE HandleInv'
  <2>1. call.op = "close" /\ call'.op \in {"idle", "restart"}
    BY <1>15 DEF ActivateClose, Return, NoCall, IInv, TypeOK, CallRecord
  <2> QED
    BY <1>15, <2>1, <1>t DEF ActivateClose
<1>16. ASSUME Invalidate PROVE HandleInv'
  BY <1>16, <1>t DEF Invalidate, flash
<1>17. ASSUME Restart PROVE HandleInv'
  BY <1>17, <1>t DEF Restart, NoCall, Closed
<1> QED
  BY <1>a, <1>1, <1>2, <1>3, <1>4, <1>5, <1>6, <1>7, <1>8, <1>9, <1>10, <1>11,
     <1>12, <1>13, <1>14, <1>15, <1>16, <1>17, NextIsStep DEF Step

(* Every step keeps the record of the call in progress true of the session. *)
LEMMA CallStepInv == IInv /\ [Next]_sinkVars => CallInv'
<1> SUFFICES ASSUME IInv, [Next]_sinkVars PROVE CallInv'
  OBVIOUS
<1> USE DEF CallInv, Holding, InCall
<1>t. /\ ops \in [Handle -> 0 .. MaxEpoch] /\ handle \in Handle \cup {0}
      /\ CallInv /\ HandleInv /\ SessionInv /\ call \in CallRecord
      /\ nextEpoch \in 1 .. (MaxEpoch + 1)
  BY DEF IInv, TypeOK
<1>i. NoCall.op = "idle"
  BY DEF NoCall
<1>a. CASE UNCHANGED sinkVars
  BY <1>a, <1>t DEF sinkVars, sink, flash
<1>1. ASSUME NEW sz \in Sizes, OpenBadArg(sz) PROVE CallInv'
  BY <1>1, <1>i DEF OpenBadArg, Return
<1>2. ASSUME NEW sz \in Sizes, NEW code \in {"BUSY", "PARTITION", "SIZE_INVALID", "BEGIN_FAIL"},
             OpenRefused(sz, code)
      PROVE CallInv'
  BY <1>2, <1>i DEF OpenRefused, Return
<1>3. ASSUME NEW sz \in Sizes, OpenAccepted(sz) PROVE CallInv'
  BY <1>3, <1>i DEF OpenAccepted, Return
<1>4. ASSUME NEW e \in Issued, NEW n \in ChunkLens, WriteEnter(e, Chunk(e, n)) PROVE CallInv'
  <2>1. CASE IsCurrent(e)
    <3>0. Chunk(e, n) # <<>>
      BY <1>4 DEF WriteEnter
    <3>1. /\ call' = [op |-> "write", epoch |-> e, data |-> Chunk(e, n),
                      handle |-> handle, reboot |-> FALSE]
          /\ UNCHANGED sink
      BY <1>4, <2>1 DEF WriteEnter
    <3>2. /\ call'.op = "write" /\ call'.epoch = e /\ call'.data = Chunk(e, n)
          /\ call'.handle = handle
      BY <3>1
    <3>3. \A i \in DOMAIN Chunk(e, n) : Chunk(e, n)[i] = e
      BY <1>t, ChunkIsData
    <3> QED
      BY <2>1, <3>0, <3>1, <3>2, <3>3 DEF IsCurrent, sink
  <2>2. CASE ~IsCurrent(e)
    BY <1>4, <2>2, <1>i DEF WriteEnter, Return
  <2> QED
    BY <2>1, <2>2
<1>5. ASSUME NEW e \in Issued, Abort(e) PROVE CallInv'
  BY <1>5, <1>i DEF Abort, Return
<1>6. ASSUME NEW e \in Issued, FinishEnter(e) PROVE CallInv'
  <2>1. CASE live /\ e = epoch /\ state = "WRITING"
    <3>1. /\ call' = [op |-> "end", epoch |-> e, data |-> <<>>, handle |-> handle,
                      reboot |-> FALSE]
          /\ UNCHANGED <<state, epoch, ops>> /\ call.op = "idle"
      BY <1>6, <2>1 DEF FinishEnter, flash
    <3>2. call'.op = "end" /\ call'.epoch = e /\ call'.handle = handle
      BY <3>1
    <3> QED
      BY <2>1, <3>1, <3>2, <1>t DEF HandleInv
  <2>2. CASE ~(live /\ e = epoch /\ state = "WRITING")
    BY <1>6, <2>2, <1>i DEF FinishEnter, Return
  <2> QED
    BY <2>1, <2>2
<1>7. ASSUME NEW e \in Issued, NEW reboot \in BOOLEAN, ActivateEnter(e, reboot) PROVE CallInv'
  <2>1. CASE Activatable(e)
    <3>1. /\ call' = [op |-> "boot", epoch |-> e, data |-> <<>>, handle |-> 0,
                      reboot |-> reboot]
          /\ state' = "ACTIVATED" /\ epoch' = epoch
      BY <1>7, <2>1 DEF ActivateEnter
    <3>2. call'.op = "boot" /\ call'.epoch = e
      BY <3>1
    <3> QED
      BY <2>1, <3>1, <3>2 DEF Activatable
  <2>2. CASE ~Activatable(e)
    BY <1>7, <2>2, <1>i DEF ActivateEnter, Return
  <2> QED
    BY <2>1, <2>2
<1>8. ASSUME WriteFlash PROVE CallInv'
  <2>1. CASE call' = [call EXCEPT !.op = "account"]
    <3>1. /\ call'.op = "account" /\ call'.epoch = call.epoch
          /\ call'.data = call.data /\ call'.handle = call.handle
      BY <2>1, <1>t DEF CallRecord
    <3> QED
      BY <1>8, <3>1, <1>t DEF WriteFlash, sink
  <2>2. CASE call' = NoCall
    BY <2>2, <1>i
  <2> QED
    BY <1>8, <2>1, <2>2 DEF WriteFlash, Return
<1>9. ASSUME WriteStale PROVE CallInv'
  BY <1>9, <1>i DEF WriteStale, Return
<1>10. ASSUME WriteAccount PROVE CallInv'
  BY <1>10, <1>i DEF WriteAccount, Return
<1>11. ASSUME FinishOk PROVE CallInv'
  BY <1>11, <1>i DEF FinishOk, Return
<1>12. ASSUME FinishFail PROVE CallInv'
  BY <1>12, <1>i DEF FinishFail, Return
<1>13. ASSUME SetBootOk PROVE CallInv'
  <2>1. call.op = "boot" /\ call'.op = "close" /\ call'.epoch = call.epoch
    BY <1>13, <1>t DEF SetBootOk, CallRecord
  <2> QED
    BY <1>13, <2>1, <1>t DEF SetBootOk, sink
<1>14. ASSUME SetBootFail PROVE CallInv'
  BY <1>14, <1>i DEF SetBootFail, Return
<1>15. ASSUME ActivateClose PROVE CallInv'
  <2>1. CASE call' = [call EXCEPT !.op = "restart"]
    <3>1. call'.op = "restart"
      BY <2>1, <1>t DEF CallRecord
    <3> QED
      BY <1>15, <3>1, <1>t DEF ActivateClose
  <2>2. CASE call' = NoCall
    BY <2>2, <1>i
  <2> QED
    BY <1>15, <2>1, <2>2 DEF ActivateClose, Return
<1>16. ASSUME Invalidate PROVE CallInv'
  BY <1>16, <1>t DEF Invalidate, flash
<1>17. ASSUME Restart PROVE CallInv'
  BY <1>17, <1>i DEF Restart
<1> QED
  BY <1>a, <1>1, <1>2, <1>3, <1>4, <1>5, <1>6, <1>7, <1>8, <1>9, <1>10, <1>11,
     <1>12, <1>13, <1>14, <1>15, <1>16, <1>17, NextIsStep DEF Step

(* Every step keeps the sectors counted within the bytes written. *)
LEMMA SectorStep == IInv /\ TypeOK' /\ [Next]_sinkVars => (sectors * SectorUnits <= written)'
<1> SUFFICES ASSUME IInv, TypeOK', [Next]_sinkVars
             PROVE  sectors' * SectorUnits <= written'
  OBVIOUS
<1>t. sectors * SectorUnits <= written /\ SectorUnits \in Nat \ {0}
  BY SinkAssumption DEF IInv, ProgressInv
<1>1. CASE UNCHANGED <<written, sectors>>
  BY <1>1, <1>t
<1>2. CASE written' = 0 /\ sectors' = 0
  BY <1>2, <1>t
<1>3. CASE WriteAccount
  BY <1>3, <1>t, DivBound DEF WriteAccount, TypeOK
<1>4. UNCHANGED <<written, sectors>> \/ (written' = 0 /\ sectors' = 0) \/ WriteAccount
  BY NextIsStep
     DEF Step, sinkVars, sink, OpenBadArg, OpenRefused, OpenAccepted, ResetCounters,
         WriteEnter, Abort, FinishEnter, ActivateEnter, WriteFlash, WriteStale, FinishOk,
         FinishFail, SetBootOk, SetBootFail, ActivateClose, Invalidate, Restart
<1> QED
  BY <1>1, <1>2, <1>3, <1>4

(* Appending a chunk of the epoch's own units keeps the slot pure. *)
LEMMA AppendPure ==
  ASSUME NEW s \in Seq(Data), NEW d \in Seq(Data), NEW e,
         \A i \in DOMAIN s : s[i] = e,
         \A i \in DOMAIN d : d[i] = e
  PROVE  /\ Len(s \o d) = Len(s) + Len(d)
         /\ \A i \in DOMAIN (s \o d) : (s \o d)[i] = e
<1>1. /\ s \o d \in Seq(Data) /\ Len(s) \in Nat /\ Len(d) \in Nat
      /\ Len(s \o d) = Len(s) + Len(d)
      /\ DOMAIN s = 1 .. Len(s) /\ DOMAIN d = 1 .. Len(d)
  BY ConcatProperties, LenProperties
<1>2. DOMAIN (s \o d) = 1 .. (Len(s) + Len(d))
  BY <1>1, LenProperties
<1>3. \A i \in 1 .. (Len(s) + Len(d)) :
        (s \o d)[i] = IF i <= Len(s) THEN s[i] ELSE d[i - Len(s)]
  BY <1>1, ConcatProperties
<1>4. ASSUME NEW i \in 1 .. (Len(s) + Len(d)) PROVE (s \o d)[i] = e
  <2>1. CASE i <= Len(s)
    <3>1. i \in DOMAIN s
      BY <1>1, <2>1
    <3> QED
      BY <1>3, <2>1, <3>1
  <2>2. CASE ~(i <= Len(s))
    <3>1. i - Len(s) \in DOMAIN d
      BY <1>1, <2>2
    <3> QED
      BY <1>3, <2>2, <3>1
  <2> QED
    BY <2>1, <2>2
<1> QED
  BY <1>1, <1>2, <1>4

(* Every step keeps the running image whole, and the slot being written pure
   and counted.                                                              *)
LEMMA ContentStep == IInv /\ TypeOK' /\ [Next]_sinkVars => ContentInv'
<1> SUFFICES ASSUME IInv, TypeOK', [Next]_sinkVars PROVE ContentInv'
  OBVIOUS
<1> USE DEF ContentInv, BytesExact, Sealed, RunningIntact, WrittenBy, IsCurrent, Holding, InCall
<1>t. /\ slots \in [Slot -> Seq(Data)] /\ running \in Slot /\ call \in CallRecord
      /\ written \in Nat /\ Target \in Slot /\ Target # running
      /\ CallInv /\ HandleInv /\ SessionInv /\ ContentInv
  BY HelperTypes DEF IInv, TypeOK
<1>i. NoCall.op = "idle"
  BY DEF NoCall
<1>e. Len(<<>>) = 0 /\ DOMAIN <<>> = {} /\ <<>> \in Seq(Data)
  BY EmptySeq
<1>r. UNCHANGED running => Target' = Target
  BY DEF Target
<1>a. CASE UNCHANGED sinkVars
  BY <1>a, <1>t, <1>r DEF sinkVars, sink, flash
<1>1. ASSUME NEW sz \in Sizes, OpenBadArg(sz) PROVE ContentInv'
  BY <1>1, <1>i, <1>r, <1>t DEF OpenBadArg, Return, sink, flash
<1>2. ASSUME NEW sz \in Sizes, NEW code \in {"BUSY", "PARTITION", "SIZE_INVALID", "BEGIN_FAIL"},
             OpenRefused(sz, code)
      PROVE ContentInv'
  <2>1. /\ call.op = "idle" /\ call'.op = "idle" /\ Target' = Target
        /\ UNCHANGED <<live, epoch, written, running>>
        /\ state' = IF Pending THEN "IDLE" ELSE state
    BY <1>2, <1>i, <1>r DEF OpenRefused, Return
  <2>2. CASE UNCHANGED slots
    BY <2>1, <2>2, <1>t DEF Pending
  <2>3. CASE code = "BEGIN_FAIL" /\ slots' = [slots EXCEPT ![Target] = <<>>]
    <3>1. ~live /\ state' \notin {"WRITING", "ABORT_PENDING"}
      BY <1>2, <2>1, <2>3, <1>t DEF OpenRefused, SessionInv, Pending
    <3>2. slots'[running] = slots[running]
      BY <2>3, <1>t
    <3> QED
      BY <2>1, <3>1, <3>2, <1>t
  <2> QED
    BY <1>2, <2>2, <2>3 DEF OpenRefused
<1>3. ASSUME NEW sz \in Sizes, OpenAccepted(sz) PROVE ContentInv'
  <2>1. /\ Target' = Target /\ UNCHANGED running /\ call'.op = "idle"
        /\ state' = "WRITING" /\ written' = 0
        /\ slots' = [slots EXCEPT ![Target] = <<>>]
    BY <1>3, <1>i, <1>r DEF OpenAccepted, ResetCounters, Return
  <2>2. slots'[Target] = <<>> /\ slots'[running] = slots[running]
    BY <2>1, <1>t
  <2> QED
    BY <2>1, <2>2, <1>e, <1>t
<1>4. ASSUME NEW e \in Issued, NEW n \in ChunkLens, WriteEnter(e, Chunk(e, n)) PROVE ContentInv'
  <2>1. call.op = "idle" /\ call'.op \in {"idle", "write"} /\ Target' = Target
    BY <1>4, <1>i, <1>r DEF WriteEnter, Return, flash
  <2> QED
    BY <1>4, <2>1, <1>t DEF WriteEnter, sink, flash
<1>5. ASSUME NEW e \in Issued, Abort(e) PROVE ContentInv'
  <2>1. call.op = "idle" /\ call'.op = "idle" /\ Target' = Target
    BY <1>5, <1>i, <1>r DEF Abort, Return
  <2> QED
    BY <1>5, <2>1, <1>t DEF Abort, ToIdle
<1>6. ASSUME NEW e \in Issued, FinishEnter(e) PROVE ContentInv'
  <2>1. call.op = "idle" /\ call'.op \in {"idle", "end"} /\ Target' = Target
    BY <1>6, <1>i, <1>r DEF FinishEnter, Return, flash
  <2> QED
    BY <1>6, <2>1, <1>t DEF FinishEnter, flash
<1>7. ASSUME NEW e \in Issued, NEW reboot \in BOOLEAN, ActivateEnter(e, reboot) PROVE ContentInv'
  <2>1. /\ call.op = "idle" /\ call'.op \in {"idle", "boot"} /\ Target' = Target
        /\ call'.op = "boot" => Activatable(e)
    BY <1>7, <1>i, <1>r DEF ActivateEnter, Return, flash
  <2>2. UNCHANGED <<live, epoch, written, slots, running>> /\ state' \in {state, "ACTIVATED"}
        /\ (state' # state => Activatable(e))
    BY <1>7 DEF ActivateEnter, flash
  <2> QED
    BY <2>1, <2>2, <1>t DEF Activatable
<1>8. ASSUME WriteFlash PROVE ContentInv'
  <2>0. /\ call.op = "write" /\ Target' = Target /\ Holding /\ state \notin {"VALIDATED", "ACTIVATED"}
        /\ UNCHANGED <<state, live, epoch, written, running>>
        /\ \A i \in DOMAIN call.data : call.data[i] = epoch
        /\ call.data \in Seq(Data) /\ slots[Target] \in Seq(Data)
    BY <1>8, <1>r, <1>t DEF WriteFlash, CallInv, CallRecord, sink
  <2>1. CASE slots' = [slots EXCEPT ![Target] = @ \o call.data] /\ call' = [call EXCEPT !.op = "account"]
    <3>1. call'.op = "account" /\ call'.data = call.data
      BY <2>1, <1>t DEF CallRecord
    <3>2. slots'[Target] = slots[Target] \o call.data /\ slots'[running] = slots[running]
      BY <2>1, <1>t
    <3>3. \A i \in DOMAIN slots[Target] : slots[Target][i] = epoch
      BY <2>0, <1>t
    <3>4. /\ Len(slots'[Target]) = Len(slots[Target]) + Len(call.data)
          /\ \A i \in DOMAIN slots'[Target] : slots'[Target][i] = epoch
      <4>1. /\ Len(slots[Target] \o call.data) = Len(slots[Target]) + Len(call.data)
            /\ \A i \in DOMAIN (slots[Target] \o call.data) :
                 (slots[Target] \o call.data)[i] = epoch
        BY <2>0, <3>3, AppendPure
      <4> QED
        BY <3>2, <4>1
    <3>5. live /\ state = "WRITING" => Len(slots[Target]) = written
      BY <2>0, <1>t
    <3> QED
      BY <2>0, <3>1, <3>2, <3>4, <3>5, <1>t
  <2>2. CASE UNCHANGED slots /\ call' = NoCall
    BY <2>0, <2>2, <1>i, <1>t
  <2> QED
    BY <1>8, <2>1, <2>2 DEF WriteFlash, Return
<1>9. ASSUME WriteStale PROVE ContentInv'
  <2>1. call.op = "account" /\ call'.op = "idle" /\ Target' = Target /\ call.epoch = epoch
    BY <1>9, <1>i, <1>r, <1>t DEF WriteStale, Return, flash, CallInv
  <2> QED
    BY <1>9, <2>1, <1>t DEF WriteStale, sink, flash
<1>10. ASSUME WriteAccount PROVE ContentInv'
  <2>1. call.op = "account" /\ call'.op = "idle" /\ Target' = Target
    BY <1>10, <1>i, <1>r DEF WriteAccount, Return
  <2> QED
    BY <1>10, <2>1, <1>t DEF WriteAccount
<1>11. ASSUME FinishOk PROVE ContentInv'
  <2>1. call.op = "end" /\ call'.op = "idle" /\ Target' = Target /\ Holding
    BY <1>11, <1>i, <1>r, <1>t DEF FinishOk, Return, CallInv
  <2> QED
    BY <1>11, <2>1, <1>t DEF FinishOk, SessionInv
<1>12. ASSUME FinishFail PROVE ContentInv'
  <2>1. call.op = "end" /\ call'.op = "idle" /\ Target' = Target
    BY <1>12, <1>i, <1>r DEF FinishFail, Return
  <2> QED
    BY <1>12, <2>1, <1>t DEF FinishFail, ToIdle
<1>13. ASSUME SetBootOk PROVE ContentInv'
  <2>1. call.op = "boot" /\ call'.op = "close" /\ Target' = Target
    BY <1>13, <1>r, <1>t DEF SetBootOk, CallRecord
  <2> QED
    BY <1>13, <2>1, <1>t DEF SetBootOk, sink
<1>14. ASSUME SetBootFail PROVE ContentInv'
  <2>1. call.op = "boot" /\ call'.op = "idle" /\ Target' = Target
    BY <1>14, <1>i, <1>r DEF SetBootFail, Return, flash
  <2> QED
    BY <1>14, <2>1, <1>t DEF SetBootFail, flash
<1>15. ASSUME ActivateClose PROVE ContentInv'
  <2>1. /\ call.op = "close" /\ call'.op \in {"idle", "restart"} /\ Target' = Target
        /\ state = "ACTIVATED"
    BY <1>15, <1>i, <1>r, <1>t DEF ActivateClose, Return, CallRecord, CallInv
  <2> QED
    BY <1>15, <2>1, <1>t DEF ActivateClose
<1>16. ASSUME Invalidate PROVE ContentInv'
  BY <1>16, <1>r, <1>t DEF Invalidate, flash
<1>17. ASSUME Restart PROVE ContentInv'
  BY <1>17, <1>i DEF Restart
<1> QED
  BY <1>a, <1>1, <1>2, <1>3, <1>4, <1>5, <1>6, <1>7, <1>8, <1>9, <1>10, <1>11,
     <1>12, <1>13, <1>14, <1>15, <1>16, <1>17, NextIsStep DEF Step

(* Every step keeps a saved progress record that of the current session, with
   exactly its sector count.                                                  *)
LEMMA ProgressStep == IInv /\ TypeOK' /\ [Next]_sinkVars => ProgressInv'
<1> SUFFICES ASSUME IInv, TypeOK', [Next]_sinkVars PROVE ProgressInv'
  OBVIOUS
<1> DEFINE Saved == [size |-> size, sector |-> sectors]
<1>t. /\ IsCurrent(epoch) /\ sectors > 0 /\ ~dirty => nvs = Saved
      /\ sectors \in Nat /\ sectors' \in Nat
  BY DEF IInv, TypeOK, ProgressInv, ProgressExact
<1>1. IsCurrent(epoch)' /\ sectors' > 0 /\ ~dirty' => nvs' = Saved'
  <2>1. CASE ~live' \/ state' # "WRITING" \/ sectors' = 0
    BY <2>1 DEF IsCurrent
  <2>2. CASE /\ UNCHANGED <<size, sectors, dirty, nvs>>
             /\ state' = "WRITING" => state = "WRITING"
             /\ live' => live
    BY <2>2, <1>t DEF IsCurrent
  <2>3. CASE WriteAccount
    <3>1. PICK saved \in sectors .. sectors' : SaveProgress(saved)
      BY <2>3 DEF WriteAccount
    <3>2. UNCHANGED size /\ IsCurrent(epoch)
      BY <2>3 DEF WriteAccount, IsCurrent, IInv, CallInv, InCall
    <3>3. CASE sectors' > sectors
      <4>1. ~dirty' => ~(saved < sectors')
        BY <3>1, <3>3, Zenon DEF SaveProgress
      <4>2. ~dirty' => saved = sectors'
        BY <4>1, <1>t
      <4>3. saved = sectors' => nvs' = [size |-> size, sector |-> sectors']
        BY <3>1, <3>3 DEF SaveProgress
      <4> QED
        BY <3>2, <4>2, <4>3
    <3>4. CASE sectors' = sectors
      BY <3>1, <3>2, <3>4, <1>t DEF SaveProgress
    <3> QED
      BY <3>1, <3>3, <3>4, <1>t
  <2>4. \/ ~live' \/ state' # "WRITING" \/ sectors' = 0
        \/ /\ UNCHANGED <<size, sectors, dirty, nvs>>
           /\ state' = "WRITING" => state = "WRITING"
           /\ live' => live
        \/ WriteAccount
    BY NextIsStep
       DEF Step, sinkVars, sink, flash, OpenBadArg, OpenRefused, OpenAccepted, ResetCounters,
           WriteEnter, Abort, ToIdle, FinishEnter, ActivateEnter, WriteFlash, WriteStale,
           FinishOk, FinishFail, SetBootOk, SetBootFail, ActivateClose, Invalidate, Restart
  <2> QED
    BY <2>1, <2>2, <2>3, <2>4
<1>2. IsCurrent(epoch)' => sectors' * SectorUnits <= Len(slots[Target])'
  <2>1. BytesExact' /\ sectors' * SectorUnits <= written'
    BY ContentStep, SectorStep DEF ContentInv
  <2>2. Len(call.data)' \in Nat /\ written' \in Nat /\ sectors' * SectorUnits \in Nat
    <3>1. call'.data \in Seq(Data) /\ written' \in Nat
      BY DEF TypeOK, CallRecord
    <3>2. Len(call'.data) \in Nat
      BY <3>1, LenProperties
    <3>3. sectors' * SectorUnits \in Nat
      <4>1. sectors' \in Nat /\ SectorUnits \in Nat
        BY <1>t, SinkAssumption
      <4>2. \A a, b \in Nat : a * b \in Nat
        OBVIOUS
      <4> QED
        BY <4>1, <4>2
    <3> QED
      BY <3>1, <3>2, <3>3
  <2> QED
    BY <2>1, <2>2 DEF BytesExact, IsCurrent
<1> QED
  BY <1>1, <1>2, SectorStep DEF ProgressInv, ProgressExact

(* The invariant holds when the device leaves the factory. *)
LEMMA IInvInit == SinkInit => IInv
<1> SUFFICES ASSUME SinkInit PROVE IInv
  OBVIOUS
<1>1. TypeOK
  BY TypeInit
<1>2. SessionInv /\ HandleInv /\ CallInv /\ ContentInv
  BY SinkAssumption
     DEF SinkInit, SessionInv, HandleInv, NoHandleLeak, CallInv, ContentInv, BytesExact,
         RunningIntact, Holding, Sealed, IsCurrent, InCall, NoCall, Closed, Slot
<1>3. ProgressInv
  BY SinkAssumption DEF SinkInit, ProgressInv, ProgressExact
<1> QED
  BY <1>1, <1>2, <1>3 DEF IInv

(* The invariant is inductive. *)
LEMMA IInvStep == IInv /\ [Next]_sinkVars => IInv'
<1> SUFFICES ASSUME IInv, [Next]_sinkVars PROVE IInv'
  OBVIOUS
<1>1. TypeOK'
  BY TypeStep DEF IInv
<1> QED
  BY <1>1, SessionStep, HandleStep, CallStepInv, ContentStep, ProgressStep DEF IInv

(* The inductive invariant holds at every step of every behaviour. *)
THEOREM Invariance == Spec => []IInv
<1> QED
  BY IInvInit, IInvStep, PTL DEF Spec

-----------------------------------------------------------------------------
(* What the sink guarantees, at every step of every behaviour *)

(* No OTA handle is ever open without a holder that will close it. *)
THEOREM HandlesNeverLeak == Spec => []NoHandleLeak
<1>1. IInv => NoHandleLeak
  BY DEF IInv, HandleInv
<1> QED
  BY <1>1, Invariance, PTL

(* Flash writes and the final verification, which run with the mutex released,
   find the handle open and still their epoch's, whatever happened meanwhile.  *)
THEOREM WindowsKeepTheirHandle == Spec => []WindowHandleOpen
<1>1. IInv => WindowHandleOpen
  BY DEF IInv, HandleInv, CallInv, WindowHandleOpen, InCall
<1> QED
  BY <1>1, Invariance, PTL

(* The slot under an open handle holds units of that handle's session only. *)
THEOREM SlotsStayPure == Spec => []SlotPurity
<1>1. IInv => SlotPurity
  <2> SUFFICES ASSUME IInv, NEW h \in Handle, ops[h] # Closed
               PROVE  WrittenBy(Target, ops[h])
    BY DEF SlotPurity
  <2>1. CASE InCall("end")
    BY <2>1 DEF IInv, HandleInv, NoHandleLeak, CallInv, ContentInv
  <2>2. CASE ~InCall("end")
    <3>1. h = handle /\ h # 0
      BY <2>2, SinkAssumption DEF IInv, HandleInv, NoHandleLeak
    <3> QED
      BY <2>2, <3>1 DEF IInv, HandleInv, ContentInv
  <2> QED
    BY <2>1, <2>2
<1> QED
  BY <1>1, Invariance, PTL

(* The byte count of a current session is that of the slot. *)
THEOREM CountsAreExact == Spec => []BytesExact
<1>1. IInv => BytesExact
  BY DEF IInv, ContentInv
<1> QED
  BY <1>1, Invariance, PTL

(* A power cut at any instant leaves a complete image to start again from. *)
THEOREM DeviceStaysBootable == Spec => []RunningIntact
<1>1. IInv => RunningIntact
  BY DEF IInv, ContentInv
<1> QED
  BY <1>1, Invariance, PTL

(* A progress record that saving has not failed for is the session's own. *)
THEOREM ProgressIsExact == Spec => []ProgressExact
<1>1. IInv => ProgressExact
  BY DEF IInv, ProgressInv
<1> QED
  BY <1>1, Invariance, PTL

(* Only a slot that one session filled from its first unit to its last, with
   every unit accounted for, is ever made the one to boot.                    *)
THEOREM OnlyWholeSessionsBoot == Spec => BootsOwnImage
<1>1. IInv /\ [Next]_sinkVars =>
        (boot' # boot => /\ WrittenBy(boot', call.epoch)
                         /\ Len(slots[boot']) = written
                         /\ slots[boot'] \in Images)
  <2> SUFFICES ASSUME IInv, [Next]_sinkVars, boot' # boot
               PROVE  /\ WrittenBy(boot', call.epoch)
                      /\ Len(slots[boot']) = written
                      /\ slots[boot'] \in Images
    OBVIOUS
  <2>1. SetBootOk
    BY NextIsStep
       DEF Step, sinkVars, sink, flash, OpenBadArg, OpenRefused, OpenAccepted,
           WriteEnter, Abort, FinishEnter, ActivateEnter, WriteFlash, WriteStale, WriteAccount,
           FinishOk, FinishFail, SetBootFail, ActivateClose, Invalidate, Restart
  <2> QED
    BY <2>1 DEF SetBootOk, IInv, CallInv, ContentInv, Sealed
<1> QED
  BY <1>1, Invariance, PTL DEF Spec, BootsOwnImage

(* An epoch that is no longer live stays dead until the next restart. *)
THEOREM DeadEpochsStayDead == Spec => EpochNeverRevived
<1>1. TypeOK /\ [Next]_sinkVars =>
        \A e \in Issued : ~(live /\ e = epoch) => ~(live' /\ e = epoch')
  <2> SUFFICES ASSUME TypeOK, [Next]_sinkVars, NEW e \in Issued, ~(live /\ e = epoch), live'
               PROVE  e # epoch'
    OBVIOUS
  <2>1. CASE UNCHANGED epoch /\ (live' => live)
    BY <2>1
  <2>2. CASE epoch' = nextEpoch
    BY <2>2 DEF Issued, TypeOK
  <2>3. (UNCHANGED epoch /\ (live' => live)) \/ epoch' = nextEpoch \/ ~live'
    BY NextIsStep
       DEF Step, sinkVars, sink, OpenBadArg, OpenRefused, OpenAccepted,
           WriteEnter, Abort, ToIdle, FinishEnter, ActivateEnter, WriteFlash, WriteStale,
           WriteAccount, FinishOk, FinishFail, SetBootOk, SetBootFail, ActivateClose,
           Invalidate, Restart
  <2> QED
    BY <2>1, <2>2, <2>3
<1> QED
  BY <1>1, TypeCorrect, PTL DEF Spec, EpochNeverRevived

-----------------------------------------------------------------------------
(* The sink implements OtaSession. *)

(* The sink's history: shipped is an extra variable that constrains nothing. *)
LEMMA RSpecInv == RSpec => []IInv
<1>1. RInit => IInv
  BY IInvInit DEF RInit
<1>2. IInv /\ [RNext]_<<sinkVars, shipped>> => IInv'
  BY IInvStep DEF RNext
<1> QED
  BY <1>1, <1>2, PTL DEF RSpec

(* Appending leaves the part that was there. *)
LEMMA PrefixOfConcat ==
  ASSUME NEW s \in Seq(Data), NEW d \in Seq(Data)
  PROVE  SubSeq(s \o d, 1, Len(s)) = s
<1>1. /\ Len(s) \in Nat /\ s \o d \in Seq(Data)
      /\ \A i \in 1 .. Len(s) : (s \o d)[i] = s[i] /\ s[i] \in Data
  BY LenProperties, ConcatProperties, ElementOfSeq
<1>2. /\ SubSeq(s \o d, 1, Len(s)) \in Seq(Data)
      /\ Len(SubSeq(s \o d, 1, Len(s))) = Len(s)
      /\ \A i \in 1 .. Len(s) : SubSeq(s \o d, 1, Len(s))[i] = (s \o d)[i]
  BY <1>1, SubSeqProperties
<1> QED
  BY <1>1, <1>2, SeqEqual

(* The sink starts as the service does. *)
LEMMA RefinesInit == RInit => Session!Init
BY SinkAssumption
   DEF RInit, SinkInit, Session!Init, AbsPhase, InCall, NoCall

(* The abstract state, where only the sink's own state matters: nothing that the
   mapping looks at has changed.                                                *)
LEMMA Stutters ==
  ASSUME UNCHANGED <<epoch, nextEpoch, written, shipped>>,
         AbsPhase' = AbsPhase, live' = live,
         live => SubSeq(slots[Target], 1, written)' = SubSeq(slots[Target], 1, written),
         InCall("boot")' <=> InCall("boot"),
         InCall("boot") => slots[Target]' = slots[Target]
  PROVE  UNCHANGED Session!vars
BY DEF Session!vars

(* A session opens: its slot has just been erased and nothing is counted yet. *)
LEMMA StepOpen ==
  ASSUME IInv, NEW sz \in Sizes, OpenAccepted(sz), shipped' = shipped
  PROVE  Session!Open
<1>1. /\ slots \in [Slot -> Seq(Data)] /\ Target \in Slot /\ nextEpoch \in Nat
      /\ Target' = Target
  BY HelperTypes DEF IInv, TypeOK, OpenAccepted, Target
<1>2. slots'[Target] = <<>> /\ written' = 0
  BY <1>1 DEF OpenAccepted, ResetCounters
<1>3. SubSeq(<<>>, 1, 0) = <<>>
  BY SubSeqEmpty
<1>4. call'.op = "idle" /\ call.op = "idle"
  BY DEF OpenAccepted, Return, NoCall, InCall
<1> QED
  BY <1>1, <1>2, <1>3, <1>4 DEF OpenAccepted, Session!Open, AbsPhase, InCall

(* Accounting for a chunk is where the service accepts it: it is in the slot
   since WriteFlash, after the units already counted. *)
LEMMA StepAccept ==
  ASSUME IInv, WriteAccount, shipped' = shipped
  PROVE  Session!Accept
<1>1. /\ slots[Target] \in Seq(Data) /\ call.data \in Seq(Data) /\ call.data # <<>>
      /\ written \in Nat /\ live /\ state = "WRITING" /\ InCall("account")
  BY HelperTypes DEF WriteAccount, IsCurrent, IInv, TypeOK, CallRecord, CallInv, InCall
<1>2. /\ Len(slots[Target]) = written + Len(call.data)
      /\ Len(call.data) \in Nat \ {0}
  BY <1>1, EmptySeq DEF IInv, ContentInv, BytesExact, IsCurrent
<1>3. /\ UNCHANGED <<state, live, epoch, nextEpoch, slots, running>> /\ call'.op = "idle"
      /\ written' = Len(slots[Target]) /\ Target' = Target
  BY <1>2 DEF WriteAccount, Return, NoCall, Target
<1>4. SubSeq(slots[Target], 1, written)' = slots[Target]
  BY <1>1, <1>3, SubSeqFull
<1>5. Len(SubSeq(slots[Target], 1, written)) = written
  <2>1. \A i \in 1 .. written : slots[Target][i] \in Data
    BY <1>1, <1>2, ElementOfSeq
  <2> QED
    BY <1>1, <2>1, SubSeqProperties
<1>6. ~InCall("boot") /\ ~InCall("boot")'
  BY <1>1, <1>3 DEF InCall
<1> QED
  BY <1>1, <1>2, <1>3, <1>4, <1>5, <1>6 DEF Session!Accept, AbsPhase

(* esp_ota_end found a valid image: what the session accepted is that image,
   since the count and the slot agree. *)
LEMMA StepSeal ==
  ASSUME IInv, FinishOk, live, shipped' = shipped
  PROVE  Session!Seal
<1>1. /\ slots[Target] \in Seq(Data) /\ written \in Nat
      /\ InCall("end") /\ slots[Target] \in Images
  BY HelperTypes DEF FinishOk, IInv, TypeOK
<1>2. state = "WRITING"
  BY <1>1 DEF IInv, CallInv, SessionInv, Holding
<1>3. Len(slots[Target]) = written
  BY <1>1, <1>2 DEF IInv, ContentInv, BytesExact, IsCurrent, InCall
<1>4. SubSeq(slots[Target], 1, written) = slots[Target]
  BY <1>1, <1>3, SubSeqFull
<1>5. /\ UNCHANGED <<live, epoch, nextEpoch, written, slots, running>>
      /\ state' = "VALIDATED" /\ call'.op = "idle" /\ Target' = Target
  BY DEF FinishOk, Return, NoCall, Target
<1> QED
  BY <1>1, <1>2, <1>4, <1>5 DEF Session!Seal, AbsPhase, InCall

(* However a session ends, the service sees it dropped. *)
LEMMA StepDrop ==
  ASSUME IInv, live, ~live', UNCHANGED <<nextEpoch, shipped>>,
         InCall("boot")' <=> InCall("boot"),
         InCall("boot") => slots[Target]' = slots[Target]
  PROVE  Session!Drop
BY DEF Session!Drop, AbsPhase, IInv, SessionInv

(* The gate of activate decides to ship what the session accepted, all of it. *)
LEMMA StepDecide ==
  ASSUME IInv, NEW e \in Issued, NEW reboot \in BOOLEAN,
         ActivateEnter(e, reboot), Activatable(e), shipped' = shipped
  PROVE  Session!Decide
<1>1. /\ slots[Target] \in Seq(Data) /\ live /\ state = "VALIDATED"
      /\ Len(slots[Target]) = written
  BY HelperTypes DEF Activatable, IInv, TypeOK, ContentInv, Sealed
<1>2. SubSeq(slots[Target], 1, written) = slots[Target]
  BY <1>1, SubSeqFull
<1>3. /\ UNCHANGED <<live, epoch, nextEpoch, written, slots, running>>
      /\ state' = "ACTIVATED" /\ call'.op = "boot" /\ call.op = "idle" /\ Target' = Target
  BY DEF ActivateEnter, flash, Target, InCall
<1> QED
  BY <1>1, <1>2, <1>3 DEF Session!Decide, AbsPhase, InCall

(* otadata is written: the slot has not changed since the decision. *)
LEMMA StepShip ==
  ASSUME IInv, SetBootOk, shipped' = slots[Target]
  PROVE  Session!Ship
<1>1. /\ UNCHANGED <<state, live, epoch, nextEpoch, written, slots, running>>
      /\ call.op = "boot" /\ call'.op = "close" /\ Target' = Target
  BY DEF SetBootOk, sink, Target, InCall, IInv, TypeOK, CallRecord
<1> QED
  BY <1>1 DEF Session!Ship, AbsPhase, InCall

(* otadata is not written: the session, if still alive, may try again. *)
LEMMA StepShipFails ==
  ASSUME IInv, SetBootFail, shipped' = shipped
  PROVE  Session!ShipFails
<1>1. /\ UNCHANGED <<live, epoch, nextEpoch, written, slots, running>>
      /\ call.op = "boot" /\ call'.op = "idle" /\ Target' = Target
      /\ state' = "VALIDATED"
  BY DEF SetBootFail, flash, Return, NoCall, Target, InCall
<1>2. live => epoch # 0
  BY DEF IInv, SessionInv
<1> QED
  BY <1>1, <1>2 DEF Session!ShipFails, AbsPhase, InCall

(* A restart loses the session and nothing that was shipped. *)
LEMMA StepPowerCycle ==
  ASSUME Restart, shipped' = shipped
  PROVE  Session!PowerCycle
BY DEF Restart, NoCall, Session!PowerCycle, AbsPhase, InCall

(* The sink's steps while live that leave the session as it is: a write to the
   flash only adds after what is counted.                                      *)
LEMMA StepFlash ==
  ASSUME IInv, WriteFlash, shipped' = shipped
  PROVE  UNCHANGED Session!vars
<1>1. /\ slots[Target] \in Seq(Data) /\ call.data \in Seq(Data)
      /\ written \in Nat /\ InCall("write") /\ Target' = Target
      /\ UNCHANGED <<state, live, epoch, nextEpoch, written>>
      /\ slots \in [Slot -> Seq(Data)] /\ Target \in Slot
  BY HelperTypes DEF WriteFlash, IInv, TypeOK, CallRecord, sink, Target
<1>2. ~InCall("boot") /\ ~InCall("boot")'
  <2>1. call'.op \in {"account", "idle"}
    BY <1>1 DEF WriteFlash, Return, NoCall, IInv, TypeOK, CallRecord
  <2> QED
    BY <1>1, <2>1 DEF InCall
<1>3. AbsPhase' = AbsPhase
  BY <1>1 DEF AbsPhase
<1>4. ASSUME live  PROVE  SubSeq(slots[Target], 1, written)' = SubSeq(slots[Target], 1, written)
  <2>1. state = "WRITING"
    BY <1>1, <1>4 DEF IInv, CallInv, SessionInv, Holding, InCall
  <2>2. written = Len(slots[Target])
    BY <1>1, <1>4, <2>1 DEF IInv, ContentInv, BytesExact, IsCurrent, InCall
  <2>3. \/ slots'[Target] = slots[Target] \o call.data
        \/ slots' = slots
    BY <1>1 DEF WriteFlash
  <2>4. /\ SubSeq(slots[Target] \o call.data, 1, written) = slots[Target]
        /\ SubSeq(slots[Target], 1, written) = slots[Target]
    BY <1>1, <2>2, PrefixOfConcat, SubSeqFull
  <2> QED
    BY <1>1, <2>3, <2>4
<1> QED
  BY <1>1, <1>2, <1>3, <1>4, Stutters

(* A refused open leaves the session alone, or there is none. *)
LEMMA StepRefused ==
  ASSUME IInv, NEW sz \in Sizes,
         NEW code \in {"BUSY", "PARTITION", "SIZE_INVALID", "BEGIN_FAIL"},
         OpenRefused(sz, code), shipped' = shipped
  PROVE  UNCHANGED Session!vars
<1>1. /\ UNCHANGED <<live, epoch, nextEpoch, written>> /\ Target' = Target
      /\ ~InCall("boot") /\ ~InCall("boot")'
  BY DEF OpenRefused, Return, NoCall, InCall, Target
<1>2. live => state' = state /\ slots' = slots
  BY DEF OpenRefused, Pending, IInv, SessionInv
<1>3. AbsPhase' = AbsPhase
  BY <1>1, <1>2 DEF AbsPhase
<1> QED
  BY <1>1, <1>2, <1>3, Stutters

(* Every step of the sink is a step of the service or invisible to it. *)
LEMMA StepSimulation ==
  IInv /\ [RNext]_<<sinkVars, shipped>> => [Session!Next]_(Session!vars)
<1> SUFFICES ASSUME IInv, [RNext]_<<sinkVars, shipped>>
             PROVE  [Session!Next]_(Session!vars)
  OBVIOUS
<1>1. CASE UNCHANGED <<sinkVars, shipped>>
  BY <1>1 DEF Session!vars, sinkVars, sink, flash, AbsPhase, InCall, Target
<1>2. CASE RNext
  <2> USE <1>2
  <2>0. /\ Step
        /\ call.op # "boot" \/ call'.op # "close" => shipped' = shipped
        /\ SetBootOk => shipped' = slots[Target]
    BY NextIsStep DEF RNext, SetBootOk, InCall, IInv, TypeOK, CallRecord
  <2>1. CASE \E sz \in Sizes : OpenBadArg(sz)
    BY <2>1, <2>0 DEF OpenBadArg, Return, NoCall, sink, flash, Session!vars, AbsPhase, InCall, Target
  <2>2. CASE \E sz \in Sizes :
               \E code \in {"BUSY", "PARTITION", "SIZE_INVALID", "BEGIN_FAIL"} :
                 OpenRefused(sz, code)
    BY <2>2, <2>0, StepRefused DEF OpenRefused, InCall
  <2>3. CASE \E sz \in Sizes : OpenAccepted(sz)
    BY <2>3, <2>0, StepOpen DEF OpenAccepted, InCall, Session!Next
  <2>4. CASE \E e \in Issued, n \in ChunkLens : WriteEnter(e, Chunk(e, n))
    BY <2>4, <2>0 DEF WriteEnter, Return, NoCall, sink, flash, Session!vars, AbsPhase, InCall, Target
  <2>5. CASE \E e \in Issued : Abort(e)
    <3>1. /\ UNCHANGED <<epoch, nextEpoch, written, slots, running, shipped>>
          /\ ~InCall("boot") /\ ~InCall("boot")'
          /\ live' = FALSE \/ UNCHANGED <<state, live>>
      BY <2>5, <2>0 DEF Abort, Return, NoCall, ToIdle, InCall
    <3> QED
      BY <3>1, StepDrop DEF Session!Next, Session!vars, AbsPhase, Target
  <2>6. CASE \E e \in Issued : FinishEnter(e)
    BY <2>6, <2>0 DEF FinishEnter, Return, NoCall, flash, Session!vars, AbsPhase, InCall, Target
  <2>7. CASE \E e \in Issued, reboot \in BOOLEAN : ActivateEnter(e, reboot)
    <3>1. PICK e \in Issued, reboot \in BOOLEAN : ActivateEnter(e, reboot)
      BY <2>7
    <3>2. shipped' = shipped
      BY <2>0, <3>1 DEF ActivateEnter, InCall
    <3>3. CASE Activatable(e)
      BY <3>1, <3>2, <3>3, StepDecide DEF Session!Next
    <3>4. CASE ~Activatable(e)
      BY <3>1, <3>2, <3>4
         DEF ActivateEnter, Return, NoCall, flash, Session!vars, AbsPhase, InCall, Target
    <3> QED
      BY <3>3, <3>4
  <2>8. CASE WriteFlash
    BY <2>8, <2>0, StepFlash DEF WriteFlash, InCall
  <2>9. CASE WriteStale
    BY <2>9, <2>0 DEF WriteStale, Return, NoCall, sink, flash, Session!vars, AbsPhase, InCall, Target
  <2>10. CASE WriteAccount
    BY <2>10, <2>0, StepAccept DEF WriteAccount, InCall, Session!Next
  <2>11. CASE FinishOk
    <3>1. /\ UNCHANGED <<live, epoch, nextEpoch, written, slots, running, shipped>>
          /\ ~InCall("boot") /\ ~InCall("boot")'
      BY <2>11, <2>0 DEF FinishOk, Return, NoCall, InCall
    <3> QED
      BY <2>11, <3>1, StepSeal DEF Session!Next, Session!vars, AbsPhase
  <2>12. CASE FinishFail
    <3>1. /\ UNCHANGED <<epoch, nextEpoch, written, slots, running, shipped>> /\ ~live'
          /\ ~InCall("boot") /\ ~InCall("boot")'
      BY <2>12, <2>0 DEF FinishFail, Return, NoCall, ToIdle, InCall
    <3> QED
      BY <3>1, StepDrop DEF Session!Next, Session!vars, AbsPhase
  <2>13. CASE SetBootOk
    BY <2>13, <2>0, StepShip DEF Session!Next
  <2>14. CASE SetBootFail
    BY <2>14, <2>0, StepShipFails DEF SetBootFail, Return, NoCall, Session!Next
  <2>15. CASE ActivateClose
    <3>1. /\ UNCHANGED <<epoch, nextEpoch, written, slots, running, shipped>> /\ ~live'
          /\ ~InCall("boot")
      BY <2>15, <2>0 DEF ActivateClose, InCall
    <3>2. ~InCall("boot")'
      BY <2>15 DEF ActivateClose, Return, NoCall, InCall, IInv, TypeOK, CallRecord
    <3> QED
      BY <3>1, <3>2, StepDrop DEF Session!Next, Session!vars, AbsPhase
  <2>16. CASE Invalidate
    <3>1. /\ UNCHANGED <<epoch, nextEpoch, written, slots, running, shipped, call>>
          /\ ~live'
      BY <2>16, <2>0 DEF Invalidate, flash
    <3> QED
      BY <3>1, StepDrop DEF Session!Next, Session!vars, AbsPhase, InCall, Target
  <2>17. CASE Restart
    BY <2>17, <2>0, StepPowerCycle DEF Restart, NoCall, Session!Next
  <2> QED
    BY <2>0, <2>1, <2>2, <2>3, <2>4, <2>5, <2>6, <2>7, <2>8, <2>9, <2>10, <2>11, <2>12,
       <2>13, <2>14, <2>15, <2>16, <2>17 DEF Step
<1> QED
  BY <1>1, <1>2

(* The sink implements the service: whoever uses ota_sink.c may reason with
   OtaSession alone, whatever the number of sessions and the size of the slot. *)
THEOREM SinkImplementsSession == RSpec => ImplementsSession
<1>1. RInit => Session!Init
  BY RefinesInit
<1>2. IInv /\ [RNext]_<<sinkVars, shipped>> => [Session!Next]_(Session!vars)
  BY StepSimulation
<1>3. RSpec => []IInv
  BY RSpecInv
<1> QED
  BY <1>1, <1>2, <1>3, PTL DEF RSpec, ImplementsSession, Session!Spec

-----------------------------------------------------------------------------
(* The sink keeps its side of BootSlots. *)

WholeSlots == {s \in Slot : slots[s] \in Images}

(* From the factory the device runs, and is pointed at, a whole image. *)
LEMMA SlotsInit == SinkInit => Flash!Init
BY SinkAssumption DEF SinkInit, Flash!Init, Slot

(* Whatever is put in the slot that is not running, only that slot becomes whole or
   stops being so.                                                                *)
LEMMA WritingRewrites ==
  ASSUME TypeOK, NEW v, slots' = [slots EXCEPT ![Target] = v], UNCHANGED <<running, boot>>
  PROVE  [Flash!Next]_(Flash!vars)
<1>1. Target \in Slot \ {running}
  BY HelperTypes
<1>2. \A s \in Slot : s # Target => slots'[s] = slots[s]
  BY DEF TypeOK
<1>3. WholeSlots' = WholeSlots \cup {Target} \/ WholeSlots' = WholeSlots \ {Target}
  BY <1>1, <1>2 DEF WholeSlots
<1> QED
  BY <1>1, <1>3 DEF WholeSlots, Flash!Next, Flash!Rewrite

(* The steps of the sink, one by one: three write the flash, one writes otadata. *)
LEMMA SlotsStep == TypeOK /\ [Next]_sinkVars => [Flash!Next]_(Flash!vars)
<1> SUFFICES ASSUME TypeOK, [Next]_sinkVars PROVE [Flash!Next]_(Flash!vars)
  OBVIOUS
<1>1. ASSUME UNCHANGED <<slots, running, boot>> PROVE [Flash!Next]_(Flash!vars)
  BY <1>1 DEF Flash!vars
<1>2. CASE \E sz \in Sizes : \E code \in {"BUSY", "PARTITION", "SIZE_INVALID", "BEGIN_FAIL"} :
             OpenRefused(sz, code)
  BY <1>1, <1>2, WritingRewrites DEF OpenRefused
<1>3. CASE \E sz \in Sizes : OpenAccepted(sz)
  BY <1>3, WritingRewrites DEF OpenAccepted
<1>4. CASE WriteFlash
  BY <1>1, <1>4, WritingRewrites DEF WriteFlash
<1>5. CASE SetBootOk
  <2>1. Target \in Slot \ {running}
    BY HelperTypes
  <2> QED
    BY <1>5, <2>1 DEF SetBootOk, Flash!Next, Flash!Choose
<1>6. CASE Restart
  BY <1>6 DEF Restart, Flash!Next, Flash!Restart
<1>7. CASE \/ \E sz \in Sizes : OpenBadArg(sz)
           \/ \E e \in Issued, n \in ChunkLens : WriteEnter(e, Chunk(e, n))
           \/ \E e \in Issued : Abort(e) \/ FinishEnter(e)
           \/ \E e \in Issued, reboot \in BOOLEAN : ActivateEnter(e, reboot)
           \/ WriteStale \/ WriteAccount \/ FinishOk \/ FinishFail \/ SetBootFail
           \/ ActivateClose \/ Invalidate \/ UNCHANGED sinkVars
  <2>1. UNCHANGED <<slots, running, boot>>
    BY <1>7 DEF OpenBadArg, WriteEnter, Abort, FinishEnter, ActivateEnter, WriteStale,
       WriteAccount, FinishOk, FinishFail, SetBootFail, ActivateClose, Invalidate, flash, sinkVars
  <2> QED
    BY <1>1, <2>1
<1> QED
  BY <1>2, <1>3, <1>4, <1>5, <1>6, <1>7, NextIsStep DEF Step

(* For any images, slot size and sessions, with calls of dead sessions under way: the
   slot the device runs from is never written, and otadata is pointed at whole images
   only, whatever it named before.                                                    *)
THEOREM SinkSparesRunning == Spec => SparesRunning
<1>1. SinkInit => Flash!Init
  BY SlotsInit
<1>2. TypeOK /\ [Next]_sinkVars => [Flash!Next]_(Flash!vars)
  BY SlotsStep
<1> QED
  BY <1>1, <1>2, TypeCorrect, PTL DEF Spec, SparesRunning, Flash!Spec
=============================================================================
