--------------------------- MODULE OtaSinkClient ---------------------------
(***************************************************************************)
(* The sink of OtaSink under the most general client that respects its     *)
(* contract (ota_sink.h): one serial caller that may make any call at any  *)
(* time with any epoch handed out so far, in any order, and other tasks    *)
(* that may invalidate the session at any moment.  Every transport is an   *)
(* instance of this client, so what holds here holds for all of them.      *)
(*                                                                         *)
(* A caller tags each unit of data with the epoch it writes it for, so the *)
(* contents of a slot say which sessions wrote them.                       *)
(***************************************************************************)
EXTENDS OtaSink

CONSTANTS
  Sizes,      \* image sizes a caller announces
  ChunkLens   \* lengths of the chunks a caller writes

ASSUME ClientAssumption ==
  /\ Sizes \subseteq Nat
  /\ ChunkLens \subseteq Nat \ {0}
  /\ Epoch \subseteq Data

Chunk(e, n) == [i \in 1 .. n |-> e]

Next ==
  \/ \E sz \in Sizes : Open(sz)
  \/ \E e \in Issued :
       \/ \E n \in ChunkLens : WriteEnter(e, Chunk(e, n))
       \/ Abort(e)
       \/ FinishEnter(e)
       \/ \E reboot \in BOOLEAN : ActivateEnter(e, reboot)
  \/ CallStep
  \/ Invalidate
  \/ Restart

Spec == SinkInit /\ [][Next]_sinkVars

-----------------------------------------------------------------------------
WrittenBy(s, e) == \A i \in DOMAIN slots[s] : slots[s][i] = e

CallRecord ==
  [op : Window, epoch : 0 .. MaxEpoch, data : Seq(Data), handle : Handle \cup {0},
   reboot : BOOLEAN]

(* The sink's variables, and the IDF state it uses, have their types; the size
   of the session never exceeds the slot (P1-4).                              *)
TypeOK ==
  /\ state \in SinkState /\ live \in BOOLEAN /\ dirty \in BOOLEAN
  /\ epoch \in 0 .. MaxEpoch /\ nextEpoch \in 1 .. (MaxEpoch + 1)
  /\ handle \in Handle \cup {0}
  /\ size \in 0 .. SlotSize /\ written \in Nat /\ sectors \in Nat
  /\ call \in CallRecord /\ ret \in Code
  /\ ops \in [Handle -> 0 .. MaxEpoch]
  /\ slots \in [Slot -> Seq(Data)]
  /\ boot \in Slot /\ running \in Slot
  /\ nvs \in [size : Nat, sector : Nat]

(* No OTA handle is ever lost: an open one is either the session's, or the one
   the finish in progress has taken from it.  A handle nobody holds would keep
   its context in RAM until the next boot (ota_sink.c clears s_sink.handle on
   five paths and passes it through a local on a sixth).                      *)
NoHandleLeak ==
  \A h \in Handle : ops[h] # Closed =>
    h = IF InCall("end") THEN call.handle ELSE handle

(* esp_ota_write and esp_ota_end, which run with the mutex released, always
   act on a handle that is open and still belongs to the epoch they were called
   with: whatever invalidates the session meanwhile only marks it, and never
   closes the handle under a write (ota_sink.h, the concurrency model).       *)
WindowHandleOpen ==
  call.op \in {"write", "end"} => ops[call.handle] = call.epoch

(* What is in the slot being written was written, all of it, by the session
   whose handle is open: a write that was under way when its session was
   invalidated cannot reach the next session's image (P0-1).                  *)
SlotPurity ==
  \A h \in Handle : ops[h] # Closed => WrittenBy(Target, ops[h])

(* bytes_written is exact: while a session is current it counts the units in
   the slot, a write that has reached the flash but is not yet accounted for
   aside.  No write is lost from the count or counted twice.                  *)
BytesExact ==
  IsCurrent(epoch) =>
    Len(slots[Target]) = written + (IF InCall("account") THEN Len(call.data) ELSE 0)

(* The device can always boot: at every instant, a power failure in the middle
   of any call included, the slot it runs from holds a complete image.  It is
   the running slot, not the boot slot of otadata, that must be spared (P1-5). *)
RunningIntact == slots[running] \in Images

(* Unless the last save failed (progress_dirty), the NVS record is that of the
   current session and says exactly how many sectors of it are in flash.      *)
ProgressExact ==
  IsCurrent(epoch) /\ sectors > 0 /\ ~dirty =>
    /\ nvs = [size |-> size, sector |-> sectors]
    /\ sectors * SectorUnits <= Len(slots[Target])

(* otadata is only ever pointed at an image that one session wrote from its
   first byte to its last, and whose bytes the sink accounted for: the session
   whose epoch activate was called with, however its calls interleave with
   invalidations and with other sessions.                                     *)
BootsOwnImage ==
  [][boot' # boot =>
       /\ WrittenBy(boot', call.epoch)
       /\ Len(slots[boot']) = written
       /\ slots[boot'] \in Images]_sinkVars

(* A session that was invalidated, aborted or closed never comes back to life:
   no later open revives its epoch, so a caller that kept it gets STALE.      *)
EpochNeverRevived ==
  [][\A e \in Issued : ~(live /\ e = epoch) => ~(live' /\ e = epoch')]_sinkVars

-----------------------------------------------------------------------------
(* The inductive invariant behind the safety properties above, in parts. *)

(* A handle is out, the session's or the one finish is closing *)
Holding == state \in {"WRITING", "ABORT_PENDING"}

(* The image awaiting its verdict from activate is complete *)
Sealed == (live /\ state \in {"VALIDATED", "ACTIVATED"}) \/ InCall("boot")

SessionInv ==
  /\ epoch < nextEpoch
  /\ Holding \/ live => epoch # 0
  /\ live => state \in {"WRITING", "VALIDATED", "ACTIVATED"}
  /\ state = "WRITING" => live

HandleInv ==
  /\ Holding /\ ~InCall("end") => handle # 0 /\ ops[handle] = epoch
  /\ ~Holding \/ InCall("end") => handle = 0
  /\ NoHandleLeak

CallInv ==
  /\ call.op \in {"write", "account"} =>
       /\ Holding /\ call.handle = handle /\ call.epoch = epoch /\ call.data # <<>>
       /\ \A i \in DOMAIN call.data : call.data[i] = epoch
  /\ InCall("end") =>
       /\ Holding /\ call.handle # 0 /\ call.epoch = epoch
       /\ ops[call.handle] = epoch
  /\ InCall("boot") => call.epoch = epoch
  /\ call.op \in {"boot", "close", "restart"} => state = "ACTIVATED"

ContentInv ==
  /\ Holding => WrittenBy(Target, epoch)
  /\ BytesExact
  /\ Sealed => WrittenBy(Target, epoch) /\ Len(slots[Target]) = written
  /\ RunningIntact

ProgressInv ==
  /\ sectors * SectorUnits <= written
  /\ ProgressExact

(* Who holds the handle, whose units are in the slot and how many, and what
   the call in progress remembers of them, all agree at every step: the
   strengthening that makes the properties above inductive.                   *)
IInv == TypeOK /\ SessionInv /\ HandleInv /\ CallInv /\ ContentInv /\ ProgressInv
=============================================================================
