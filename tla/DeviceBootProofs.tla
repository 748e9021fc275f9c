-------------------------- MODULE DeviceBootProofs --------------------------
(***************************************************************************)
(* Proofs about the boot of a new image, its trial, and the way back, for    *)
(* images of any length and power failures at any step.                     *)
(***************************************************************************)
EXTENDS DeviceBoot, SequenceTheorems, TLAPS

(* There are two slots, and each is the other's other. *)
LEMMA TwoSlots ==
  ASSUME NEW s \in Slot
  PROVE  /\ Other(s) \in Slot /\ Other(s) # s /\ Other(Other(s)) = s
         /\ \A t \in Slot : t = s \/ t = Other(s)
BY DEF Slot, Other

(* The boot loader always selects a slot. *)
LEMMA BootedIsSlot ==
  ASSUME latest \in Slot
  PROVE  Booted \in Slot
BY DEF Booted, Selected, Slot, Other

-----------------------------------------------------------------------------
(* What each kind of step does to what the invariants speak of. *)

(* A step that writes no flash and neither boots nor ends a run *)
Quiet ==
  /\ UNCHANGED <<entry, latest, image, convicted, running>>
  /\ main' = main \/ (main # "off" /\ main' \in MainState \ {"off"})
  /\ fwCb' \in BOOLEAN /\ (fwCb' = fwCb \/ main' # "off")
  /\ unmarked' \in BOOLEAN
  /\ stored' \in {stored, 0} /\ acked' \in 0 .. Sectors

(* The tasks of the device, the controller and the client, but for a handful of
   their steps, are quiet.                                                      *)
LEMMA QuietMain ==
  ASSUME TypeOK,
         NvsReady \/ NothingToConfirm \/ RollbackFails \/ TransportUp \/ HostUp \/ RegisterCallback
  PROVE  Quiet
<1> USE DEF TypeOK, Quiet, MainState, flash, ota, Goes
<1>1. CASE NvsReady
  BY <1>1 DEF NvsReady
<1>2. CASE NothingToConfirm
  BY <1>2 DEF NothingToConfirm
<1>3. CASE RollbackFails
  BY <1>3 DEF RollbackFails
<1>4. CASE TransportUp
  BY <1>4 DEF TransportUp
<1>5. CASE HostUp
  BY <1>5 DEF HostUp
<1>6. CASE RegisterCallback
  BY <1>6 DEF RegisterCallback
<1> QED
  BY <1>1, <1>2, <1>3, <1>4, <1>5, <1>6

LEMMA QuietHost ==
  ASSUME TypeOK, HostTask
  PROVE  Quiet
<1> USE BootAssumption DEF TypeOK, Quiet, flash, app, ota
<1>1. CASE OnSync
  BY <1>1 DEF OnSync
<1>2. CASE OnConnect
  BY <1>2 DEF OnConnect
<1>3. CASE OnConnectFailed
  BY <1>3 DEF OnConnectFailed
<1>4. CASE OnDisconnect
  BY <1>4 DEF OnDisconnect
<1>5. CASE OnAdvComplete
  BY <1>5 DEF OnAdvComplete
<1> QED
  BY <1>1, <1>2, <1>3, <1>4, <1>5 DEF HostTask

LEMMA QuietWorld ==
  ASSUME TypeOK, World, ~SectorAcked
  PROVE  Quiet
<1> USE BootAssumption DEF TypeOK, Quiet, flash, app, ota
<1>1. CASE CentralConnects
  BY <1>1 DEF CentralConnects
<1>2. CASE LinkLost
  BY <1>2 DEF LinkLost
<1>3. CASE AdvertisingEnds
  BY <1>3 DEF AdvertisingEnds
<1>4. CASE StackReset
  BY <1>4 DEF StackReset
<1>5. CASE \E c \in Chars : Subscribe(c)
  BY <1>5 DEF Subscribe
<1>6. CASE Start
  BY <1>6 DEF Start
<1> QED
  BY <1>1, <1>2, <1>3, <1>4, <1>5, <1>6 DEF World

(* So every step is a quiet one, one of six, or none at all. *)
LEMMA Steps ==
  ASSUME TypeOK, [Next]_vars
  PROVE  Quiet \/ Boot \/ Confirmed \/ RolledBack \/ SectorAcked \/ Activate \/ PowerFails
<1>1. CASE Next
  BY <1>1, QuietMain, QuietHost, QuietWorld DEF Next, AppMain
<1>2. CASE UNCHANGED vars
  BY <1>2 DEF vars, flash, app, ota, Quiet, TypeOK
<1> QED
  BY <1>1, <1>2

-----------------------------------------------------------------------------
LEMMA DownTypes ==
  ASSUME TypeOK, Down
  PROVE  /\ running' \in Slot /\ main' \in MainState
         /\ unmarked' \in BOOLEAN /\ fwCb' \in BOOLEAN
         /\ acked' \in 0 .. Sectors /\ stored' \in 0 .. Sectors
<1>1. running' \in Slot /\ unmarked' \in BOOLEAN
  BY DEF TypeOK, Down
<1>2. main' \in MainState
  BY DEF Down, MainState
<1>3. fwCb' \in BOOLEAN
  BY Zenon DEF Down
<1>4. acked' \in 0 .. Sectors /\ stored' \in 0 .. Sectors
  BY BootAssumption DEF Down
<1> QED
  BY <1>1, <1>2, <1>3, <1>4

LEMMA TypeStep ==
  ASSUME TypeOK, [Next]_vars
  PROVE  TypeOK'
<1> USE BootAssumption DEF TypeOK
<1>1. CASE Quiet
  BY <1>1 DEF Quiet
<1>2. CASE Boot
  <2>1. running' \in Slot
    BY <1>2, BootedIsSlot DEF Boot, Booted
  <2>2. entry' \in [Slot -> EntryState]
    BY <1>2, <2>1 DEF Boot, Tried, EntryState
  <2> QED
    BY <1>2, <2>1, <2>2 DEF Boot, MainState, ota
<1>3. CASE Confirmed
  <2>1. entry' \in [Slot -> EntryState]
    BY <1>3 DEF Confirmed, EntryState
  <2>2. main' \in MainState
    BY <1>3 DEF Confirmed, Goes, MainState
  <2> QED
    BY <1>3, <2>1, <2>2 DEF Confirmed, Goes, ota
<1>4. CASE RolledBack
  <2>1. entry' \in [Slot -> EntryState]
    BY <1>4 DEF RolledBack, EntryState
  <2> QED
    BY <1>4, <2>1, DownTypes DEF RolledBack
<1>5. CASE SectorAcked
  <2>1. Other(running) \in Slot
    BY TwoSlots
  <2>2. acked' \in 0 .. Sectors /\ stored' \in 0 .. Sectors
    BY <1>5 DEF Target, SectorAcked, Stores
  <2>3. image' \in [Slot -> {"none", "partial", "whole"}] /\ convicted' \subseteq Slot
    BY <1>5, <2>1 DEF Target, SectorAcked
  <2> QED
    BY <1>5, <2>2, <2>3 DEF Target, SectorAcked, app
<1>6. CASE Activate
  <2>1. Other(running) \in Slot
    BY TwoSlots
  <2>2. entry' \in [Slot -> EntryState] /\ latest' \in Slot
    BY <1>6, <2>1 DEF Target, Activate, EntryState
  <2> QED
    BY <1>6, <2>2, DownTypes DEF Target, Activate
<1>7. CASE PowerFails
  BY <1>7, DownTypes DEF PowerFails, flash
<1> QED
  BY <1>1, <1>2, <1>3, <1>4, <1>5, <1>6, <1>7, Steps

LEMMA InitInvs ==
  ASSUME Init
  PROVE  TypeOK /\ BootInv
<1>1. TypeOK
  BY BootAssumption DEF Init, TypeOK, EntryState, MainState, Slot
<1>2. Booted = 0
  BY DEF Init, Booted, Selected, Usable, Tried, Slot, Other
<1>3. BootInv
  BY <1>2 DEF Init, BootInv, BootsNext, NewInv, PendingInv, RunningInv, TransferInv, Slot
<1> QED
  BY <1>1, <1>3

(* The state and the progress of the device always have their types. *)
THEOREM TypeCorrect == Spec => []TypeOK
<1>1. Init => TypeOK
  BY InitInvs
<1>2. TypeOK /\ [Next]_vars => TypeOK'
  BY TypeStep
<1> QED
  BY <1>1, <1>2, PTL DEF Spec

-----------------------------------------------------------------------------
(* What a boot selects follows from otadata alone. *)
LEMMA SameBooted ==
  ASSUME UNCHANGED <<entry, latest>>
  PROVE  Booted' = Booted
BY DEF Booted, Selected, Usable, Tried

LEMMA QuietKeeps ==
  ASSUME TypeOK, BootInv, Quiet
  PROVE  BootInv'
<1>1. Booted' = Booted
  BY SameBooted DEF Quiet
<1>2. \A s \in Slot : HasFallback(s)' <=> HasFallback(s)
  BY DEF HasFallback, Quiet
<1>3. BootsNext' /\ NewInv' /\ PendingInv' /\ RunningInv'
  BY <1>1, <1>2 DEF Quiet, BootInv, BootsNext, NewInv, PendingInv, RunningInv
<1>4. TransferInv'
  BY BootAssumption DEF Quiet, BootInv, TransferInv, TypeOK
<1> QED
  BY <1>3, <1>4 DEF BootInv

LEMMA PowerFailsKeeps ==
  ASSUME TypeOK, BootInv, PowerFails
  PROVE  BootInv'
<1>1. /\ UNCHANGED <<entry, latest, image, convicted, running>>
      /\ main' = "off" /\ fwCb' = FALSE /\ stored' = 0
  BY DEF PowerFails, Down, flash
<1>2. Booted' = Booted
  BY <1>1, SameBooted
<1>3. \A s \in Slot : HasFallback(s)' <=> HasFallback(s)
  BY <1>1 DEF HasFallback
<1> QED
  BY <1>1, <1>2, <1>3 DEF BootInv, BootsNext, NewInv, PendingInv, RunningInv, TransferInv

(* The boot loader starts the image that BootsNext speaks of: a new one goes on
   trial, with the other to fall back on; a trial that was cut off is over.      *)
LEMMA BootKeeps ==
  ASSUME TypeOK, BootInv, Boot
  PROVE  BootInv'
<1>1. PICK s \in Slot : s = Booted
  BY BootedIsSlot DEF TypeOK
<1>2. /\ main = "off" /\ main' = "nvs" /\ running' = s
      /\ UNCHANGED <<latest, image, fwCb, stored>>
      /\ convicted' = convicted \cup {t \in Slot : entry[t] = "pending"}
  BY <1>1 DEF Boot, Booted, ota
<1>3. stored = 0 /\ fwCb = FALSE
  BY <1>2 DEF BootInv, TransferInv, TypeOK
<1>4. image[s] = "whole" /\ s \notin convicted' /\ entry[s] \in {"none", "new", "valid"}
  BY <1>1, <1>2 DEF BootInv, BootsNext
<1>5. /\ entry'[s] = IF entry[s] = "new" THEN "pending" ELSE "valid"
      /\ entry'[Other(s)] = IF entry[Other(s)] = "pending" THEN "aborted" ELSE entry[Other(s)]
      /\ \A t \in Slot : t = s \/ t = Other(s)
  BY <1>1, <1>4, TwoSlots DEF Boot, Booted, Tried, TypeOK
<1>6. CASE entry[s] = "new"
  <2>1. latest = s /\ HasFallback(s)
    BY <1>1, <1>6 DEF BootInv, NewInv
  <2>2. entry'[s] = "pending" /\ entry'[Other(s)] = "valid"
    BY <1>5, <1>6, <2>1 DEF HasFallback
  <2>3. Other(s) \notin convicted'
    BY <1>2, <2>1, <1>1, TwoSlots DEF HasFallback
  <2>4. HasFallback(s)'
    BY <1>2, <2>1, <2>2, <2>3 DEF HasFallback
  <2>5. Booted' = Other(s)
    <3>1. Tried'[s] = "aborted" /\ Tried'[Other(s)] = "valid"
      BY <1>1, <2>2, TwoSlots DEF Tried
    <3>2. ~Usable(Tried', s) /\ Usable(Tried', Other(s)) /\ latest' = s
      BY <1>2, <2>1, <3>1 DEF Usable
    <3> QED
      BY <3>2 DEF Booted, Selected
  <2>6. BootsNext'
    BY <1>2, <2>1, <2>2, <2>3, <2>5 DEF BootsNext, HasFallback
  <2>7. NewInv' /\ PendingInv'
    BY <1>2, <1>5, <2>1, <2>2, <2>4 DEF NewInv, PendingInv
  <2>8. RunningInv'
    BY <1>2, <1>4, <2>2 DEF RunningInv
  <2> QED
    BY <1>2, <1>3, <2>6, <2>7, <2>8 DEF BootInv, TransferInv
<1>7. CASE entry[s] # "new"
  <2>1. entry'[s] = "valid"
    BY <1>5, <1>7
  <2>2. entry[Other(s)] # "new"
    <3>1. SUFFICES ASSUME entry[Other(s)] = "new" PROVE FALSE
      OBVIOUS
    <3>2. latest = Other(s)
      BY <1>1, <3>1, TwoSlots DEF BootInv, NewInv
    <3>3. Booted = Other(s)
      BY <1>1, <3>1, <3>2, TwoSlots DEF Booted, Selected, Usable, Tried
    <3> QED
      BY <1>1, <3>3, TwoSlots
  <2>3. entry'[Other(s)] \notin {"new", "pending"}
    BY <1>5, <2>2
  <2>4. latest = s \/ entry'[Other(s)] # "valid"
    <3>1. SUFFICES ASSUME latest # s, entry[Other(s)] = "valid" PROVE FALSE
      BY <1>5
    <3>2. latest = Other(s)
      BY <1>1, <3>1, TwoSlots DEF TypeOK
    <3>3. Booted = Other(s)
      BY <1>1, <3>1, <3>2, TwoSlots DEF Booted, Selected, Usable, Tried
    <3> QED
      BY <1>1, <3>3, TwoSlots
  <2>5. Booted' = s
    <3>1. Tried'[s] = "valid" /\ Tried'[Other(s)] = entry'[Other(s)]
      BY <1>1, <2>1, <2>3, TwoSlots DEF Tried
    <3>2. latest' = s \/ (latest' = Other(s) /\ ~Usable(Tried', Other(s)))
      BY <1>1, <1>2, <2>3, <2>4, <3>1, TwoSlots DEF TypeOK, Usable
    <3>3. Usable(Tried', s)
      BY <3>1 DEF Usable
    <3> QED
      BY <1>1, <3>2, <3>3, TwoSlots DEF Booted, Selected
  <2>6. BootsNext' /\ NewInv' /\ PendingInv' /\ RunningInv'
    BY <1>2, <1>4, <1>5, <2>1, <2>3, <2>5 DEF BootsNext, NewInv, PendingInv, RunningInv
  <2> QED
    BY <1>2, <1>3, <2>6 DEF BootInv, TransferInv
<1> QED
  BY <1>6, <1>7

(* A confirmed image is the one that boots from now on. *)
LEMMA ConfirmedKeeps ==
  ASSUME TypeOK, BootInv, Confirmed
  PROVE  BootInv'
<1>1. PICK s \in Slot : s = running
  BY DEF TypeOK
<1>2. /\ entry[s] = "pending" /\ main # "off" /\ main' = "transport"
      /\ entry' = [entry EXCEPT ![s] = "valid"]
      /\ UNCHANGED <<latest, image, convicted, running, fwCb, stored>>
  BY <1>1 DEF Confirmed, Goes, ota
<1>3. HasFallback(s) /\ latest = s /\ image[s] = "whole" /\ s \notin convicted
  BY <1>1, <1>2 DEF BootInv, PendingInv, RunningInv
<1>4. stored = 0
  BY <1>1, <1>2, BootAssumption DEF BootInv, TransferInv, TypeOK
<1>5. /\ entry'[s] = "valid" /\ entry'[Other(s)] = "valid"
      /\ \A t \in Slot : t = s \/ t = Other(s)
  BY <1>2, <1>3, TwoSlots DEF TypeOK, HasFallback
<1>6. Booted' = s
  BY <1>2, <1>3, <1>5 DEF Booted, Selected, Usable, Tried
<1>7. BootsNext' /\ NewInv' /\ PendingInv' /\ RunningInv'
  BY <1>1, <1>2, <1>3, <1>5, <1>6 DEF BootsNext, NewInv, PendingInv, RunningInv
<1> QED
  BY <1>2, <1>4, <1>7, BootAssumption DEF BootInv, TransferInv

(* An image that is rolled back leaves the other, which was never touched. *)
LEMMA RolledBackKeeps ==
  ASSUME TypeOK, BootInv, RolledBack
  PROVE  BootInv'
<1>1. PICK s \in Slot : s = running
  BY DEF TypeOK
<1>2. /\ entry[s] = "pending" /\ main # "off" /\ main' = "off"
      /\ entry' = [entry EXCEPT ![s] = "invalid"] /\ convicted' = convicted \cup {s}
      /\ UNCHANGED <<latest, image, running>> /\ fwCb' = FALSE /\ stored' = 0
  BY <1>1 DEF RolledBack, Down
<1>3. HasFallback(s) /\ latest = s
  BY <1>1, <1>2 DEF BootInv, PendingInv
<1>4. /\ entry'[s] = "invalid" /\ entry'[Other(s)] = "valid"
      /\ \A t \in Slot : t = s \/ t = Other(s)
  BY <1>2, <1>3, TwoSlots DEF TypeOK, HasFallback
<1>5. Booted' = Other(s)
  <2>1. Tried'[s] = "invalid" /\ Tried'[Other(s)] = "valid"
    BY <1>4, TwoSlots DEF Tried
  <2> QED
    BY <1>2, <1>3, <2>1 DEF Booted, Selected, Usable
<1>6. BootsNext'
  BY <1>2, <1>3, <1>4, <1>5, TwoSlots DEF BootsNext, HasFallback
<1>7. NewInv' /\ PendingInv' /\ RunningInv' /\ TransferInv'
  BY <1>2, <1>4 DEF NewInv, PendingInv, RunningInv, TransferInv
<1> QED
  BY <1>6, <1>7 DEF BootInv

(* What a sector is written to is the slot that neither runs nor boots. *)
LEMMA SectorAckedKeeps ==
  ASSUME TypeOK, BootInv, SectorAcked
  PROVE  BootInv'
<1>1. PICK s \in Slot : s = running
  BY DEF TypeOK
<1>2. UNCHANGED <<entry, latest, running, main, fwCb>>
  BY DEF Target, SectorAcked, app
<1>3. Booted' = Booted
  BY <1>2, SameBooted
<1>4. CASE Stores
  <2>1. /\ main # "off" /\ entry[s] # "pending" /\ stored < Sectors
        /\ stored' = stored + 1 /\ convicted' = convicted \ {Other(s)}
        /\ image' = [image EXCEPT ![Other(s)] = IF stored' = Sectors THEN "whole" ELSE "partial"]
    BY <1>1, <1>4 DEF Target, SectorAcked, Stores, BootInv, TransferInv
  <2>2. /\ entry[s] = "valid" /\ Booted = s /\ image[s] = "whole" /\ s \notin convicted
    BY <1>1, <2>1 DEF BootInv, RunningInv
  <2>3. \A t \in Slot : entry[t] \notin {"new", "pending"}
    BY <1>1, <2>1, TwoSlots DEF BootInv, NewInv, PendingInv
  <2>4. /\ image'[s] = "whole" /\ s \notin convicted' /\ Other(s) \notin convicted'
        /\ stored' = Sectors => image'[Other(s)] = "whole"
    BY <2>1, <2>2, TwoSlots DEF TypeOK
  <2>5. BootsNext' /\ NewInv' /\ PendingInv'
    BY <1>2, <1>3, <2>2, <2>3, <2>4 DEF BootsNext, NewInv, PendingInv
  <2>6. RunningInv' /\ TransferInv'
    BY <1>1, <1>2, <1>3, <2>1, <2>2, <2>4 DEF RunningInv, TransferInv, BootInv
  <2> QED
    BY <2>5, <2>6 DEF BootInv
<1>5. CASE ~Stores
  <2>1. UNCHANGED <<stored, image, convicted>>
    BY <1>5 DEF Target, SectorAcked
  <2>2. \A t \in Slot : HasFallback(t)' <=> HasFallback(t)
    BY <1>2, <2>1 DEF HasFallback
  <2> QED
    BY <1>2, <1>3, <2>1, <2>2 DEF BootInv, BootsNext, NewInv, PendingInv, RunningInv, TransferInv
<1> QED
  BY <1>4, <1>5

(* An image is activated when all of it is stored, with a confirmed one running. *)
LEMMA ActivateKeeps ==
  ASSUME TypeOK, BootInv, Activate
  PROVE  BootInv'
<1>1. PICK s \in Slot : s = running
  BY DEF TypeOK
<1>2. PICK o \in Slot : o = Other(s) /\ s = Other(o) /\ o # s /\ \A t \in Slot : t = s \/ t = o
  BY TwoSlots
<1>3. /\ stored = Sectors /\ entry' = [entry EXCEPT ![o] = "new"] /\ latest' = o
      /\ main' = "off" /\ fwCb' = FALSE /\ stored' = 0
      /\ UNCHANGED <<image, convicted, running>>
  BY <1>1, <1>2 DEF Target, Activate, Down
<1>4. main # "off" /\ entry[s] = "valid" /\ o \notin convicted /\ image[o] = "whole"
  <2>1. stored > 0
    BY <1>3, BootAssumption
  <2>2. /\ main # "off" /\ entry[running] = "valid" /\ Other(running) \notin convicted
        /\ image[Other(running)] = "whole"
    BY <2>1, <1>3 DEF BootInv, TransferInv
  <2> QED
    BY <1>1, <1>2, <2>2
<1>5. image[s] = "whole" /\ s \notin convicted
  BY <1>1, <1>4 DEF BootInv, RunningInv
<1>6. entry'[o] = "new" /\ entry'[s] = "valid"
  BY <1>2, <1>3, <1>4 DEF TypeOK
<1>7. HasFallback(o)'
  BY <1>2, <1>3, <1>5, <1>6 DEF HasFallback
<1>8. Booted' = o
  <2>1. Tried'[o] = "new"
    BY <1>6 DEF Tried
  <2> QED
    BY <1>3, <2>1 DEF Booted, Selected, Usable
<1>9. BootsNext'
  BY <1>3, <1>4, <1>6, <1>8 DEF BootsNext
<1>10. \A t \in Slot : entry'[t] = "new" => t = o
  BY <1>2, <1>6
<1>11. NewInv'
  BY <1>3, <1>7, <1>10 DEF NewInv
<1>12. \A t \in Slot : entry'[t] # "pending"
  BY <1>2, <1>6
<1>13. PendingInv'
  BY <1>12 DEF PendingInv
<1>14. RunningInv' /\ TransferInv'
  BY <1>3 DEF RunningInv, TransferInv
<1> QED
  BY <1>9, <1>11, <1>13, <1>14 DEF BootInv

-----------------------------------------------------------------------------
(* Wherever the power fails, the states of the two slots stay such that a whole
   image that was not convicted boots next.                                    *)
THEOREM BootIsSound == Spec => []BootInv
<1>1. Init => TypeOK /\ BootInv
  BY InitInvs
<1>2. TypeOK /\ BootInv /\ [Next]_vars => BootInv'
  BY Steps, QuietKeeps, BootKeeps, ConfirmedKeeps, RolledBackKeeps, SectorAckedKeeps,
     ActivateKeeps, PowerFailsKeeps
<1> QED
  BY <1>1, <1>2, TypeCorrect, PTL DEF Spec

(* The image the boot loader would start next is always a whole one. *)
THEOREM ImageToBootIsWhole == Spec => []AlwaysBootable
<1>1. BootInv => AlwaysBootable
  BY DEF BootInv, BootsNext, AlwaysBootable, Booted
<1> QED
  BY <1>1, BootIsSound, PTL

(* An image that ended a trial unconfirmed does not run until it is sent again. *)
THEOREM ConvictedNeverRuns == Spec => []NoSecondTrial
<1>1. BootInv => NoSecondTrial
  BY DEF BootInv, RunningInv, NoSecondTrial
<1> QED
  BY <1>1, BootIsSound, PTL

(* Nothing touches the image to fall back on while another is on trial. *)
THEOREM FallbackStays == Spec => []TrialKeepsFallback
<1>1. TypeOK /\ BootInv => TrialKeepsFallback
  BY DEF TypeOK, BootInv, PendingInv, HasFallback, TrialKeepsFallback
<1> QED
  BY <1>1, TypeCorrect, BootIsSound, PTL

(* Only an image that was stored to its last sector becomes the one to boot. *)
THEOREM WholeTransferActivated == Spec => OnlyWholeTransferActivated
<1>1. TypeOK /\ BootInv /\ [Next]_vars
        => [latest' # latest => stored = Sectors /\ image[latest'] = "whole"]_vars
  <2>1. SUFFICES ASSUME TypeOK, BootInv, [Next]_vars, latest' # latest
                 PROVE  stored = Sectors /\ image[latest'] = "whole"
    OBVIOUS
  <2>2. Activate
    BY <2>1, Steps DEF Quiet, Boot, Confirmed, RolledBack, SectorAcked, PowerFails, flash
  <2>3. stored = Sectors /\ latest' = Other(running)
    BY <2>2 DEF Target, Activate
  <2> QED
    BY <2>1, <2>3, BootAssumption DEF BootInv, TransferInv
<1> QED
  BY <1>1, TypeCorrect, BootIsSound, PTL DEF Spec, OnlyWholeTransferActivated

-----------------------------------------------------------------------------
(* Subscriptions *)

(* A step that leaves the link, its events and the subscriptions alone *)
LEMMA SilentNotify ==
  ASSUME NotifyInv, UNCHANGED <<link, events, handles, cccd, ntfEnable>>
  PROVE  NotifyInv'
BY DEF NotifyInv, ConnectDue

(* A restart leaves neither a link nor a subscription. *)
LEMMA DownNotify == ASSUME Down PROVE NotifyInv'
BY DEF Down, NotifyInv, ConnectDue

(* An event heard is handled after those that wait. *)
LEMMA HeardKeeps ==
  ASSUME NotifyInv, NEW e \in GapEvent, Heard(e)
  PROVE  /\ events' \in Seq(GapEvent)
         /\ ConnectDue => ConnectDue'
         /\ e = "connect" => ConnectDue'
<1>1. events \in Seq(GapEvent) /\ Len(events) \in Nat /\ events' = Append(events, e)
  BY DEF NotifyInv, Heard
<1>2. /\ events' \in Seq(GapEvent) /\ Len(events') = Len(events) + 1
      /\ \A i \in 1 .. Len(events) : events'[i] = events[i]
      /\ events'[Len(events) + 1] = e
  BY <1>1, AppendProperties
<1>3. ASSUME ConnectDue PROVE ConnectDue'
  <2>1. PICK i \in 1 .. Len(events) : events[i] = "connect"
    BY <1>3 DEF ConnectDue
  <2>2. i \in 1 .. Len(events') /\ events'[i] = "connect"
    BY <1>1, <1>2, <2>1
  <2> QED
    BY <2>2 DEF ConnectDue
<1>4. ASSUME e = "connect" PROVE ConnectDue'
  <2>1. Len(events) + 1 \in 1 .. Len(events')
    BY <1>1, <1>2
  <2> QED
    BY <1>2, <1>4, <2>1 DEF ConnectDue
<1> QED
  BY <1>2, <1>3, <1>4

(* The event handled was the first; a connect among the others still waits. *)
LEMMA EventKeeps ==
  ASSUME NotifyInv, NEW e, Event(e)
  PROVE  /\ events' \in Seq(GapEvent)
         /\ ConnectDue /\ e # "connect" => ConnectDue'
<1>1. events \in Seq(GapEvent) /\ events # <<>> /\ Head(events) = e /\ events' = Tail(events)
  BY DEF NotifyInv, Event
<1>2. /\ events' \in Seq(GapEvent) /\ Len(events') = Len(events) - 1 /\ Len(events) \in Nat
      /\ events[1] = e /\ \A i \in 1 .. Len(events') : events'[i] = events[i + 1]
  BY <1>1, HeadTailProperties
<1>3. ASSUME ConnectDue, e # "connect" PROVE ConnectDue'
  <2>1. PICK i \in 1 .. Len(events) : events[i] = "connect"
    BY <1>3 DEF ConnectDue
  <2>2. i - 1 \in 1 .. Len(events')
    BY <1>2, <1>3, <2>1
  <2>3. events'[i - 1] = "connect"
    BY <1>2, <2>1, <2>2
  <2> QED
    BY <2>2, <2>3 DEF ConnectDue
<1> QED
  BY <1>2, <1>3

(* The controller and the client *)
LEMMA WorldNotify == ASSUME NotifyInv, World PROVE NotifyInv'
<1>1. CASE CentralConnects
  <2>1. CASE link' = TRUE /\ Heard("connect")
    <3>1. events' \in Seq(GapEvent) /\ ConnectDue'
      BY <2>1, HeardKeeps DEF GapEvent
    <3> QED
      BY <1>1, <3>1 DEF CentralConnects, NotifyInv, gatt
  <2>2. CASE link' = FALSE /\ Heard("connectFailed")
    <3>1. events' \in Seq(GapEvent)
      BY <2>2, HeardKeeps DEF GapEvent
    <3> QED
      BY <1>1, <2>2, <3>1 DEF CentralConnects, NotifyInv, gatt
  <2> QED
    BY <1>1, <2>1, <2>2 DEF CentralConnects
<1>2. CASE LinkLost
  <2>1. events' \in Seq(GapEvent)
    BY <1>2, HeardKeeps DEF LinkLost, GapEvent
  <2> QED
    BY <1>2, <2>1 DEF LinkLost, NotifyInv, gatt
<1>3. CASE AdvertisingEnds
  <2>1. events' \in Seq(GapEvent) /\ (ConnectDue => ConnectDue')
    BY <1>3, HeardKeeps DEF AdvertisingEnds, GapEvent
  <2> QED
    BY <1>3, <2>1 DEF AdvertisingEnds, NotifyInv, gatt
<1>4. CASE StackReset
  <2> DEFINE a == IF link THEN <<"disconnect">> ELSE <<>>
             b == IF advertising THEN <<"advComplete">> ELSE <<>>
  <2>1. events \in Seq(GapEvent) /\ a \in Seq(GapEvent) /\ b \in Seq(GapEvent)
    <3>1. "disconnect" \in GapEvent /\ "advComplete" \in GapEvent
      BY DEF GapEvent
    <3>2. a \in Seq(GapEvent)
      BY <3>1
    <3>3. b \in Seq(GapEvent)
      BY <3>1
    <3> QED
      BY <3>2, <3>3 DEF NotifyInv
  <2>2. events' = (events \o a) \o b /\ link' = FALSE /\ UNCHANGED <<handles, cccd, ntfEnable>>
    BY <1>4 DEF StackReset, gatt
  <2> HIDE DEF a, b
  <2>3. events \o a \in Seq(GapEvent)
    BY <2>1, ConcatProperties
  <2>4. events' \in Seq(GapEvent)
    BY <2>1, <2>2, <2>3, ConcatProperties
  <2> QED
    BY <2>2, <2>4 DEF NotifyInv
<1>5. CASE \E c \in Chars : Subscribe(c)
  <2>1. PICK c \in Chars : Subscribe(c)
    BY <1>5
  <2>2. link /\ events = <<>> /\ UNCHANGED <<link, events, handles>>
    BY <2>1 DEF Subscribe, Connected, gap
  <2>3. handles
    <3>1. ~ConnectDue
      BY <2>2 DEF ConnectDue
    <3> QED
      BY <2>2, <3>1 DEF NotifyInv
  <2>4. cccd' \subseteq ntfEnable'
    BY <2>1, <2>3 DEF Subscribe, Known, NotifyInv
  <2> QED
    BY <2>2, <2>3, <2>4 DEF NotifyInv
<1>6. CASE Start
  BY <1>6, SilentNotify DEF Start, gap, gatt
<1>7. CASE SectorAcked
  BY <1>7, SilentNotify DEF Target, SectorAcked, gap, gatt
<1> QED
  BY <1>1, <1>2, <1>3, <1>4, <1>5, <1>6, <1>7 DEF World

(* The events of the host task *)
LEMMA HostNotify == ASSUME NotifyInv, HostTask PROVE NotifyInv'
<1>1. CASE OnSync
  BY <1>1, SilentNotify DEF OnSync, gatt
<1>2. CASE OnConnect
  <2>1. events' \in Seq(GapEvent)
    BY <1>2, EventKeeps DEF OnConnect
  <2> QED
    BY <1>2, <2>1 DEF OnConnect, FillHandleTable, NotifyInv
<1>3. CASE OnConnectFailed
  <2>1. events' \in Seq(GapEvent)
    BY <1>3, EventKeeps DEF OnConnectFailed
  <2> QED
    BY <1>3, <2>1 DEF OnConnectFailed, FillHandleTable, NotifyInv
<1>4. CASE OnDisconnect
  <2>1. events' \in Seq(GapEvent) /\ (ConnectDue => ConnectDue')
    BY <1>4, EventKeeps DEF OnDisconnect
  <2> QED
    BY <1>4, <2>1 DEF OnDisconnect, NotifyInv
<1>5. CASE OnAdvComplete
  <2>1. events' \in Seq(GapEvent) /\ (ConnectDue => ConnectDue')
    BY <1>5, EventKeeps DEF OnAdvComplete
  <2> QED
    BY <1>5, <2>1 DEF OnAdvComplete, NotifyInv, gatt
<1> QED
  BY <1>1, <1>2, <1>3, <1>4, <1>5 DEF HostTask

(* Whatever connections and resets came before, a client that could subscribe is
   one whose handles are known, so it is notified.                              *)
THEOREM SubscribersHear == Spec => []SubscriberIsNotified
<1>1. Init => NotifyInv
  BY DEF Init, NotifyInv, ConnectDue
<1>2. NotifyInv /\ [Next]_vars => NotifyInv'
  <2> SUFFICES ASSUME NotifyInv, [Next]_vars PROVE NotifyInv'
    OBVIOUS
  <2>1. CASE World
    BY <2>1, WorldNotify
  <2>2. CASE HostTask
    BY <2>2, HostNotify
  <2>3. CASE Boot
    BY <2>3, SilentNotify DEF Boot, gap, gatt
  <2>4. CASE AppMain
    <3>1. CASE RolledBack
      BY <3>1, DownNotify DEF RolledBack
    <3>2. CASE ~RolledBack
      BY <2>4, <3>2, SilentNotify DEF AppMain, NvsReady, NothingToConfirm, Confirmed,
         RollbackFails, TransportUp, HostUp, RegisterCallback, gap, gatt
    <3> QED
      BY <3>1, <3>2
  <2>5. CASE Activate \/ PowerFails
    BY <2>5, DownNotify DEF Target, Activate, PowerFails
  <2>6. CASE UNCHANGED vars
    BY <2>6, SilentNotify DEF vars, gap, gatt
  <2> QED
    BY <2>1, <2>2, <2>3, <2>4, <2>5, <2>6 DEF Next
<1>3. NotifyInv => SubscriberIsNotified
  BY DEF NotifyInv, SubscriberIsNotified, Notifies
<1> QED
  BY <1>1, <1>2, <1>3, PTL DEF Spec
-----------------------------------------------------------------------------
(* The boot loader and app_main keep their side of BootSlots. *)

Whole == {s \in Slot : image[s] = "whole"}

(* At power-on the factory image runs, from slot 0, and nothing else is whole. *)
LEMMA SlotsInit == Init => Flash!Init
BY DEF Init, Flash!Init, Slot

(* A transfer writes the slot that is not running, whole or not. *)
LEMMA SectorRewrites ==
  ASSUME TypeOK, SectorAcked
  PROVE  [Flash!Next]_Flash!vars
<1>1. UNCHANGED <<running, latest>>
  BY DEF SectorAcked, app
<1>2. CASE Stores
  <2>1. PICK o \in Slot : o = Other(running) /\ o # running
    BY TwoSlots DEF TypeOK
  <2>2. \E v : image' = [image EXCEPT ![o] = v]
    BY <1>2, <2>1 DEF Target, SectorAcked
  <2>3. Whole' = Whole \cup {o} \/ Whole' = Whole \ {o}
    BY <2>1, <2>2 DEF Whole, TypeOK
  <2> QED
    BY <1>1, <2>1, <2>3 DEF Whole, Flash!Next, Flash!Rewrite
<1>3. CASE ~Stores
  BY <1>1, <1>3 DEF SectorAcked, Flash!vars
<1> QED
  BY <1>2, <1>3

(* Every step is one of BootSlots, or none of its concern. *)
LEMMA SlotsStep ==
  ASSUME TypeOK, BootInv, [Next]_vars
  PROVE  [Flash!Next]_Flash!vars
<1>1. CASE Quiet \/ Confirmed \/ RolledBack \/ PowerFails
  <2>1. UNCHANGED <<image, running, latest>>
    BY <1>1 DEF Quiet, Confirmed, Goes, RolledBack, PowerFails, Down, flash
  <2> QED
    BY <2>1 DEF Flash!vars
<1>2. CASE Boot
  <2>1. running' = Booted /\ UNCHANGED <<image, latest>>
    BY <1>2 DEF Boot, Booted
  <2>2. Booted \in Slot /\ image[Booted] = "whole"
    BY BootedIsSlot DEF TypeOK, BootInv, BootsNext
  <2> QED
    BY <2>1, <2>2 DEF Flash!Next, Flash!Restart
<1>3. CASE SectorAcked
  BY <1>3, SectorRewrites
<1>4. CASE Activate
  <2>1. stored = Sectors /\ latest' = Other(running) /\ UNCHANGED <<image, running>>
    BY <1>4 DEF Target, Activate, Down
  <2>2. stored > 0
    BY <2>1, BootAssumption
  <2>3. Other(running) \in Slot \ {running} /\ image[Other(running)] = "whole"
    BY <2>1, <2>2, TwoSlots DEF TypeOK, BootInv, TransferInv
  <2> QED
    BY <2>1, <2>3 DEF Flash!Next, Flash!Choose
<1> QED
  BY <1>1, <1>2, <1>3, <1>4, Steps

(* Whatever trials, rollbacks, power failures and unwritable marks come before: the
   device starts whole images only, writes only the slot that is not running, and
   points otadata at whole images: what OtaSink takes for granted of a restart.      *)
THEOREM BootImplementsSlots == Spec => BootsWhole
<1>1. Init => Flash!Init
  BY SlotsInit
<1>2. TypeOK /\ BootInv /\ [Next]_vars => [Flash!Next]_Flash!vars
  BY SlotsStep
<1> QED
  BY <1>1, <1>2, TypeCorrect, BootIsSound, PTL DEF Spec, BootsWhole, Flash!Spec
=============================================================================
