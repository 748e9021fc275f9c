---------------------------- MODULE OtaSession -----------------------------
(***************************************************************************)
(* What the sink promises, with no mutex, handle, slot, NVS or deferred     *)
(* abort: there is at most one update session, it only ever grows, it can   *)
(* be dropped at any moment and then never returns, and an image becomes    *)
(* the one to boot only after a session that was alive from its first unit  *)
(* to the decision was found to hold a valid image.  The image that ships   *)
(* is then exactly what that session had accepted.                          *)
(***************************************************************************)
EXTENDS Naturals, Sequences

CONSTANTS Data, Images, FactoryImage

VARIABLES
  cur,      \* the session alive, 0 when there is none
  last,     \* the last session number given out since power-up
  phase,    \* how far cur has come
  got,      \* the units cur has accepted
  outbox,   \* <<image>> between the decision to ship it and its outcome
  shipped   \* the image last made the one to boot

vars == <<cur, last, phase, got, outbox, shipped>>

Init ==
  /\ cur = 0 /\ last = 0 /\ phase = "none" /\ got = <<>>
  /\ outbox = <<>> /\ shipped = FactoryImage

Open ==
  /\ cur = 0 /\ outbox = <<>>
  /\ cur' = last + 1 /\ last' = last + 1
  /\ phase' = "receiving" /\ got' = <<>>
  /\ UNCHANGED <<outbox, shipped>>

Accept ==
  /\ phase = "receiving"
  /\ Len(got') > Len(got) /\ SubSeq(got', 1, Len(got)) = got
  /\ UNCHANGED <<cur, last, phase, outbox, shipped>>

Seal ==
  /\ phase = "receiving" /\ got \in Images
  /\ phase' = "sealed"
  /\ UNCHANGED <<cur, last, got, outbox, shipped>>

Drop ==
  /\ cur # 0
  /\ cur' = 0 /\ phase' = "none" /\ got' = <<>>
  /\ UNCHANGED <<last, outbox, shipped>>

Decide ==
  /\ phase = "sealed"
  /\ phase' = "shipping" /\ outbox' = <<got>>
  /\ UNCHANGED <<cur, last, got, shipped>>

Ship ==
  /\ outbox # <<>>
  /\ shipped' = outbox[1] /\ outbox' = <<>>
  /\ UNCHANGED <<cur, last, phase, got>>

ShipFails ==
  /\ outbox # <<>>
  /\ outbox' = <<>>
  /\ phase' = IF cur # 0 THEN "sealed" ELSE phase
  /\ UNCHANGED <<cur, last, got, shipped>>

PowerCycle ==
  /\ cur' = 0 /\ last' = 0 /\ phase' = "none" /\ got' = <<>> /\ outbox' = <<>>
  /\ UNCHANGED shipped

Next == Open \/ Accept \/ Seal \/ Drop \/ Decide \/ Ship \/ ShipFails \/ PowerCycle

Spec == Init /\ [][Next]_vars
=============================================================================
