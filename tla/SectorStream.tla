---------------------------- MODULE SectorStream ----------------------------
(***************************************************************************)
(* What the component promises the transport, with no packets, buffer or    *)
(* sequence numbers: between a Start and a Stop, an image arrives sector by *)
(* sector, from its first, each whole; every answer to the sender says      *)
(* which sector has just been taken or which one is needed.  BleTransport   *)
(* is written against this.                                                 *)
(***************************************************************************)
EXTENDS Naturals, Sequences

CONSTANTS Sectors, SectorData(_)

VARIABLES open, got, reply
vars == <<open, got, reply>>

Init == open = FALSE /\ got = <<>> /\ reply = <<>>

Open == open' = TRUE /\ got' = <<>> /\ reply' = <<>>

Take ==
  /\ open /\ Len(got) < Sectors
  /\ got' = Append(got, SectorData(Len(got)))
  /\ reply' = <<"taken", Len(got)>>
  /\ UNCHANGED open

Ask ==
  /\ open
  /\ reply' = <<"needed", Len(got)>>
  /\ UNCHANGED <<open, got>>

Silence == reply' = <<>> /\ UNCHANGED <<open, got>>

Close == open' = FALSE /\ reply' = <<>> /\ UNCHANGED got

Next == Open \/ Take \/ Ask \/ Silence \/ Close

Spec == Init /\ [][Next]_vars
=============================================================================
