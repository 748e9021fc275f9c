----------------------------- MODULE BootSlots ------------------------------
(***************************************************************************)
(* What the flash writer and the boot loader rely on each other for, with   *)
(* the two OTA slots and nothing else: the device runs a whole image that   *)
(* nobody writes over, it is only ever pointed at another whole image, and  *)
(* whenever it restarts, from whatever instant, it starts a whole image.    *)
(***************************************************************************)
CONSTANT Slots

VARIABLES
  whole,    \* the slots that hold a complete image
  running,  \* the slot of the running image
  chosen    \* the slot otadata names

vars == <<whole, running, chosen>>

Init == whole \subseteq Slots /\ running \in whole /\ chosen = running

(* A slot is erased, or its last byte is written; never the running one. *)
Rewrite ==
  /\ \E s \in Slots \ {running} : whole' \in {whole \cup {s}, whole \ {s}}
  /\ UNCHANGED <<running, chosen>>

Choose ==
  /\ chosen' \in whole \ {running}
  /\ UNCHANGED <<whole, running>>

Restart ==
  /\ running' \in whole
  /\ UNCHANGED <<whole, chosen>>

Next == Rewrite \/ Choose \/ Restart

Spec == Init /\ [][Next]_vars
=============================================================================
