---------------------------- MODULE MCDeviceBoot ----------------------------
(* Images of two sectors; the firmware and the command characteristic. *)
EXTENDS DeviceBoot
=============================================================================
