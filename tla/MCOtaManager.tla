---------------------------- MODULE MCOtaManager ----------------------------
(* Two tasks, all versions of the security in the build, two added endpoints *)
EXTENDS OtaManager
=============================================================================
