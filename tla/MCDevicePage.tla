---------------------------- MODULE MCDevicePage ----------------------------
(* Small instances of DevicePage for TLC. *)
EXTENDS DevicePage

CONSTANTS d1, d2, q1, q2
=============================================================================
