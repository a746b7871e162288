---------------------------- MODULE MCRouterSetup ----------------------------
(* Small instances of RouterSetup for TLC. *)
EXTENDS RouterSetup

CONSTANTS d1, d2, a1
=============================================================================
