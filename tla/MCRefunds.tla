----------------------------- MODULE MCRefunds -----------------------------
(* Small instances of Refunds for TLC. *)
EXTENDS Refunds

CONSTANTS t1, t2, l1, l2
=============================================================================
