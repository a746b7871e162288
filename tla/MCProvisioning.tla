--------------------------- MODULE MCProvisioning ---------------------------
(* Small instances of Provisioning for TLC. *)
EXTENDS Provisioning, TLC

CONSTANTS d1, d2, r1, c1, c2, w1, w2

(* Rows, calls and syncs are interchangeable. *)
Symmetric == Permutations(Devices) \cup Permutations(Calls)
=============================================================================
