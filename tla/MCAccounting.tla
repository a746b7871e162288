---------------------------- MODULE MCAccounting ----------------------------
(* Small instances of Accounting for TLC. *)
EXTENDS Accounting, TLC

CONSTANTS s1, h1, h2, h3

(* Handlers are interchangeable. *)
Slots == Permutations(Handlers)
=============================================================================
