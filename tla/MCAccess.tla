------------------------------ MODULE MCAccess ------------------------------
(* Small instances of Access for TLC. *)
EXTENDS Access, TLC

CONSTANTS c1, u1, d1, d2, x1, h1, h2

(* The voucher's plan lasts two units, the subscription's one. *)
TwoAndOne == [n \in Names |-> IF n \in Codes THEN 2 ELSE 1]

(* Handlers are interchangeable, and so are the phones. *)
Slots == Permutations(Handlers) \cup Permutations(Phones)
=============================================================================
