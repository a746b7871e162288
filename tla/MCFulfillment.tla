--------------------------- MODULE MCFulfillment ---------------------------
(* Small instances of Fulfillment for TLC. *)
EXTENDS Fulfillment, TLC

CONSTANTS t1, t2, w1, w2, w3, p1, p2, a1, a2, c1, c2

(* One customer buys everything and owns every account. *)
OneBuyer == [t \in Txns |-> p1]
OneOwner == [a \in Accounts |-> p1]

SweepAndBack == w1 :> "sweep" @@ w2 :> "return" @@ w3 :> "resume"
ThreeRacers == w1 :> "ipn" @@ w2 :> "status" @@ w3 :> "sweep"

CodeSymmetry == Permutations(Codes)
=============================================================================
