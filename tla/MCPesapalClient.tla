--------------------------- MODULE MCPesapalClient ---------------------------
(* Small instances of PesapalClient for TLC. *)
EXTENDS PesapalClient, TLC

CONSTANTS a1, a2, i1, c1, c2

CallSymmetry == Permutations(Calls)
=============================================================================
