------------------------------- MODULE MCTeam -------------------------------
(* Small instances of Team for TLC. *)
EXTENDS Team, TLC

CONSTANTS a1, a2, a3, r1, r2

(* Accounts and calls are interchangeable. *)
Symmetric == Permutations(Visitors) \cup Permutations(Accounts \ Visitors) \cup Permutations(Requests)
=============================================================================
