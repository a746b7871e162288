----------------------------- MODULE Membership -----------------------------
(***************************************************************************)
(* What the team page promises, without accounts, calls or their steps:    *)
(* one organization is founded, people join it once and leave it for good, *)
(* and while changes of the team take turns an owner is always left.       *)
(***************************************************************************)
CONSTANTS Accounts, NoAccount

VARIABLES
    organizations,  \* none, or the one, named by its founder
    admin,          \* the organization and role of each member
    left,           \* who was a member once
    raced           \* changes have overlapped

mvars == <<organizations, admin, left, raced>>

NoRow == [org |-> NoAccount, role |-> "none"]
IsOwner(a) == \E o \in organizations : admin[a] = [org |-> o, role |-> "owner"]

Init ==
    /\ organizations = {} /\ left = {} /\ raced = FALSE
    /\ admin = [a \in Accounts |-> NoRow]

IsNew(a) == admin[a] = NoRow /\ a \notin left

Found(a) ==
    /\ organizations = {} /\ IsNew(a)
    /\ organizations' = {a}
    /\ admin' = [admin EXCEPT ![a] = [org |-> a, role |-> "owner"]]
    /\ UNCHANGED <<left, raced>>

Join(a, role) ==
    /\ IsNew(a)
    /\ \E o \in organizations : admin' = [admin EXCEPT ![a] = [org |-> o, role |-> role]]
    /\ UNCHANGED <<organizations, left, raced>>

(* The last owner goes only if changes overlap, now or earlier.            *)
OwnerIsLeft == (raced => raced') /\ (raced' \/ \E a \in Accounts : IsOwner(a)')

ChangeRole(a, role) ==
    /\ admin[a] # NoRow
    /\ admin' = [admin EXCEPT ![a].role = role]
    /\ OwnerIsLeft
    /\ UNCHANGED <<organizations, left>>

Remove(a) ==
    /\ admin[a] # NoRow
    /\ admin' = [admin EXCEPT ![a] = NoRow]
    /\ left' = left \cup {a}
    /\ OwnerIsLeft
    /\ UNCHANGED organizations

(* Changes overlap, and the later one finds nobody to change.              *)
Overlap ==
    /\ raced' = TRUE
    /\ UNCHANGED <<organizations, admin, left>>

Next ==
    \/ \E a \in Accounts :
          \/ Found(a) \/ Remove(a)
          \/ \E role \in {"owner", "staff"} : Join(a, role) \/ ChangeRole(a, role)
    \/ Overlap

Spec == Init /\ [][Next]_mvars
=============================================================================
