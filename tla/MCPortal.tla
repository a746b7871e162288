------------------------------ MODULE MCPortal ------------------------------
(* Small instances of Portal for TLC. *)
EXTENDS Portal, TLC

CONSTANTS t1, t2, w1, w2, p1, p2, c1, c2

EachBuysOne == t1 :> p1 @@ t2 :> p2
NoOwner == [a \in Accounts |-> p1]
PollAndResume == w1 :> "status" @@ w2 :> "resume"

(* A state that Portal reaches: p2 bought t2, and left the page with its    *)
(* code; p1 paid for t1, or failed to, and the callback loads the page.     *)
LaterInit ==
    /\ now = 1
    /\ status = (t1 :> "pending" @@ t2 :> "completed")
    /\ created = [t \in Txns |-> 0]
    /\ customerId = Buyer
    /\ tracking = [t \in Txns |-> TRUE]
    /\ voucherId = (t1 :> NoCode @@ t2 :> c2)
    /\ voucher = (c1 :> NoTxn @@ c2 :> t2)
    /\ expiry = [a \in Accounts |-> 0]
    /\ buy = [t \in Txns |-> "answered"]
    /\ \E outcome \in {"Completed", "Failed"} : ext = (t1 :> outcome @@ t2 :> "Completed")
    /\ call = [w \in Workers |-> IdleCall]
    /\ jobs = {} /\ sent = {[by |-> w1, txn |-> t2, code |-> c2]}
    /\ faults = 0
    /\ polls = (p1 :> {[id |-> 1, txn |-> t1]} @@ p2 :> {})
    /\ panel = (p1 :> {"status"} @@ p2 :> {"success"})
    /\ timer = [p \in Customers |-> {}]
    /\ online = (p1 :> NoCode @@ p2 :> c2)
    /\ asked = (p1 :> {t1} @@ p2 :> {t2})
    /\ asker = [w \in Workers |-> NoOne]
    /\ net = {}

LaterSpec == LaterInit /\ [][PortalNext]_allVars
LaterPersistent == LaterSpec /\ InvocationsEnd /\ Persistent(p1)
=============================================================================
