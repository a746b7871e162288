------------------------------ MODULE Payment ------------------------------
(***************************************************************************)
(* What fulfilment promises to the outside, without invocations, crashes   *)
(* or Pesapal's delays: a purchase is opened once, is settled once, as     *)
(* completed only if it was paid, and a completed purchase is granted at   *)
(* most one voucher, never to be taken back or replaced.                   *)
(***************************************************************************)
CONSTANTS Txns, Codes, NoTxn

VARIABLES
    state,      \* the purchase as the operator's records show it
    paid,       \* the purchases Pesapal has reported paid
    granted     \* granted[c]: the purchase that voucher code c was given for

pvars == <<state, paid, granted>>

Init ==
    /\ state = [t \in Txns |-> "absent"]
    /\ paid = {}
    /\ granted = [c \in Codes |-> NoTxn]

Open(t) ==
    /\ state[t] = "absent"
    /\ state' = [state EXCEPT ![t] = "pending"]
    /\ UNCHANGED <<paid, granted>>

Pay(t) ==
    /\ t \notin paid
    /\ paid' = paid \cup {t}
    /\ UNCHANGED <<state, granted>>

Complete(t) ==
    /\ state[t] = "pending" /\ t \in paid
    /\ state' = [state EXCEPT ![t] = "completed"]
    /\ UNCHANGED <<paid, granted>>

Fail(t) ==
    /\ state[t] = "pending"
    /\ state' = [state EXCEPT ![t] = "failed"]
    /\ UNCHANGED <<paid, granted>>

Grant(t, c) ==
    /\ state[t] = "completed"
    /\ \A d \in Codes : granted[d] # t
    /\ granted[c] = NoTxn
    /\ granted' = [granted EXCEPT ![c] = t]
    /\ UNCHANGED <<state, paid>>

Next ==
    \E t \in Txns :
        Open(t) \/ Pay(t) \/ Complete(t) \/ Fail(t) \/ \E c \in Codes : Grant(t, c)

Spec == Init /\ [][Next]_pvars
=============================================================================
