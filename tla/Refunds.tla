------------------------------ MODULE Refunds ------------------------------
(***************************************************************************)
(* The payments page: its live table, and the two dialogs that refund a    *)
(* payment or make up for it with a free voucher.  Both call a function of *)
(* the database that runs in one transaction and with the rights of its    *)
(* caller, so that row-level security applies to every statement of it: a  *)
(* row no policy lets through is not updated, without an error, and an     *)
(* insert no policy allows raises one, which undoes the whole call.        *)
(*                                                                         *)
(* A payment stands for its row, at most one voucher is granted for it.    *)
(* Filters and the export only choose rows of the table.                   *)
(*                                                                         *)
(* Sources: transactions/page.tsx, migrations 0001, 0004, 0005 and 0007.   *)
(***************************************************************************)
EXTENDS Naturals, FiniteSets

CONSTANTS
    Txns, NoTxn,
    Loads,          \* loads of the table that may be under way at a time
    MaxFaults       \* bound on failing requests

VARIABLES
    status,     \* transactions.status
    vouchers,   \* payments made up for with a voucher
    entries,    \* audit_log: what was done to which payment
    notes,      \* notifications, likewise
    table,      \* the page's copy of the statuses
    load,       \* loads under way, and what was read
    news,       \* realtime events not delivered yet
    dialog,     \* the dialog that is open
    rpc,        \* its call of the database
    texted,     \* payments whose voucher was sent by SMS
    faults

database == <<status, vouchers, entries, notes>>
page == <<table, load, news>>
vars == <<database, page, dialog, rpc, texted, faults>>

Statuses == {"pending", "completed", "failed", "refunded"}
Unread == [t \in Txns |-> "none"]
NoLoad == [pc |-> "none", read |-> Unread]
Closed == [kind |-> "none", txn |-> NoTxn, error |-> FALSE, issued |-> FALSE]

Init ==
    /\ status = [t \in Txns |-> "pending"]
    /\ vouchers = {} /\ entries = {} /\ notes = {}
    /\ table = Unread
    /\ load = [l \in Loads |-> NoLoad] /\ news = 1
    /\ dialog = Closed /\ rpc = "none" /\ texted = {} /\ faults = 0

Fault == faults < MaxFaults /\ faults' = faults + 1

(* What an administrator may do to the tables the two functions touch: the  *)
(* policies of the migrations.                                              *)
Policies == {<<"transactions", "select">>, <<"audit_log", "select">>,
             <<"notifications", "select">>, <<"notifications", "update">>}
            \cup ({"vouchers"} \X {"select", "insert", "update", "delete"})
May(name, command) == <<name, command>> \in Policies

-----------------------------------------------------------------------------
(* The payments. *)

(* notify_on_transaction_status_change, with the rights of its owner: each  *)
(* change of the status is notified.                                        *)
Becomes(t, s) ==
    /\ status' = [status EXCEPT ![t] = s]
    /\ news' = news + 1

(* A payment is settled by the functions, with the service role.            *)
Settle(t) ==
    /\ status[t] = "pending"
    /\ \E s \in {"completed", "failed"} : Becomes(t, s) /\ notes' = notes \cup {<<s, t>>}
    /\ UNCHANGED <<vouchers, entries, table, load, dialog, rpc, texted, faults>>

-----------------------------------------------------------------------------
(* The table. *)

Sends(l) == load[l].pc = "none" /\ load' = [load EXCEPT ![l].pc = "sent"]

(* Opening the page counts as the first event.                              *)
Deliver(l) ==
    /\ news > 0 /\ news' = news - 1 /\ Sends(l)
    /\ UNCHANGED <<database, table, dialog, rpc, texted, faults>>

ReadTable(l) ==
    /\ load[l].pc = "sent"
    /\ load' = [load EXCEPT ![l] = [pc |-> "read", read |-> status]]
    /\ UNCHANGED <<database, table, news, dialog, rpc, texted, faults>>

(* The answers may come in another order; a failing load empties the table. *)
Loaded(l) ==
    /\ load[l].pc # "none"
    /\ \/ load[l].pc = "read" /\ table' = load[l].read /\ UNCHANGED faults
       \/ Fault /\ table' = Unread
    /\ load' = [load EXCEPT ![l] = NoLoad]
    /\ UNCHANGED <<database, news, dialog, rpc, texted>>

-----------------------------------------------------------------------------
(* The dialogs. *)

(* openRefund, openCompensate: offered by the table's row.                  *)
Open(t, kind) ==
    /\ dialog = Closed /\ table[t] = "completed"
    /\ dialog' = [Closed EXCEPT !.kind = kind, !.txn = t]
    /\ UNCHANGED <<database, page, rpc, texted, faults>>

Close ==
    /\ dialog # Closed /\ rpc = "none" /\ dialog' = Closed
    /\ UNCHANGED <<database, page, rpc, texted, faults>>

Submit ==
    /\ dialog # Closed /\ ~dialog.issued /\ rpc = "none"
    /\ rpc' = "sent" /\ dialog' = [dialog EXCEPT !.error = FALSE]
    /\ UNCHANGED <<database, page, texted, faults>>

Refuse == rpc' = "refused" /\ UNCHANGED <<database, news>>

(* refund_transaction.  The amount is checked as the status is.             *)
RefundTransaction(t, legal) ==
    IF status[t] # "completed" \/ ~legal \/ ~May("audit_log", "insert") THEN Refuse
    ELSE /\ IF May("transactions", "update")
            THEN Becomes(t, "refunded") /\ notes' = notes \cup {<<"refunded", t>>}
            ELSE UNCHANGED <<status, news, notes>>
         /\ entries' = entries \cup {<<"refunded", t>>}
         /\ rpc' = "granted" /\ UNCHANGED vouchers

(* compensate_transaction_with_voucher.                                     *)
CompensateTransaction(t) ==
    IF \/ status[t] # "completed"
       \/ \E name \in {"vouchers", "notifications", "audit_log"} : ~May(name, "insert")
    THEN Refuse
    ELSE /\ vouchers' = vouchers \cup {t}
         /\ notes' = notes \cup {<<"compensation", t>>}
         /\ entries' = entries \cup {<<"compensation", t>>}
         /\ rpc' = "granted" /\ UNCHANGED <<status, news>>

Execute ==
    /\ rpc = "sent"
    /\ \/ dialog.kind = "refund" /\ \E legal \in BOOLEAN : RefundTransaction(dialog.txn, legal)
       \/ dialog.kind = "compensate" /\ CompensateTransaction(dialog.txn)
    /\ UNCHANGED <<table, load, dialog, texted, faults>>

(* A refusal, or a failing request, stands in the dialog.                   *)
ShowError ==
    /\ \/ rpc = "refused" /\ UNCHANGED faults
       \/ rpc \in {"sent", "granted"} /\ Fault
    /\ dialog' = [dialog EXCEPT !.error = TRUE] /\ rpc' = "none"
    /\ UNCHANGED <<database, page, texted>>

(* A refund closes its dialog, a voucher is shown in it; the table is       *)
(* loaded again.                                                            *)
ShowResult(l) ==
    /\ rpc = "granted" /\ rpc' = "none" /\ Sends(l)
    /\ dialog' = IF dialog.kind = "refund" THEN Closed ELSE [dialog EXCEPT !.issued = TRUE]
    /\ UNCHANGED <<database, table, news, texted, faults>>

(* sendCompensationSms: to the phone on file.                               *)
SendCompensationSms ==
    /\ dialog.issued /\ texted' = texted \cup {dialog.txn}
    /\ UNCHANGED <<database, page, dialog, rpc, faults>>

-----------------------------------------------------------------------------
Next ==
    \/ \E t \in Txns : Settle(t) \/ \E kind \in {"refund", "compensate"} : Open(t, kind)
    \/ \E l \in Loads : Deliver(l) \/ ReadTable(l) \/ Loaded(l) \/ ShowResult(l)
    \/ Close \/ Submit \/ Execute \/ ShowError \/ SendCompensationSms

Spec == Init /\ [][Next]_vars

-----------------------------------------------------------------------------
(* Properties. *)

(* What the dialog says of itself (transactions/page.tsx:332-334), that it  *)
(* "issues a free voucher for the same plan": the database refuses it only  *)
(* for a payment that is not, or no longer, a completed one.                *)
CompensationIsIssued ==
    rpc = "refused" /\ dialog.kind = "compensate" => status[dialog.txn] # "completed"
=============================================================================
