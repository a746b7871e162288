---------------------------- MODULE Fulfillment ----------------------------
(***************************************************************************)
(* Payment fulfilment of Echo billing: the purchase handler that opens a   *)
(* transaction and a Pesapal order, and the five entry points (the IPN     *)
(* webhook, the portal's /status and /resume, the /return page, the        *)
(* per-minute sweep) that all run reconcileTransaction over a snapshot of  *)
(* the row.  Every await of the code is a boundary between two actions,    *)
(* so invocations interleave between any two database or Pesapal calls.    *)
(*                                                                         *)
(* Sources: supabase/functions/_shared/{fulfillment,purchase}.ts,          *)
(* portal-api, pesapal-ipn, reconcile-pending.                             *)
(***************************************************************************)
EXTENDS Naturals, FiniteSets

CONSTANTS
    Txns,           \* the purchases that may be attempted
    Hotspot,        \* those of a hotspot plan; the others buy a PPPoE plan
    Customers,      \* customers, identified by their phone
    Buyer,          \* Buyer[t]: the customer who attempts purchase t
    Accounts,       \* PPPoE accounts
    Owner,          \* Owner[a]: the customer of PPPoE account a
    Codes,          \* voucher codes generateVoucherCode can return
    Workers,        \* slots for concurrent function invocations
    Entry,          \* Entry[w]: the entry point that slot w serves
    NoTxn, NoCode, NoCustomer,
    Duration,       \* a PPPoE plan's paid time, in clock units
    Grace,          \* FAILURE_GRACE_MS
    SweepWindow,    \* how far back the sweep looks
    ResumeWindow,   \* how far back /resume looks
    MaxTime,        \* bound on the clock
    Faults,         \* the kinds of fault that may happen
    MaxFaults,      \* bound on their number
    CronKeepsUp     \* TRUE: a clock unit outlasts a due sweep (timed runs)

EntryPoints == {"ipn", "status", "resume", "return", "sweep"}
FaultKinds == {"crash", "timeout", "write", "flip"}

ASSUME DataAssumption ==
    /\ Hotspot \subseteq Txns
    /\ Buyer \in [Txns -> Customers]
    /\ Owner \in [Accounts -> Customers]
    /\ Entry \in [Workers -> EntryPoints]
    /\ NoTxn \notin Txns /\ NoCode \notin Codes /\ NoCustomer \notin Customers
ASSUME TimeAssumption ==
    /\ Duration \in Nat /\ Grace \in Nat
    /\ SweepWindow \in Nat /\ ResumeWindow \in Nat /\ MaxTime \in Nat
ASSUME FaultAssumption ==
    Faults \subseteq FaultKinds /\ MaxFaults \in Nat /\ CronKeepsUp \in BOOLEAN

VARIABLES
    now,        \* the clock
    status,     \* transactions.status ("absent": the row does not exist)
    created,    \* transactions.created_at
    customerId, \* transactions.customer_id
    tracking,   \* transactions.pesapal_order_tracking_id is not null
    voucherId,  \* transactions.voucher_id
    voucher,    \* voucher[c]: the purchase code c was inserted for (NoTxn: no row)
    expiry,     \* pppoe_accounts.expires_at
    buy,        \* where initiatePurchase is
    ext,        \* Pesapal's own record of the order
    call,       \* the local state of each invocation
    jobs,       \* receipts handed to the background
    sent,       \* receipts that reached the customer
    faults      \* faults so far

db   == <<status, created, customerId, tracking, voucherId, voucher, expiry>>
post == <<jobs, sent>>
vars == <<now, db, buy, ext, call, post, faults>>

Statuses == {"absent", "pending", "completed", "failed"}
Answers  == {"none", "Pending", "Failed", "Completed"}
Labels   == {"idle", "next", "query", "answered", "issue", "link",
             "account", "renew", "receipt", "respond"}
Receipts == [by : Workers, txn : Txns, code : Codes \cup {NoCode}]
Calls    == [pc : Labels, txn : Txns \cup {NoTxn}, queue : SUBSET Txns,
             answer : Answers, code : Codes \cup {NoCode}, renewal : Nat]

IdleCall == [pc |-> "idle", txn |-> NoTxn, queue |-> {}, answer |-> "none",
             code |-> NoCode, renewal |-> 0]

(* One fault of kind k happens with this step. *)
Fault(k) ==
    /\ k \in Faults /\ faults < MaxFaults
    /\ faults' = faults + 1
NoFault == UNCHANGED faults

Init ==
    /\ now = 0
    /\ status = [t \in Txns |-> "absent"]
    /\ created = [t \in Txns |-> 0]
    /\ customerId = [t \in Txns |-> NoCustomer]
    /\ tracking = [t \in Txns |-> FALSE]
    /\ voucherId = [t \in Txns |-> NoCode]
    /\ voucher = [c \in Codes |-> NoTxn]
    /\ expiry = [a \in Accounts |-> 0]
    /\ buy = [t \in Txns |-> "none"]
    /\ ext = [t \in Txns |-> "none"]
    /\ call = [w \in Workers |-> IdleCall]
    /\ jobs = {} /\ sent = {}
    /\ faults = 0

Age(t) == now - created[t]

-----------------------------------------------------------------------------
(* initiatePurchase: customer upsert and transaction insert, then Pesapal's *)
(* SubmitOrderRequest, then a second write that stores the tracking id.     *)

(* The upsert's error is ignored: the row is then inserted with a null      *)
(* customer_id.                                                             *)
InsertTxn(t) ==
    /\ buy[t] = "none"
    /\ status' = [status EXCEPT ![t] = "pending"]
    /\ created' = [created EXCEPT ![t] = now]
    /\ buy' = [buy EXCEPT ![t] = "inserted"]
    /\ \/ customerId' = [customerId EXCEPT ![t] = Buyer[t]] /\ NoFault
       \/ UNCHANGED customerId /\ Fault("write")
    /\ UNCHANGED <<now, tracking, voucherId, voucher, expiry, ext, call, post>>

SubmitOrder(t) ==
    /\ buy[t] = "inserted"
    /\ ext' = [ext EXCEPT ![t] = "Pending"]
    /\ buy' = [buy EXCEPT ![t] = "submitted"]
    /\ UNCHANGED <<now, db, call, post, faults>>

(* A Pesapal call throws (an error, or a timeout after the order was made): *)
(* the handler answers 500 and the customer never gets the payment page.    *)
SubmitFails(t) ==
    /\ buy[t] = "inserted"
    /\ Fault("timeout")
    /\ ext' \in {ext, [ext EXCEPT ![t] = "Pending"]}
    /\ buy' = [buy EXCEPT ![t] = "dead"]
    /\ UNCHANGED <<now, db, call, post>>

(* The update's error is not looked at: the customer gets the payment page  *)
(* whether or not the tracking id was stored.                               *)
SaveTracking(t) ==
    /\ buy[t] = "submitted"
    /\ \/ tracking' = [tracking EXCEPT ![t] = TRUE] /\ NoFault
       \/ UNCHANGED tracking /\ Fault("write")
    /\ buy' = [buy EXCEPT ![t] = "answered"]
    /\ UNCHANGED <<now, status, created, customerId, voucherId, voucher, expiry,
                   ext, call, post>>

PurchaseCrashes(t) ==
    /\ buy[t] \in {"inserted", "submitted"}
    /\ Fault("crash")
    /\ buy' = [buy EXCEPT ![t] = "dead"]
    /\ UNCHANGED <<now, db, ext, call, post>>

-----------------------------------------------------------------------------
(* Pesapal and the customer's M-Pesa prompt (external).                     *)

(* Only a customer who was sent to the payment page can pay; an order may   *)
(* fail in any case.                                                        *)
Settle(t) ==
    /\ ext[t] = "Pending"
    /\ \/ buy[t] = "answered" /\ ext' = [ext EXCEPT ![t] = "Completed"]
       \/ ext' = [ext EXCEPT ![t] = "Failed"]
    /\ UNCHANGED <<now, db, buy, call, post, faults>>

(* The false negative fulfillment.ts records: "Failed" is reported, and the *)
(* same order is later reported "Completed".                                *)
Flip(t) ==
    /\ ext[t] = "Failed" /\ buy[t] = "answered"
    /\ Fault("flip")
    /\ ext' = [ext EXCEPT ![t] = "Completed"]
    /\ UNCHANGED <<now, db, buy, call, post>>

-----------------------------------------------------------------------------
(* The entry points.  Each reads the row once; reconcileTransaction then    *)
(* works on that snapshot.                                                  *)

(* reconcileTransaction's two early returns, over the row just read. *)
Reconcilable(t) == status[t] = "pending" /\ tracking[t]

Become(w, c) == call' = [call EXCEPT ![w] = c]
At(w, label) == call[w].pc = label
Goto(w, label) == Become(w, [call[w] EXCEPT !.pc = label])

(* Where an invocation goes once reconcileTransaction returned or threw:    *)
(* /status and /resume read the row again to answer, the sweep takes its    *)
(* next transaction, the others answer without looking at the row.          *)
After(w) ==
    CASE Entry[w] \in {"status", "resume"} ->
            [IdleCall EXCEPT !.pc = "respond", !.txn = call[w].txn]
      [] Entry[w] = "sweep" ->
            [IdleCall EXCEPT !.pc = "next", !.queue = call[w].queue]
      [] OTHER -> IdleCall

Reconcile(w, t) ==
    Become(w, [IdleCall EXCEPT !.pc = IF Reconcilable(t) THEN "query" ELSE "respond",
                               !.txn = t])

(* Pesapal calls the webhook once the order is final, and again after an    *)
(* error; a call that finds nothing to reconcile changes nothing.           *)
IpnStart(w, t) ==
    /\ Entry[w] = "ipn" /\ At(w, "idle")
    /\ ext[t] \in {"Failed", "Completed"} /\ Reconcilable(t)
    /\ Reconcile(w, t)
    /\ UNCHANGED <<now, db, buy, ext, post, faults>>

(* /return, Pesapal's callback page. *)
ReturnStart(w, t) ==
    /\ Entry[w] = "return" /\ At(w, "idle")
    /\ buy[t] = "answered" /\ Reconcilable(t)
    /\ Reconcile(w, t)
    /\ UNCHANGED <<now, db, buy, ext, post, faults>>

(* /status, for a client that was given the transaction's id. *)
StatusStart(w, t) ==
    /\ Entry[w] = "status" /\ At(w, "idle")
    /\ buy[t] = "answered"
    /\ Reconcile(w, t)
    /\ UNCHANGED <<now, db, buy, ext, post, faults>>

(* /resume: the latest transaction of the phone within the last hours. *)
ResumeStart(w, t) ==
    /\ Entry[w] = "resume" /\ At(w, "idle")
    /\ status[t] # "absent" /\ Age(t) <= ResumeWindow
    /\ \A u \in Txns : Buyer[u] = Buyer[t] /\ status[u] # "absent"
                         => created[u] <= created[t]
    /\ Reconcile(w, t)
    /\ UNCHANGED <<now, db, buy, ext, post, faults>>

(* What the sweep's query selects. *)
Sweepable == {t \in Txns : Reconcilable(t) /\ Age(t) <= SweepWindow}

SweepStart(w) ==
    /\ Entry[w] = "sweep" /\ At(w, "idle")
    /\ Sweepable # {}
    /\ Become(w, [IdleCall EXCEPT !.pc = "next", !.queue = Sweepable])
    /\ UNCHANGED <<now, db, buy, ext, post, faults>>

(* The sweep's loop, over the rows it read at its start. *)
SweepNext(w) ==
    /\ At(w, "next")
    /\ \/ /\ call[w].queue = {}
          /\ Become(w, IdleCall)
       \/ \E t \in call[w].queue :
             Become(w, [IdleCall EXCEPT !.pc = "query", !.txn = t,
                                        !.queue = call[w].queue \ {t}])
    /\ UNCHANGED <<now, db, buy, ext, post, faults>>

-----------------------------------------------------------------------------
(* reconcileTransaction *)

(* A slip of QueryFails, for mutation: recorded as a failed payment.        *)
QueryFailsGivesUp(w) ==
    /\ At(w, "query")
    /\ Fault("timeout")
    /\ status' = [status EXCEPT ![call[w].txn] = "failed"]
    /\ Become(w, After(w))
    /\ UNCHANGED <<now, created, customerId, tracking, voucherId, voucher, expiry,
                   buy, ext, post>>

(* requestToken and getTransactionStatus: Pesapal's answer is of this       *)
(* moment, the handler acts on it later.                                    *)
Query(w) ==
    /\ At(w, "query")
    /\ Become(w, [call[w] EXCEPT !.pc = "answered", !.answer = ext[call[w].txn]])
    /\ UNCHANGED <<now, db, buy, ext, post, faults>>

QueryFails(w) ==
    /\ At(w, "query")
    /\ Fault("timeout")
    /\ Become(w, After(w))
    /\ UNCHANGED <<now, db, buy, ext, post>>

(* The step after a won claim, by the snapshot's plan type. *)
Fulfil(t) ==
    IF t \in Hotspot THEN "issue"
    ELSE IF customerId[t] # NoCustomer THEN "account" ELSE "receipt"

(* A slip, for mutation: the claim without its WHERE status = 'pending'.    *)
ClaimUnguarded(w) == LET t == call[w].txn IN
    /\ At(w, "answered") /\ call[w].answer = "Completed"
    /\ status' = [status EXCEPT ![t] = "completed"]
    /\ Goto(w, Fulfil(t))
    /\ UNCHANGED <<now, created, customerId, tracking, voucherId, voucher, expiry,
                   buy, ext, post, faults>>

(* UPDATE ... SET status = 'completed' WHERE status = 'pending': the caller *)
(* that gets no row back stops.                                             *)
Claim(w) == LET t == call[w].txn IN
    /\ At(w, "answered") /\ call[w].answer = "Completed"
    /\ IF status[t] = "pending"
         THEN /\ status' = [status EXCEPT ![t] = "completed"]
              /\ Goto(w, Fulfil(t))
         ELSE UNCHANGED status /\ Become(w, After(w))
    /\ UNCHANGED <<now, created, customerId, tracking, voucherId, voucher, expiry,
                   buy, ext, post, faults>>

(* A slip of the next action, for mutation: no grace.                       *)
RejectAtOnce(w) == LET t == call[w].txn IN
    /\ At(w, "answered") /\ call[w].answer = "Failed"
    /\ status' = IF status[t] = "pending" THEN [status EXCEPT ![t] = "failed"] ELSE status
    /\ Become(w, After(w))
    /\ UNCHANGED <<now, created, customerId, tracking, voucherId, voucher, expiry,
                   buy, ext, post, faults>>

(* "Failed" is accepted once the transaction is older than the grace. *)
Reject(w) == LET t == call[w].txn IN
    /\ At(w, "answered") /\ call[w].answer = "Failed"
    /\ IF Age(t) > Grace /\ status[t] = "pending"
         THEN status' = [status EXCEPT ![t] = "failed"]
         ELSE UNCHANGED status
    /\ Become(w, After(w))
    /\ UNCHANGED <<now, created, customerId, tracking, voucherId, voucher, expiry,
                   buy, ext, post, faults>>

(* "Pending" and "Invalid" change nothing. *)
Wait(w) ==
    /\ At(w, "answered") /\ call[w].answer \in {"none", "Pending"}
    /\ Become(w, After(w))
    /\ UNCHANGED <<now, db, buy, ext, post, faults>>

(* Slips, for mutation: a second code generated for the receipt, and an     *)
(* insert whose voucher is never linked.                                    *)
IssueOtherCode(w, c) ==
    /\ At(w, "issue")
    /\ voucher[c] = NoTxn
    /\ voucher' = [voucher EXCEPT ![c] = call[w].txn]
    /\ \E d \in Codes : Become(w, [call[w] EXCEPT !.pc = "link", !.code = d])
    /\ UNCHANGED <<now, status, created, customerId, tracking, voucherId, expiry,
                   buy, ext, post, faults>>
IssueUnlinked(w, c) ==
    /\ At(w, "issue")
    /\ voucher[c] = NoTxn
    /\ voucher' = [voucher EXCEPT ![c] = call[w].txn]
    /\ Become(w, [call[w] EXCEPT !.pc = "receipt", !.code = c])
    /\ UNCHANGED <<now, status, created, customerId, tracking, voucherId, expiry,
                   buy, ext, post, faults>>

(* generateVoucherCode and the insert; codes are unique in the table. *)
IssueVoucher(w, c) ==
    /\ At(w, "issue")
    /\ voucher[c] = NoTxn
    /\ voucher' = [voucher EXCEPT ![c] = call[w].txn]
    /\ Become(w, [call[w] EXCEPT !.pc = "link", !.code = c])
    /\ UNCHANGED <<now, status, created, customerId, tracking, voucherId, expiry,
                   buy, ext, post, faults>>

(* The insert's error is ignored (a duplicate code, a lost connection); the *)
(* code was generated before it and goes into the receipt all the same.     *)
IssueFails(w, c) ==
    /\ At(w, "issue")
    /\ Fault("write")
    /\ Become(w, [call[w] EXCEPT !.pc = "receipt", !.code = c])
    /\ UNCHANGED <<now, db, buy, ext, post>>

(* transactions.voucher_id, a second write whose error is not looked at. *)
LinkVoucher(w) ==
    /\ At(w, "link")
    /\ \/ voucherId' = [voucherId EXCEPT ![call[w].txn] = call[w].code] /\ NoFault
       \/ UNCHANGED voucherId /\ Fault("write")
    /\ Goto(w, "receipt")
    /\ UNCHANGED <<now, status, created, customerId, tracking, voucher, expiry,
                   buy, ext, post>>

AccountsOf(p) == {a \in Accounts : Owner[a] = p}
Later(m, n) == IF m > n THEN m ELSE n

(* maybeSingle gives the account only when the customer has exactly one.    *)
(* The new expiry is computed from the row read here.                       *)
ReadAccount(w) == LET mine == AccountsOf(customerId[call[w].txn]) IN
    /\ At(w, "account")
    /\ \/ \E a \in mine :
             /\ mine = {a}
             /\ Become(w, [call[w] EXCEPT !.pc = "renew",
                                          !.renewal = Later(now, expiry[a]) + Duration])
       \/ ~(\E a \in mine : mine = {a}) /\ Goto(w, "receipt")
    /\ UNCHANGED <<now, db, buy, ext, post, faults>>

WriteAccount(w) ==
    /\ At(w, "renew")
    /\ \/ /\ expiry' = [a \in Accounts |->
                          IF Owner[a] = customerId[call[w].txn]
                            THEN call[w].renewal ELSE expiry[a]]
          /\ NoFault
       \/ UNCHANGED expiry /\ Fault("write")
    /\ Goto(w, "receipt")
    /\ UNCHANGED <<now, status, created, customerId, tracking, voucherId, voucher,
                   buy, ext, post>>

(* runInBackground(sendReceiptNotifications) *)
Dispatch(w) ==
    /\ At(w, "receipt")
    /\ jobs' = jobs \cup {[by |-> w, txn |-> call[w].txn, code |-> call[w].code]}
    /\ Become(w, After(w))
    /\ UNCHANGED <<now, db, buy, ext, sent, faults>>

SendReceipt(j) ==
    /\ j \in jobs
    /\ jobs' = jobs \ {j}
    /\ sent' = sent \cup {j}
    /\ UNCHANGED <<now, db, buy, ext, call, faults>>

(* The provider refuses, or the isolate ends before the job ran. *)
LoseReceipt(j) ==
    /\ j \in jobs
    /\ Fault("crash")
    /\ jobs' = jobs \ {j}
    /\ UNCHANGED <<now, db, buy, ext, call, sent>>

(* /status and /resume answer from a fresh read of the row. *)
Respond(w) ==
    /\ At(w, "respond")
    /\ Become(w, IdleCall)
    /\ UNCHANGED <<now, db, buy, ext, post, faults>>

(* The isolate is killed between two awaits. *)
Crash(w) ==
    /\ ~At(w, "idle")
    /\ Fault("crash")
    /\ Become(w, IdleCall)
    /\ UNCHANGED <<now, db, buy, ext, post>>

-----------------------------------------------------------------------------
(* A sweep would settle t now.  With CronKeepsUp the clock, whose unit is   *)
(* then far longer than the cron's minute, does not pass it by.             *)
Due(t) ==
    /\ t \in Sweepable
    /\ \/ ext[t] = "Completed"
       \/ ext[t] = "Failed" /\ Age(t) > Grace

Tick ==
    /\ now < MaxTime
    /\ CronKeepsUp => \A t \in Txns : ~Due(t)
    /\ now' = now + 1
    /\ UNCHANGED <<db, buy, ext, call, post, faults>>

Purchase(t) ==
    InsertTxn(t) \/ SubmitOrder(t) \/ SubmitFails(t) \/ SaveTracking(t)
      \/ PurchaseCrashes(t)
Pesapal(t) == Settle(t) \/ Flip(t)
Enter(w) ==
    \/ \E t \in Txns : IpnStart(w, t) \/ ReturnStart(w, t) \/ StatusStart(w, t)
                         \/ ResumeStart(w, t)
    \/ SweepStart(w)
Issue(w) == \E c \in Codes : IssueVoucher(w, c) \/ IssueFails(w, c)
Run(w) ==
    \/ SweepNext(w) \/ Query(w) \/ QueryFails(w) \/ Claim(w) \/ Reject(w) \/ Wait(w)
    \/ Issue(w) \/ LinkVoucher(w) \/ ReadAccount(w) \/ WriteAccount(w)
    \/ Dispatch(w) \/ Respond(w)
Background == \E j \in jobs : SendReceipt(j) \/ LoseReceipt(j)

Next ==
    \/ \E t \in Txns : Purchase(t) \/ Pesapal(t)
    \/ \E w \in Workers : Enter(w) \/ Run(w) \/ Crash(w)
    \/ Background
    \/ Tick

Spec == Init /\ [][Next]_vars

(* The platform runs what was started: invocations, background jobs, and    *)
(* the cron, which calls reconcile-pending every minute.  Nothing makes a   *)
(* customer buy, pay, poll or come back, nor Pesapal call the webhook.      *)
Fairness ==
    /\ \A w \in Workers : WF_vars(Run(w)) /\ WF_vars(SweepStart(w))
    /\ WF_vars(Background)

FairSpec == Spec /\ Fairness

-----------------------------------------------------------------------------
(* Properties *)

(* Every variable keeps to its type. *)
TypeOK ==
    /\ now \in Nat
    /\ status \in [Txns -> Statuses]
    /\ created \in [Txns -> Nat]
    /\ customerId \in [Txns -> Customers \cup {NoCustomer}]
    /\ tracking \in [Txns -> BOOLEAN]
    /\ voucherId \in [Txns -> Codes \cup {NoCode}]
    /\ voucher \in [Codes -> Txns \cup {NoTxn}]
    /\ expiry \in [Accounts -> Nat]
    /\ buy \in [Txns -> {"none", "inserted", "submitted", "answered", "dead"}]
    /\ ext \in [Txns -> Answers]
    /\ call \in [Workers -> Calls]
    /\ jobs \subseteq Receipts
    /\ sent \subseteq Receipts
    /\ faults \in Nat

(* However many entry points race over one payment, and whatever crashes or *)
(* is retried, at most one voucher is ever inserted for it (the atomic      *)
(* claim of fulfillment.ts:34-41).                                          *)
AtMostOneVoucher ==
    \A c, d \in Codes : voucher[c] = voucher[d] /\ voucher[c] # NoTxn => c = d

(* A voucher exists only for a hotspot purchase that Pesapal itself reports *)
(* as paid and that is recorded as completed: nothing is handed out on a    *)
(* webhook's or a client's say-so (fulfillment.ts:7-9).                     *)
VouchersArePaid ==
    \A c \in Codes : voucher[c] # NoTxn =>
        /\ voucher[c] \in Hotspot
        /\ ext[voucher[c]] = "Completed"
        /\ status[voucher[c]] = "completed"

(* A PPPoE account never runs further ahead of the clock than the completed *)
(* payments of its customer bought, however the fulfilments interleave      *)
(* (fulfillment.ts:61-78).                                                  *)
Renewals(p) == {t \in Txns \ Hotspot : status[t] = "completed" /\ customerId[t] = p}
NeverMoreThanPaid ==
    \A a \in Accounts : expiry[a] <= now + Duration * Cardinality(Renewals(Owner[a]))

(* A transaction's voucher_id is the voucher that was issued for it.        *)
LinkedToItsVoucher ==
    \A t \in Txns : voucherId[t] # NoCode => voucher[voucherId[t]] = t

(* One payment is receipted at most once, whether the receipt was sent or   *)
(* is still queued (fulfillment.ts:80-84 runs only behind a won claim).     *)
OneReceipt ==
    \A r, s \in jobs \cup sent : r.txn = s.txn => r = s

(* A receipt never names one code while the voucher of its payment is       *)
(* another: the code that was generated is the one inserted, linked and sent *)
(* (only when the insert failed does the receipt name a code without one).  *)
ReceiptNamesItsVoucher ==
    \A r \in sent, c \in Codes : voucher[c] = r.txn => r.code = c

(* A false "Failed" that Pesapal takes back costs nothing, if it does so    *)
(* within the grace or before the row was given up: once no invocation      *)
(* carries the older answer any more, nobody records the payment as failed, *)
(* however the fetched answers overtake each other (fulfillment.ts:86-103). *)
(* An answer that was fetched before and is accepted after does cost the    *)
(* payment, and so does a prompt that stays open past the grace.            *)
Doubted(t) == \E w \in Workers : /\ At(w, "answered") /\ call[w].txn = t
                                 /\ call[w].answer = "Failed"
Heals(t) ==
    /\ ext[t] = "Completed" /\ ~Doubted(t)
    /\ status[t] # "failed" \/ Age(t) <= Grace
HealStep == \A t \in Txns : Heals(t) => status'[t] # "failed" /\ ~Doubted(t)'
FalseNegativesHeal == [][HealStep]_vars

(* completed and failed are final, and a transaction reaches them only from *)
(* pending: no late answer of a slower invocation overwrites the outcome.   *)
OutcomeStep ==
    \A t \in Txns : status'[t] # status[t] =>
        \/ status[t] = "absent" /\ status'[t] = "pending"
        \/ status[t] = "pending" /\ status'[t] \in {"completed", "failed"}
OutcomeIsFinal == [][OutcomeStep]_vars

(* A link, once written, is never replaced: the code a customer was shown   *)
(* stays the code of the payment.                                           *)
LinkStep == \A t \in Txns : voucherId[t] # NoCode => voucherId'[t] = voucherId[t]
LinkIsFinal == [][LinkStep]_vars

(* With a cron that keeps up, a payment Pesapal reports paid while its row  *)
(* is pending, tracked and in the sweep's window is completed, even when no *)
(* webhook and no customer ever comes back and some invocations crash or    *)
(* time out on the way (reconcile-pending).                                 *)
PaidIsCompleted ==
    \A t \in Txns :
        (ext[t] = "Completed" /\ t \in Sweepable) ~> (status[t] = "completed")

(* Once the last crash or timeout is behind it, an invocation that won the  *)
(* claim of a hotspot payment inserts the voucher and links it.             *)
CompletedGetsVoucher ==
    \A t \in Hotspot :
        (faults = MaxFaults /\ \E w \in Workers : call[w].txn = t /\ At(w, "issue"))
            ~> (voucherId[t] # NoCode)

(* An invocation that won the claim holds its transaction until its receipt *)
(* is handed over.                                                          *)
Holding == {"issue", "link", "account", "renew", "receipt"}
Holds(w, t) == call[w].pc \in Holding /\ call[w].txn = t

(* Completed payments that nobody will see to any more: their voucher is    *)
(* not linked or their receipt not queued, and no invocation is on its way  *)
(* to it.                                                                   *)
SeenTo(t, labels) == \E w \in Workers : call[w].txn = t /\ call[w].pc \in labels
Forgotten ==
    {t \in Txns :
        /\ status[t] = "completed"
        /\ \/ t \in Hotspot /\ voucherId[t] = NoCode /\ ~SeenTo(t, {"issue", "link"})
           \/ (\A r \in jobs \cup sent : r.txn # t) /\ ~SeenTo(t, Holding)}

(* A crash, a lost write or a lost receipt costs one payment at most, and   *)
(* without one none is forgotten: a row that is completed stays with the    *)
(* invocation that won it, and a sweep that is cut off leaves the rest of   *)
(* its rows pending (fulfillment.ts:34-84, reconcile-pending).              *)
EveryFaultCostsOne == Cardinality(Forgotten) <= faults

-----------------------------------------------------------------------------
(* The abstract specification this module implements: invocations, crashes  *)
(* and Pesapal's false negatives are not visible at that level.             *)
Paid == {t \in Txns : ext[t] = "Completed"}
Promise == INSTANCE Payment WITH state <- status, paid <- Paid, granted <- voucher

(* Every behaviour of the handlers is one of Payment: settled once, only if *)
(* paid, and at most one voucher, never taken back.                         *)
PromiseKept == Promise!Spec

-----------------------------------------------------------------------------
(* The inductive invariant behind the safety properties.  Nobody but the    *)
(* invocation that won the claim holds a transaction, then or later, and    *)
(* nothing was done for the transaction before.                             *)

CallsHaveTxn ==
    \A w \in Workers :
        call[w].pc \in Holding \cup {"query", "answered", "respond"}
            => call[w].txn \in Txns

AnswersAreTrue ==
    \A w \in Workers : call[w].pc = "answered" =>
        /\ call[w].answer = "Completed" => ext[call[w].txn] = "Completed"
        /\ call[w].answer = "Failed" => ext[call[w].txn] \in {"Failed", "Completed"}

HoldersWon ==
    \A w \in Workers, t \in Txns : Holds(w, t) =>
        /\ status[t] = "completed"
        /\ \A v \in Workers : Holds(v, t) => v = w
        /\ \A r \in jobs \cup sent : r.txn # t

HoldersAreFirst ==
    \A w \in Workers, t \in Txns :
        /\ Holds(w, t) /\ call[w].pc = "issue" =>
              /\ t \in Hotspot /\ voucherId[t] = NoCode
              /\ \A c \in Codes : voucher[c] # t
        /\ Holds(w, t) /\ call[w].pc = "link" =>
              /\ t \in Hotspot /\ voucherId[t] = NoCode
              /\ call[w].code \in Codes /\ voucher[call[w].code] = t

CompletedIsPaid ==
    \A t \in Txns : status[t] = "completed" => ext[t] = "Completed"

ReceiptsAreCompleted == \A r \in jobs \cup sent : status[r.txn] = "completed"

NotBoughtIsAbsent ==
    \A t \in Txns : /\ buy[t] = "none" => status[t] = "absent"
                    /\ buy[t] \in {"none", "inserted"} => ext[t] = "none"

FailedWasRejected ==
    \A t \in Txns : status[t] = "failed" =>
        Age(t) > Grace /\ ext[t] \in {"Failed", "Completed"}

PastIsPast == \A t \in Txns : created[t] <= now

(* The parts that speak of the invocations, and those that speak only of    *)
(* the database, Pesapal and the receipts.                                  *)
CallInv == CallsHaveTxn /\ AnswersAreTrue /\ HoldersWon /\ HoldersAreFirst
DataInv ==
    /\ CompletedIsPaid /\ ReceiptsAreCompleted /\ NotBoughtIsAbsent /\ PastIsPast
    /\ VouchersArePaid /\ AtMostOneVoucher /\ LinkedToItsVoucher
    /\ OneReceipt /\ FailedWasRejected

IInv == TypeOK /\ CallInv /\ DataInv
=============================================================================
