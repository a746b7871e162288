------------------------- MODULE FulfillmentProofs -------------------------
(* Theorems about Fulfillment and, at the end, about its composition with   *)
(* the customers' pages in Portal, for every value of their constants.      *)
EXTENDS Portal, FiniteSetTheorems, TLAPS

(* The record an invocation starts from, and the one it goes back to.       *)
LEMMA IdleCallType == IdleCall \in Calls
  BY DEF IdleCall, Calls, Labels, Answers

LEMMA AfterType ==
  ASSUME TypeOK, NEW w \in Workers
  PROVE  After(w) \in Calls
  <1>1. call[w] \in Calls
    BY DEF TypeOK
  <1>2. call[w].txn \in Txns \cup {NoTxn} /\ call[w].queue \in SUBSET Txns
    BY <1>1 DEF Calls
  <1> QED
    BY <1>2, IdleCallType DEF After, IdleCall, Calls, Labels, Answers

(* Replacing one invocation's state by a well-typed one keeps call typed.   *)
LEMMA BecomeType ==
  ASSUME TypeOK, NEW w \in Workers, NEW c \in Calls, Become(w, c)
  PROVE  call' \in [Workers -> Calls]
  BY DEF TypeOK, Become

LEMMA ReconcileType ==
  ASSUME TypeOK, NEW w \in Workers, NEW t \in Txns, Reconcile(w, t)
  PROVE  call' \in [Workers -> Calls]
  <1>1. [IdleCall EXCEPT !.pc = IF Reconcilable(t) THEN "query" ELSE "respond",
                         !.txn = t] \in Calls
    BY DEF IdleCall, Calls, Labels, Answers
  <1> QED
    BY <1>1, BecomeType DEF Reconcile

LEMMA FaultType ==
  ASSUME TypeOK, NEW k, Fault(k) \/ NoFault
  PROVE  faults' \in Nat
  BY DEF TypeOK, Fault, NoFault

(* Type correctness. *)
LEMMA TypeInit == Init => TypeOK
  BY DataAssumption, TimeAssumption, IdleCallType DEF Init, TypeOK, Statuses, Answers

LEMMA TypePurchase ==
  ASSUME TypeOK, NEW t \in Txns, Purchase(t)
  PROVE  TypeOK'
  <1> USE DEF TypeOK, Statuses, Answers, db, post
  <1>1. CASE InsertTxn(t)
    <2>1. faults' \in Nat
      BY <1>1, FaultType DEF InsertTxn
    <2>2. customerId' \in [Txns -> Customers \cup {NoCustomer}]
      <3>1. Buyer[t] \in Customers
        BY DataAssumption DEF DataAssumption
      <3> QED
        BY <1>1, <3>1 DEF InsertTxn
    <2>3. status' \in [Txns -> Statuses] /\ created' \in [Txns -> Nat]
      BY <1>1 DEF InsertTxn
    <2>4. buy' \in [Txns -> {"none", "inserted", "submitted", "answered", "dead"}]
      BY <1>1 DEF InsertTxn
    <2>5. UNCHANGED <<now, tracking, voucherId, voucher, expiry, ext, call, post>>
      BY <1>1 DEF InsertTxn
    <2> QED
      BY <2>1, <2>2, <2>3, <2>4, <2>5
  <1>2. CASE SubmitOrder(t)
    BY <1>2 DEF SubmitOrder
  <1>3. CASE SubmitFails(t)
    <2>1. faults' \in Nat
      BY <1>3, FaultType DEF SubmitFails
    <2> QED
      BY <1>3, <2>1 DEF SubmitFails
  <1>4. CASE SaveTracking(t)
    <2>1. faults' \in Nat
      BY <1>4, FaultType DEF SaveTracking
    <2> QED
      BY <1>4, <2>1 DEF SaveTracking
  <1>5. CASE PurchaseCrashes(t)
    <2>1. faults' \in Nat
      BY <1>5, FaultType DEF PurchaseCrashes
    <2> QED
      BY <1>5, <2>1 DEF PurchaseCrashes
  <1> QED
    BY <1>1, <1>2, <1>3, <1>4, <1>5 DEF Purchase

LEMMA TypePesapal ==
  ASSUME TypeOK, NEW t \in Txns, Pesapal(t)
  PROVE  TypeOK'
  <1> USE DEF TypeOK, Answers, db, post
  <1>1. CASE Settle(t)
    BY <1>1 DEF Settle
  <1>2. CASE Flip(t)
    <2>1. faults' \in Nat
      BY <1>2, FaultType DEF Flip
    <2> QED
      BY <1>2, <2>1 DEF Flip
  <1> QED
    BY <1>1, <1>2 DEF Pesapal

LEMMA TypeEnter ==
  ASSUME TypeOK, NEW w \in Workers, Enter(w)
  PROVE  TypeOK'
  <1>1. CASE \E t \in Txns : IpnStart(w, t) \/ ReturnStart(w, t) \/ StatusStart(w, t)
                               \/ ResumeStart(w, t)
    <2> PICK t \in Txns : IpnStart(w, t) \/ ReturnStart(w, t) \/ StatusStart(w, t)
                            \/ ResumeStart(w, t)
      BY <1>1
    <2>1. Reconcile(w, t) /\ UNCHANGED <<now, db, buy, ext, post, faults>>
      BY DEF IpnStart, ReturnStart, StatusStart, ResumeStart
    <2>2. call' \in [Workers -> Calls]
      BY <2>1, ReconcileType
    <2> QED
      BY <2>1, <2>2 DEF TypeOK, db, post
  <1>2. CASE SweepStart(w)
    <2>1. [IdleCall EXCEPT !.pc = "next", !.queue = Sweepable] \in Calls
      BY DEF IdleCall, Calls, Labels, Answers, Sweepable
    <2>2. call' \in [Workers -> Calls]
      BY <1>2, <2>1, BecomeType DEF SweepStart
    <2> QED
      BY <1>2, <2>2 DEF SweepStart, TypeOK, db, post
  <1> QED
    BY <1>1, <1>2 DEF Enter

(* A step of a running invocation, given that it works on a transaction.    *)
LEMMA TypeRun ==
  ASSUME TypeOK, CallsHaveTxn, NEW w \in Workers, Run(w)
  PROVE  TypeOK'
  <1>0. /\ call[w] \in Calls /\ call[w].txn \in Txns \cup {NoTxn}
        /\ call[w].queue \in SUBSET Txns /\ call[w].code \in Codes \cup {NoCode}
        /\ call[w].renewal \in Nat
    BY DEF TypeOK, Calls
  <1>a. After(w) \in Calls
    BY AfterType
  <1>m. \A label \in Labels : [call[w] EXCEPT !.pc = label] \in Calls
    BY <1>0 DEF Calls
  <1>g. \A label \in Labels : Goto(w, label) => call' \in [Workers -> Calls]
    BY <1>m, BecomeType DEF Goto
  <1>b. Become(w, After(w)) => call' \in [Workers -> Calls]
    BY <1>a, BecomeType
  <1>1. CASE SweepNext(w)
    <2>1. ASSUME NEW t \in call[w].queue
          PROVE  [IdleCall EXCEPT !.pc = "query", !.txn = t,
                                  !.queue = call[w].queue \ {t}] \in Calls
      BY <1>0, <2>1 DEF IdleCall, Calls, Labels, Answers
    <2>2. call' \in [Workers -> Calls]
      BY <1>1, <2>1, IdleCallType, BecomeType DEF SweepNext
    <2> QED
      BY <1>1, <2>2 DEF SweepNext, TypeOK, db, post
  <1>2. CASE Query(w)
    <2>1. ext[call[w].txn] \in Answers
      BY <1>2 DEF Query, At, CallsHaveTxn, TypeOK
    <2>2. [call[w] EXCEPT !.pc = "answered", !.answer = ext[call[w].txn]] \in Calls
      BY <2>1, <1>0 DEF Calls, Labels
    <2>3. call' \in [Workers -> Calls]
      BY <1>2, <2>2, BecomeType DEF Query
    <2> QED
      BY <1>2, <2>3 DEF Query, TypeOK, db, post
  <1>3. CASE QueryFails(w)
    <2>1. faults' \in Nat
      BY <1>3, FaultType DEF QueryFails
    <2> QED
      BY <1>3, <1>b, <2>1 DEF QueryFails, TypeOK, db, post
  <1>4. CASE Claim(w)
    <2>1. Fulfil(call[w].txn) \in Labels
      BY DEF Fulfil, Labels
    <2>2. call' \in [Workers -> Calls]
      BY <1>4, <2>1, <1>g, <1>b DEF Claim
    <2>3. status' \in [Txns -> Statuses]
      BY <1>4 DEF Claim, TypeOK, Statuses
    <2> QED
      BY <1>4, <2>2, <2>3 DEF Claim, TypeOK, post
  <1>5. CASE Reject(w)
    <2>1. status' \in [Txns -> Statuses]
      BY <1>5 DEF Reject, TypeOK, Statuses
    <2> QED
      BY <1>5, <2>1, <1>b DEF Reject, TypeOK, post
  <1>6. CASE Wait(w)
    BY <1>6, <1>b DEF Wait, TypeOK, db, post
  <1>7. CASE Issue(w)
    <2> PICK c \in Codes : IssueVoucher(w, c) \/ IssueFails(w, c)
      BY <1>7 DEF Issue
    <2>1. \A label \in Labels : [call[w] EXCEPT !.pc = label, !.code = c] \in Calls
      BY <1>0 DEF Calls
    <2>2. "link" \in Labels /\ "receipt" \in Labels
      BY DEF Labels
    <2>3. CASE IssueVoucher(w, c)
      <3>1. call' \in [Workers -> Calls]
        BY <2>1, <2>2, <2>3, BecomeType DEF IssueVoucher
      <3>2. voucher' \in [Codes -> Txns \cup {NoTxn}]
        BY <2>3, <1>0 DEF IssueVoucher, TypeOK
      <3> QED
        BY <2>3, <3>1, <3>2 DEF IssueVoucher, TypeOK, post
    <2>4. CASE IssueFails(w, c)
      <3>1. call' \in [Workers -> Calls]
        BY <2>1, <2>2, <2>4, BecomeType DEF IssueFails
      <3>2. faults' \in Nat
        BY <2>4, FaultType DEF IssueFails
      <3> QED
        BY <2>4, <3>1, <3>2 DEF IssueFails, TypeOK, db, post
    <2> QED
      BY <2>3, <2>4
  <1>8. CASE LinkVoucher(w)
    <2>1. call' \in [Workers -> Calls]
      BY <1>8, <1>g DEF LinkVoucher, Labels
    <2>2. faults' \in Nat
      BY <1>8, FaultType DEF LinkVoucher
    <2>3. voucherId' \in [Txns -> Codes \cup {NoCode}]
      BY <1>8, <1>0 DEF LinkVoucher, TypeOK
    <2> QED
      BY <1>8, <2>1, <2>2, <2>3 DEF LinkVoucher, TypeOK, post
  <1>9. CASE ReadAccount(w)
    <2>1. ASSUME NEW a \in Accounts
          PROVE  [call[w] EXCEPT !.pc = "renew",
                    !.renewal = Later(now, expiry[a]) + Duration] \in Calls
      <3>1. Later(now, expiry[a]) + Duration \in Nat
        BY TimeAssumption DEF Later, TypeOK
      <3> QED
        BY <3>1, <1>0 DEF Calls, Labels
    <2>2. call' \in [Workers -> Calls]
      BY <1>9, <2>1, <1>g, BecomeType DEF ReadAccount, AccountsOf, Labels
    <2> QED
      BY <1>9, <2>2 DEF ReadAccount, TypeOK, db, post
  <1>10. CASE WriteAccount(w)
    <2>1. call' \in [Workers -> Calls]
      BY <1>10, <1>g DEF WriteAccount, Labels
    <2>2. faults' \in Nat
      BY <1>10, FaultType DEF WriteAccount
    <2>3. expiry' \in [Accounts -> Nat]
      BY <1>10, <1>0 DEF WriteAccount, TypeOK
    <2> QED
      BY <1>10, <2>1, <2>2, <2>3 DEF WriteAccount, TypeOK, post
  <1>11. CASE Dispatch(w)
    <2>1. call[w].txn \in Txns
      BY <1>11 DEF Dispatch, At, CallsHaveTxn, Holding
    <2>2. jobs' \subseteq Receipts
      BY <1>11, <2>1, <1>0 DEF Dispatch, TypeOK, Receipts
    <2> QED
      BY <1>11, <2>2, <1>b DEF Dispatch, TypeOK, db
  <1>12. CASE Respond(w)
    <2>1. call' \in [Workers -> Calls]
      BY <1>12, IdleCallType, BecomeType DEF Respond
    <2> QED
      BY <1>12, <2>1 DEF Respond, TypeOK, db, post
  <1> QED
    BY <1>1, <1>2, <1>3, <1>4, <1>5, <1>6, <1>7, <1>8, <1>9, <1>10, <1>11, <1>12
    DEF Run

LEMMA TypeRest ==
  ASSUME TypeOK,
         \/ \E w \in Workers : Crash(w)
         \/ Background \/ Tick \/ UNCHANGED vars
  PROVE  TypeOK'
  <1>1. ASSUME NEW w \in Workers, Crash(w) PROVE TypeOK'
    <2>1. call' \in [Workers -> Calls]
      BY <1>1, IdleCallType, BecomeType DEF Crash
    <2>2. faults' \in Nat
      BY <1>1, FaultType DEF Crash
    <2> QED
      BY <1>1, <2>1, <2>2 DEF Crash, TypeOK, db, post
  <1>2. ASSUME NEW j \in jobs, SendReceipt(j) PROVE TypeOK'
    BY <1>2 DEF SendReceipt, TypeOK, db
  <1>3. ASSUME NEW j \in jobs, LoseReceipt(j) PROVE TypeOK'
    <2>1. faults' \in Nat
      BY <1>3, FaultType DEF LoseReceipt
    <2> QED
      BY <1>3, <2>1 DEF LoseReceipt, TypeOK, db
  <1>4. CASE Tick
    BY <1>4 DEF Tick, TypeOK, db, post
  <1>5. CASE UNCHANGED vars
    BY <1>5 DEF vars, TypeOK, db, post
  <1> QED
    BY <1>1, <1>2, <1>3, <1>4, <1>5 DEF Background

LEMMA TypeNext ==
  ASSUME TypeOK, CallsHaveTxn, [Next]_vars
  PROVE  TypeOK'
  BY TypePurchase, TypePesapal, TypeEnter, TypeRun, TypeRest DEF Next
-----------------------------------------------------------------------------
(* The inductive invariant *)

LEMMA InvInit == Init => IInv
  <1> SUFFICES ASSUME Init PROVE IInv
    OBVIOUS
  <1>1. TypeOK
    BY TypeInit
  <1>2. /\ \A w \in Workers : call[w].pc = "idle"
        /\ \A t \in Txns : status[t] = "absent" /\ voucherId[t] = NoCode /\ created[t] = 0
        /\ \A c \in Codes : voucher[c] = NoTxn
        /\ jobs = {} /\ sent = {} /\ now = 0
    BY DEF Init, IdleCall
  <1>3. CallsHaveTxn /\ AnswersAreTrue
    BY <1>2 DEF CallsHaveTxn, AnswersAreTrue, Holding
  <1>4. HoldersWon /\ HoldersAreFirst
    BY <1>2 DEF HoldersWon, HoldersAreFirst, Holds, Holding
  <1>5. CompletedIsPaid /\ ReceiptsAreCompleted /\ NotBoughtIsAbsent /\ PastIsPast
    BY <1>2 DEF CompletedIsPaid, ReceiptsAreCompleted, NotBoughtIsAbsent, PastIsPast, Init
  <1>6. VouchersArePaid /\ AtMostOneVoucher /\ LinkedToItsVoucher
        /\ OneReceipt /\ FailedWasRejected
    BY <1>2 DEF VouchersArePaid, AtMostOneVoucher, LinkedToItsVoucher, OneReceipt,
                FailedWasRejected
  <1> QED
    BY <1>1, <1>3, <1>4, <1>5, <1>6 DEF IInv, CallInv, DataInv

(* A step that leaves the data alone keeps the data's invariants.           *)
LEMMA DataSame ==
  ASSUME DataInv, UNCHANGED <<now, db, buy, ext, post>>
  PROVE  DataInv'
  BY DEF DataInv, CompletedIsPaid, ReceiptsAreCompleted, NotBoughtIsAbsent, PastIsPast,
     VouchersArePaid, AtMostOneVoucher, LinkedToItsVoucher, OneReceipt,
     FailedWasRejected, Age, db, post

(* A step of w that changes no data and leaves w holding nothing.           *)
LEMMA CallQuiet ==
  ASSUME TypeOK, CallInv, NEW w \in Workers, NEW c \in Calls, Become(w, c),
         c.pc \notin Holding \cup {"answered"},
         c.pc \in {"query", "respond"} => c.txn \in Txns,
         UNCHANGED <<db, ext, post>>
  PROVE  CallInv'
  <1>1. /\ call'[w] = c
        /\ \A v \in Workers : v # w => call'[v] = call[v]
    BY DEF Become, TypeOK
  <1>2. UNCHANGED <<status, voucherId, voucher, ext, jobs, sent>>
    BY DEF db, post
  <1>3. \A v \in Workers, t \in Txns : Holds(v, t)' => v # w /\ Holds(v, t)
    BY <1>1 DEF Holds
  <1>4. CallsHaveTxn'
    BY <1>1 DEF CallInv, CallsHaveTxn
  <1>5. AnswersAreTrue'
    BY <1>1, <1>2 DEF CallInv, AnswersAreTrue
  <1>6. HoldersWon'
    BY <1>1, <1>2, <1>3 DEF CallInv, HoldersWon
  <1>7. HoldersAreFirst'
    BY <1>1, <1>2, <1>3 DEF CallInv, HoldersAreFirst
  <1> QED
    BY <1>4, <1>5, <1>6, <1>7 DEF CallInv

(* Where reconcileTransaction's caller goes on, it holds nothing.           *)
LEMMA AfterQuiet ==
  ASSUME TypeOK, NEW w \in Workers, call[w].txn \in Txns
  PROVE  /\ After(w).pc \in {"idle", "next", "respond"}
         /\ After(w).pc = "respond" => After(w).txn \in Txns
  BY DEF After, IdleCall

LEMMA InvEnter ==
  ASSUME IInv, NEW w \in Workers, Enter(w)
  PROVE  IInv'
  <1>0. TypeOK /\ CallInv /\ DataInv
    BY DEF IInv
  <1>1. TypeOK'
    BY <1>0, TypeEnter
  <1>2. UNCHANGED <<now, db, buy, ext, post, faults>>
    BY DEF Enter, IpnStart, ReturnStart, StatusStart, ResumeStart, SweepStart
  <1>3. DataInv'
    BY <1>0, <1>2, DataSame
  <1>4. CallInv'
    <2>1. ASSUME NEW t \in Txns, Reconcile(w, t) PROVE CallInv'
      <3> DEFINE c == [IdleCall EXCEPT
                         !.pc = IF Reconcilable(t) THEN "query" ELSE "respond",
                         !.txn = t]
      <3>1. /\ c \in Calls /\ c.txn = t
            /\ c.pc \notin Holding \cup {"answered"}
        BY DEF IdleCall, Calls, Labels, Answers, Holding
      <3>2. Become(w, c)
        BY <2>1 DEF Reconcile
      <3> HIDE DEF c
      <3> QED
        BY <1>0, <1>2, <3>1, <3>2, CallQuiet
    <2>2. CASE SweepStart(w)
      <3> DEFINE c == [IdleCall EXCEPT !.pc = "next", !.queue = Sweepable]
      <3>1. /\ c \in Calls /\ c.pc = "next"
        BY DEF IdleCall, Calls, Labels, Answers, Sweepable
      <3>2. Become(w, c)
        BY <2>2 DEF SweepStart
      <3> HIDE DEF c
      <3> QED
        BY <1>0, <1>2, <3>1, <3>2, CallQuiet DEF Holding
    <2> QED
      BY <2>1, <2>2 DEF Enter, IpnStart, ReturnStart, StatusStart, ResumeStart
  <1> QED
    BY <1>1, <1>3, <1>4 DEF IInv
(* A step of the customer, of Pesapal or of the clock: it touches no        *)
(* invocation, opens rows, and never takes back what Pesapal reported.      *)
LEMMA InvOutside ==
  ASSUME IInv, TypeOK', NotBoughtIsAbsent',
         UNCHANGED <<voucherId, voucher, call, jobs, sent>>,
         now' >= now,
         \A u \in Txns : \/ status'[u] = status[u] /\ created'[u] = created[u]
                         \/ /\ status[u] = "absent" /\ status'[u] = "pending"
                            /\ created'[u] = now,
         \A u \in Txns : /\ ext[u] = "Completed" => ext'[u] = "Completed"
                         /\ ext[u] = "Failed" => ext'[u] \in {"Failed", "Completed"}
  PROVE  IInv'
  <1>0. CallInv /\ DataInv
    BY DEF IInv
  <1>a. /\ voucherId' = voucherId /\ voucher' = voucher /\ call' = call
        /\ jobs' = jobs /\ sent' = sent
    OBVIOUS
  <1>b. /\ now \in Nat /\ now' \in Nat
        /\ \A t \in Txns : created[t] \in Nat /\ created'[t] \in Nat
        /\ \A c \in Codes : voucher[c] \in Txns \cup {NoTxn}
        /\ \A r \in jobs \cup sent : r.txn \in Txns
    BY DEF IInv, TypeOK, Receipts
  <1>c. \A u \in Txns : status[u] \in {"completed", "failed"} => status'[u] = status[u]
    OBVIOUS
  <1>d. \A u \in Txns : status'[u] \in {"completed", "failed"} =>
                           status'[u] = status[u] /\ created'[u] = created[u]
    OBVIOUS
  <1>1. CallInv'
    <2>1. CallsHaveTxn'
      BY <1>0, <1>a DEF CallInv, CallsHaveTxn
    <2>2. AnswersAreTrue'
      BY <1>0, <1>a DEF CallInv, CallsHaveTxn, AnswersAreTrue
    <2>3. HoldersWon'
      BY <1>0, <1>a, <1>c DEF CallInv, HoldersWon, Holds
    <2>4. HoldersAreFirst'
      BY <1>0, <1>a DEF CallInv, HoldersAreFirst, Holds
    <2> QED
      BY <2>1, <2>2, <2>3, <2>4 DEF CallInv
  <1>2. DataInv'
    <2>1. CompletedIsPaid'
      BY <1>0, <1>d DEF DataInv, CompletedIsPaid
    <2>2. PastIsPast'
      BY <1>0, <1>b DEF DataInv, PastIsPast
    <2>3. ReceiptsAreCompleted' /\ OneReceipt'
      BY <1>0, <1>a, <1>b, <1>c DEF DataInv, ReceiptsAreCompleted, OneReceipt
    <2>4. VouchersArePaid'
      BY <1>0, <1>a, <1>b, <1>c, DataAssumption DEF DataInv, VouchersArePaid
    <2>5. AtMostOneVoucher' /\ LinkedToItsVoucher'
      BY <1>0, <1>a DEF DataInv, AtMostOneVoucher, LinkedToItsVoucher
    <2>6. FailedWasRejected'
      <3> SUFFICES ASSUME NEW t \in Txns, status'[t] = "failed"
                   PROVE  now' - created'[t] > Grace /\ ext'[t] \in {"Failed", "Completed"}
        BY DEF FailedWasRejected, Age
      <3>1. created'[t] = created[t] /\ now - created[t] > Grace
            /\ ext[t] \in {"Failed", "Completed"}
        BY <1>0, <1>d DEF DataInv, FailedWasRejected, Age
      <3> QED
        BY <3>1, <1>b, TimeAssumption
    <2> QED
      BY <2>1, <2>2, <2>3, <2>4, <2>5, <2>6 DEF DataInv
  <1> QED
    BY <1>1, <1>2 DEF IInv

LEMMA InvPurchase ==
  ASSUME IInv, NEW t \in Txns, Purchase(t)
  PROVE  IInv'
  <1>0. TypeOK /\ NotBoughtIsAbsent
    BY DEF IInv, DataInv
  <1>1. TypeOK'
    BY <1>0, TypePurchase
  <1>2. /\ UNCHANGED <<now, voucherId, voucher, call, jobs, sent>> /\ now \in Nat
        /\ buy[t] # "answered" /\ buy'[t] # "none"
        /\ buy'[t] = "inserted" => buy[t] = "none" /\ ext' = ext
        /\ \A u \in Txns : u # t => buy'[u] = buy[u] /\ ext'[u] = ext[u]
    BY <1>0 DEF Purchase, InsertTxn, SubmitOrder, SubmitFails, SaveTracking,
           PurchaseCrashes, db, post, TypeOK
  <1>3. \A u \in Txns : \/ status'[u] = status[u] /\ created'[u] = created[u]
                        \/ /\ u = t /\ status[u] = "absent" /\ status'[u] = "pending"
                           /\ created'[u] = now
    <2>1. CASE InsertTxn(t)
      BY <1>0, <2>1 DEF InsertTxn, NotBoughtIsAbsent, TypeOK
    <2>2. CASE ~InsertTxn(t)
      BY <2>2 DEF Purchase, SubmitOrder, SubmitFails, SaveTracking,
           PurchaseCrashes, db
    <2> QED
      BY <2>1, <2>2
  <1>4. \A u \in Txns : /\ ext[u] = "Completed" => ext'[u] = "Completed"
                        /\ ext[u] = "Failed" => ext'[u] \in {"Failed", "Completed"}
    BY <1>0 DEF Purchase, InsertTxn, SubmitOrder, SubmitFails, SaveTracking,
           PurchaseCrashes, NotBoughtIsAbsent, TypeOK
  <1>5. NotBoughtIsAbsent'
    BY <1>0, <1>2, <1>3 DEF NotBoughtIsAbsent
  <1> QED
    BY <1>1, <1>2, <1>3, <1>4, <1>5, InvOutside

LEMMA InvPesapal ==
  ASSUME IInv, NEW t \in Txns, Pesapal(t)
  PROVE  IInv'
  <1>0. TypeOK /\ DataInv /\ NotBoughtIsAbsent
    BY DEF IInv, DataInv
  <1>1. TypeOK'
    BY <1>0, TypePesapal
  <1>2. UNCHANGED <<now, db, buy, call, post>> /\ now \in Nat
    BY <1>0 DEF Pesapal, Settle, Flip, TypeOK
  <1>3. ext[t] \in {"Pending", "Failed"} /\ ext' \in [Txns -> Answers]
    BY <1>1 DEF Pesapal, Settle, Flip, TypeOK
  <1>4. \A u \in Txns : /\ ext[u] = "Completed" => ext'[u] = "Completed"
                        /\ ext[u] = "Failed" => ext'[u] \in {"Failed", "Completed"}
    BY <1>0 DEF Pesapal, Settle, Flip, TypeOK
  <1>5. NotBoughtIsAbsent'
    BY <1>0, <1>2, <1>3 DEF Pesapal, Settle, Flip, NotBoughtIsAbsent, TypeOK, db
  <1> QED
    BY <1>1, <1>2, <1>4, <1>5, InvOutside DEF db, post

LEMMA InvTick ==
  ASSUME IInv, Tick \/ UNCHANGED vars
  PROVE  IInv'
  <1>0. TypeOK /\ NotBoughtIsAbsent
    BY DEF IInv, DataInv
  <1>1. TypeOK'
    BY <1>0, TypeRest
  <1>2. UNCHANGED <<db, buy, ext, call, post>> /\ now' \in Nat /\ now' >= now
    BY <1>0 DEF Tick, vars, TypeOK
  <1>3. NotBoughtIsAbsent'
    BY <1>0, <1>2 DEF NotBoughtIsAbsent, db
  <1> QED
    BY <1>1, <1>2, <1>3, InvOutside DEF db, post

(* A step of a holder that stays a holder, past issuing and linking.        *)
LEMMA CallOnward ==
  ASSUME TypeOK, CallInv, NEW w \in Workers, NEW c \in Calls, Become(w, c),
         call[w].pc \in Holding, c.pc \in {"account", "renew", "receipt"},
         c.txn = call[w].txn,
         UNCHANGED <<status, voucher, ext, jobs, sent>>,
         \A u \in Txns : u # call[w].txn => voucherId'[u] = voucherId[u]
  PROVE  CallInv'
  <1>1. /\ call'[w] = c
        /\ \A v \in Workers : v # w => call'[v] = call[v]
    BY DEF Become, TypeOK
  <1>2. /\ status' = status /\ voucher' = voucher /\ ext' = ext
        /\ jobs' = jobs /\ sent' = sent
    OBVIOUS
  <1>3. \A v \in Workers, t \in Txns : Holds(v, t)' => Holds(v, t)
    BY <1>1 DEF Holds
  <1>4. CallsHaveTxn'
    BY <1>1 DEF CallInv, CallsHaveTxn
  <1>5. AnswersAreTrue'
    BY <1>1, <1>2 DEF CallInv, AnswersAreTrue
  <1>6. HoldersWon'
    BY <1>2, <1>3 DEF CallInv, HoldersWon
  <1>7. HoldersAreFirst'
    <2> SUFFICES ASSUME NEW v \in Workers, NEW t \in Txns, Holds(v, t)',
                        call'[v].pc \in {"issue", "link"}
                 PROVE  v # w /\ t # call[w].txn
      BY <1>1, <1>2, <1>3 DEF CallInv, HoldersAreFirst, Holds
    <2>1. v # w
      BY <1>1
    <2>2. Holds(w, call[w].txn) /\ call[w].txn \in Txns
      BY DEF Holds, CallInv, CallsHaveTxn
    <2> QED
      BY <1>3, <2>1, <2>2 DEF CallInv, HoldersWon
  <1> QED
    BY <1>4, <1>5, <1>6, <1>7 DEF CallInv

(* A step that only takes an invocation off its transaction.                *)
LEMMA InvRelease ==
  ASSUME IInv, NEW w \in Workers,
         Become(w, IdleCall) \/ (Become(w, After(w)) /\ call[w].txn \in Txns),
         UNCHANGED <<now, db, buy, ext, post>>, TypeOK'
  PROVE  IInv'
  <1>0. TypeOK /\ CallInv /\ DataInv
    BY DEF IInv
  <1>1. DataInv'
    BY <1>0, DataSame
  <1>2. CallInv'
    <2>1. CASE Become(w, IdleCall)
      <3>1. IdleCall.pc = "idle"
        BY DEF IdleCall
      <3> QED
        BY <1>0, <2>1, <3>1, IdleCallType, CallQuiet DEF Holding
    <2>2. CASE Become(w, After(w)) /\ call[w].txn \in Txns
      <3>1. /\ After(w).pc \notin Holding \cup {"answered"}
            /\ After(w).pc \in {"query", "respond"} => After(w).txn \in Txns
        BY <1>0, <2>2, AfterQuiet DEF Holding
      <3> HIDE DEF After
      <3> QED
        BY <1>0, <2>2, <3>1, AfterType, CallQuiet
    <2> QED
      BY <2>1, <2>2
  <1> QED
    BY <1>1, <1>2 DEF IInv

LEMMA InvSweepNext ==
  ASSUME IInv, NEW w \in Workers, SweepNext(w), TypeOK'
  PROVE  IInv'
  <1>0. TypeOK /\ CallInv /\ DataInv
    BY DEF IInv
  <1>1. CASE Become(w, IdleCall)
    BY <1>1, InvRelease DEF SweepNext
  <1>2. ASSUME NEW t \in call[w].queue,
               Become(w, [IdleCall EXCEPT !.pc = "query", !.txn = t,
                                          !.queue = call[w].queue \ {t}])
        PROVE  IInv'
    <2> DEFINE c == [IdleCall EXCEPT !.pc = "query", !.txn = t,
                                     !.queue = call[w].queue \ {t}]
    <2>1. call[w].queue \in SUBSET Txns
      BY <1>0 DEF TypeOK, Calls
    <2>2. c \in Calls /\ c.pc = "query" /\ c.txn \in Txns
      BY <2>1 DEF IdleCall, Calls, Labels, Answers
    <2>3. Become(w, c)
      BY <1>2
    <2> HIDE DEF c
    <2>4. CallInv'
      BY <1>0, <2>2, <2>3, CallQuiet DEF SweepNext, Holding
    <2>5. DataInv'
      BY <1>0, DataSame DEF SweepNext
    <2> QED
      BY <2>4, <2>5 DEF IInv
  <1> QED
    BY <1>1, <1>2 DEF SweepNext

LEMMA InvQuery ==
  ASSUME IInv, NEW w \in Workers, Query(w), TypeOK'
  PROVE  IInv'
  <1>0. TypeOK /\ CallInv /\ DataInv
    BY DEF IInv
  <1>1. DataInv'
    BY <1>0, DataSame DEF Query
  <1>2. call[w] \in Calls /\ call[w].txn \in Txns
    BY <1>0 DEF Query, At, CallInv, CallsHaveTxn, TypeOK
  <1>3. /\ call'[w].pc = "answered" /\ call'[w].txn = call[w].txn
        /\ call'[w].answer = ext[call[w].txn]
        /\ \A v \in Workers : v # w => call'[v] = call[v]
    BY <1>0, <1>2 DEF Query, Become, TypeOK, Calls
  <1>4. UNCHANGED <<status, voucherId, voucher, ext, jobs, sent>>
    BY DEF Query, db, post
  <1>5. \A v \in Workers, t \in Txns : Holds(v, t)' => v # w /\ Holds(v, t)
    BY <1>3 DEF Holds, Holding
  <1>6. CallsHaveTxn'
    BY <1>0, <1>2, <1>3 DEF CallInv, CallsHaveTxn
  <1>7. AnswersAreTrue'
    BY <1>0, <1>3, <1>4 DEF CallInv, AnswersAreTrue
  <1>8. HoldersWon'
    BY <1>0, <1>4, <1>5 DEF CallInv, HoldersWon
  <1>9. HoldersAreFirst'
    BY <1>0, <1>3, <1>4, <1>5 DEF CallInv, HoldersAreFirst
  <1> QED
    BY <1>1, <1>6, <1>7, <1>8, <1>9 DEF IInv, CallInv

(* The claim.  Whoever finds the row pending finds a transaction for which  *)
(* nobody holds, has issued or has receipted anything.                      *)
LEMMA InvClaim ==
  ASSUME IInv, NEW w \in Workers, Claim(w), TypeOK'
  PROVE  IInv'
  <1> DEFINE t == call[w].txn
  <1>0. TypeOK /\ CallInv /\ DataInv
    BY DEF IInv
  <1>1. t \in Txns /\ call[w] \in Calls /\ ext[t] = "Completed"
    BY <1>0 DEF Claim, At, CallInv, CallsHaveTxn, AnswersAreTrue, TypeOK
  <1>2. CASE status[t] # "pending"
    <2>1. Become(w, After(w)) /\ UNCHANGED <<now, db, buy, ext, post>>
      BY <1>2 DEF Claim, db
    <2> QED
      BY <2>1, <1>1, InvRelease
  <1>3. CASE status[t] = "pending"
    <2>1. /\ status' = [status EXCEPT ![t] = "completed"]
          /\ Goto(w, Fulfil(t))
          /\ UNCHANGED <<now, created, voucherId, voucher, buy, ext, jobs, sent>>
      BY <1>3 DEF Claim, post
    <2>2. /\ status'[t] = "completed"
          /\ \A u \in Txns : u # t => status'[u] = status[u]
      BY <2>1, <1>0, <1>1 DEF TypeOK
    <2>3. /\ call'[w].pc = Fulfil(t) /\ call'[w].txn = t
          /\ \A v \in Workers : v # w => call'[v] = call[v]
      BY <2>1, <1>0, <1>1 DEF Goto, Become, TypeOK, Calls
    <2>4. Fulfil(t) \in {"issue", "account", "receipt"}
          /\ (Fulfil(t) = "issue" => t \in Hotspot)
      BY DEF Fulfil
    <2>5. \A c \in Codes : voucher[c] # t
      BY <1>0, <1>1, <1>3, DataAssumption DEF DataInv, VouchersArePaid
    <2>6. voucherId[t] = NoCode
      BY <1>0, <1>1, <2>5 DEF DataInv, LinkedToItsVoucher, TypeOK
    <2>7. \A r \in jobs \cup sent : r.txn # t
      BY <1>0, <1>3 DEF DataInv, ReceiptsAreCompleted
    <2>8. \A v \in Workers : ~Holds(v, t)
      BY <1>0, <1>1, <1>3 DEF CallInv, HoldersWon
    <2> HIDE DEF t
    <2>9. \A v \in Workers, u \in Txns :
             Holds(v, u)' => \/ v = w /\ u = t
                             \/ v # w /\ u # t /\ Holds(v, u)
      BY <2>3, <2>4, <2>8 DEF Holds, Holding
    <2>10. CallInv'
      <3>1. CallsHaveTxn'
        BY <1>0, <1>1, <2>3 DEF CallInv, CallsHaveTxn
      <3>2. AnswersAreTrue'
        BY <1>0, <2>1, <2>3, <2>4 DEF CallInv, AnswersAreTrue
      <3>3. HoldersWon'
        BY <1>0, <2>1, <2>2, <2>7, <2>9 DEF CallInv, HoldersWon
      <3>4. HoldersAreFirst'
        BY <1>0, <2>1, <2>3, <2>4, <2>5, <2>6, <2>9 DEF CallInv, HoldersAreFirst
      <3> QED
        BY <3>1, <3>2, <3>3, <3>4 DEF CallInv
    <2>11. DataInv'
      <3>1. CompletedIsPaid'
        BY <1>0, <1>1, <2>1, <2>2 DEF DataInv, CompletedIsPaid
      <3>2. ReceiptsAreCompleted' /\ OneReceipt'
        <4>1. \A r \in jobs \cup sent : r.txn \in Txns
          BY <1>0 DEF TypeOK, Receipts
        <4> QED
          BY <4>1, <1>0, <2>1, <2>2 DEF DataInv, ReceiptsAreCompleted, OneReceipt
      <3>3. NotBoughtIsAbsent'
        BY <1>0, <1>1, <1>3, <2>1, <2>2 DEF DataInv, NotBoughtIsAbsent
      <3>4. PastIsPast' /\ AtMostOneVoucher' /\ LinkedToItsVoucher'
        BY <1>0, <2>1 DEF DataInv, PastIsPast, AtMostOneVoucher, LinkedToItsVoucher
      <3>5. VouchersArePaid'
        BY <1>0, <2>1, <2>2, DataAssumption DEF DataInv, VouchersArePaid
      <3>6. FailedWasRejected'
        BY <1>0, <2>1, <2>2 DEF DataInv, FailedWasRejected, Age
      <3> QED
        BY <3>1, <3>2, <3>3, <3>4, <3>5, <3>6 DEF DataInv
    <2> QED
      BY <2>10, <2>11 DEF IInv
  <1> QED
    BY <1>2, <1>3

(* Accepting "Failed": the row was pending, so nobody holds it.             *)
LEMMA InvReject ==
  ASSUME IInv, NEW w \in Workers, Reject(w), TypeOK'
  PROVE  IInv'
  <1> DEFINE t == call[w].txn
  <1>0. TypeOK /\ CallInv /\ DataInv
    BY DEF IInv
  <1>1. t \in Txns /\ ext[t] \in {"Failed", "Completed"}
    BY <1>0 DEF Reject, At, CallInv, CallsHaveTxn, AnswersAreTrue
  <1>2. CASE UNCHANGED status
    <2>1. Become(w, After(w)) /\ UNCHANGED <<now, db, buy, ext, post>>
      BY <1>2 DEF Reject, db
    <2> QED
      BY <2>1, <1>1, InvRelease
  <1>3. CASE Age(t) > Grace /\ status[t] = "pending"
             /\ status' = [status EXCEPT ![t] = "failed"]
    <2>1. /\ Become(w, After(w))
          /\ UNCHANGED <<now, created, voucherId, voucher, buy, ext, jobs, sent>>
      BY DEF Reject, post
    <2>2. /\ status'[t] = "failed"
          /\ \A u \in Txns : u # t => status'[u] = status[u]
      BY <1>3, <1>0, <1>1 DEF TypeOK
    <2>3. /\ call'[w] = After(w)
          /\ After(w).pc \in {"idle", "next", "respond"}
          /\ After(w).pc = "respond" => After(w).txn \in Txns
          /\ \A v \in Workers : v # w => call'[v] = call[v]
      BY <2>1, <1>0, <1>1, AfterQuiet DEF Become, TypeOK
    <2> HIDE DEF t
    <2>4. \A v \in Workers, u \in Txns : Holds(v, u)' => v # w /\ u # t /\ Holds(v, u)
      BY <1>0, <1>1, <1>3, <2>3 DEF Holds, Holding, CallInv, HoldersWon
    <2>5. CallInv'
      <3>1. CallsHaveTxn' /\ AnswersAreTrue'
        BY <1>0, <2>1, <2>3 DEF CallInv, CallsHaveTxn, AnswersAreTrue, Holding
      <3>2. HoldersWon' /\ HoldersAreFirst'
        BY <1>0, <2>1, <2>2, <2>3, <2>4 DEF CallInv, HoldersWon, HoldersAreFirst
      <3> QED
        BY <3>1, <3>2 DEF CallInv
    <2>6. DataInv'
      <3>1. CompletedIsPaid' /\ NotBoughtIsAbsent'
        BY <1>0, <1>1, <1>3, <2>1, <2>2 DEF DataInv, CompletedIsPaid, NotBoughtIsAbsent
      <3>2. ReceiptsAreCompleted' /\ OneReceipt'
        <4>1. \A r \in jobs \cup sent : r.txn \in Txns
          BY <1>0 DEF TypeOK, Receipts
        <4> QED
          BY <4>1, <1>0, <1>3, <2>1, <2>2 DEF DataInv, ReceiptsAreCompleted, OneReceipt
      <3>3. PastIsPast' /\ AtMostOneVoucher' /\ LinkedToItsVoucher'
        BY <1>0, <2>1 DEF DataInv, PastIsPast, AtMostOneVoucher, LinkedToItsVoucher
      <3>4. VouchersArePaid'
        BY <1>0, <1>1, <1>3, <2>1, <2>2, DataAssumption DEF DataInv, VouchersArePaid
      <3>5. FailedWasRejected'
        BY <1>0, <1>1, <1>3, <2>1, <2>2 DEF DataInv, FailedWasRejected, Age
      <3> QED
        BY <3>1, <3>2, <3>3, <3>4, <3>5 DEF DataInv
    <2> QED
      BY <2>5, <2>6 DEF IInv
  <1> QED
    BY <1>2, <1>3 DEF Reject

(* Issuing: the holder inserts the first voucher of its transaction.        *)
LEMMA InvIssue ==
  ASSUME IInv, NEW w \in Workers, Issue(w), TypeOK'
  PROVE  IInv'
  <1> DEFINE t == call[w].txn
  <1>0. TypeOK /\ CallInv /\ DataInv
    BY DEF IInv
  <1>1. PICK c \in Codes : IssueVoucher(w, c) \/ IssueFails(w, c)
    BY DEF Issue
  <1>2. /\ t \in Txns /\ call[w] \in Calls /\ call[w].pc = "issue" /\ Holds(w, t)
        /\ call[w].pc \in Holding
    BY <1>0, <1>1 DEF IssueVoucher, IssueFails, At, CallInv, CallsHaveTxn, Holding,
                      Holds, TypeOK
  <1>3. /\ t \in Hotspot /\ voucherId[t] = NoCode /\ status[t] = "completed"
        /\ \A d \in Codes : voucher[d] # t
    BY <1>0, <1>2 DEF CallInv, HoldersAreFirst, HoldersWon
  <1>4. CASE IssueVoucher(w, c)
    <2>1. /\ voucher' = [voucher EXCEPT ![c] = t] /\ voucher[c] = NoTxn
          /\ UNCHANGED <<now, status, created, voucherId, buy, ext, jobs, sent>>
      BY <1>4 DEF IssueVoucher, post
    <2>2. /\ voucher'[c] = t
          /\ \A d \in Codes : d # c => voucher'[d] = voucher[d]
      BY <2>1, <1>0, <1>2 DEF TypeOK
    <2>3. /\ call'[w].pc = "link" /\ call'[w].txn = t /\ call'[w].code = c
          /\ \A v \in Workers : v # w => call'[v] = call[v]
      BY <1>4, <1>0, <1>2 DEF IssueVoucher, Become, TypeOK, Calls
    <2> HIDE DEF t
    <2>4. \A v \in Workers, u \in Txns : Holds(v, u)' =>
             Holds(v, u) /\ (v # w => u # t)
      BY <1>0, <1>2, <2>3 DEF Holds, Holding, CallInv, HoldersWon
    <2>5. CallInv'
      <3>1. CallsHaveTxn' /\ AnswersAreTrue'
        BY <1>0, <1>2, <2>1, <2>3 DEF CallInv, CallsHaveTxn, AnswersAreTrue, Holding
      <3>2. HoldersWon'
        BY <1>0, <2>1, <2>4 DEF CallInv, HoldersWon
      <3>3. HoldersAreFirst'
        <4> SUFFICES ASSUME NEW v \in Workers, NEW u \in Txns, Holds(v, u)',
                            v # w, call'[v].pc \in {"issue", "link"}
                     PROVE  /\ u \in Hotspot /\ voucherId'[u] = NoCode
                            /\ call'[v].pc = "issue" => \A d \in Codes : voucher'[d] # u
                            /\ call'[v].pc = "link" =>
                                 call'[v].code \in Codes /\ voucher'[call'[v].code] = u
          BY <1>1, <1>3, <2>1, <2>2, <2>3 DEF HoldersAreFirst, Holds
        <4>1. Holds(v, u) /\ u # t /\ call'[v] = call[v]
          BY <2>3, <2>4
        <4>2. u # NoTxn
          BY DataAssumption
        <4> QED
          BY <4>1, <4>2, <1>0, <2>1, <2>2 DEF CallInv, HoldersAreFirst
      <3> QED
        BY <3>1, <3>2, <3>3 DEF CallInv
    <2>6. DataInv'
      <3>1. /\ CompletedIsPaid' /\ NotBoughtIsAbsent' /\ ReceiptsAreCompleted'
            /\ OneReceipt' /\ PastIsPast' /\ FailedWasRejected'
        BY <1>0, <2>1 DEF DataInv, CompletedIsPaid, NotBoughtIsAbsent, OneReceipt,
                          ReceiptsAreCompleted, PastIsPast, FailedWasRejected, Age
      <3>2. ext[t] = "Completed"
        BY <1>0, <1>2, <1>3 DEF DataInv, CompletedIsPaid
      <3>3. VouchersArePaid'
        BY <1>0, <1>3, <2>1, <2>2, <3>2 DEF DataInv, VouchersArePaid
      <3>4. AtMostOneVoucher'
        BY <1>0, <1>3, <2>1, <2>2 DEF DataInv, AtMostOneVoucher
      <3>5. LinkedToItsVoucher'
        <4> SUFFICES ASSUME NEW u \in Txns, voucherId[u] # NoCode
                     PROVE  voucher'[voucherId[u]] = u
          BY <2>1 DEF LinkedToItsVoucher
        <4>1. voucherId[u] \in Codes /\ voucher[voucherId[u]] = u /\ u # NoTxn
          BY <1>0, DataAssumption DEF DataInv, LinkedToItsVoucher, TypeOK
        <4> QED
          BY <4>1, <2>1, <2>2
      <3> QED
        BY <3>1, <3>3, <3>4, <3>5 DEF DataInv
    <2> QED
      BY <2>5, <2>6 DEF IInv
  <1>5. CASE IssueFails(w, c)
    <2> DEFINE d == [call[w] EXCEPT !.pc = "receipt", !.code = c]
    <2>1. d \in Calls /\ d.pc = "receipt" /\ d.txn = t
      BY <1>1, <1>2 DEF Calls, Labels
    <2>2. Become(w, d) /\ UNCHANGED <<now, db, buy, ext, post>>
      BY <1>5 DEF IssueFails
    <2> HIDE DEF d
    <2>3. CallInv'
      BY <1>0, <1>2, <2>1, <2>2, CallOnward DEF db, post
    <2>4. DataInv'
      BY <1>0, <2>2, DataSame
    <2> QED
      BY <2>3, <2>4 DEF IInv
  <1> QED
    BY <1>1, <1>4, <1>5

LEMMA InvLink ==
  ASSUME IInv, NEW w \in Workers, LinkVoucher(w), TypeOK'
  PROVE  IInv'
  <1> DEFINE t == call[w].txn
  <1> DEFINE d == [call[w] EXCEPT !.pc = "receipt"]
  <1>0. TypeOK /\ CallInv /\ DataInv
    BY DEF IInv
  <1>1. /\ t \in Txns /\ call[w] \in Calls /\ call[w].pc = "link" /\ Holds(w, t)
        /\ call[w].pc \in Holding
    BY <1>0 DEF LinkVoucher, At, CallInv, CallsHaveTxn, Holding, Holds, TypeOK
  <1>2. /\ voucherId[t] = NoCode /\ voucher[call[w].code] = t /\ call[w].code \in Codes
    BY <1>0, <1>1 DEF CallInv, HoldersAreFirst
  <1>3. d \in Calls /\ d.pc = "receipt" /\ d.txn = t
    BY <1>1 DEF Calls, Labels
  <1>4. /\ Become(w, d)
        /\ UNCHANGED <<now, status, created, voucher, buy, ext, jobs, sent>>
        /\ \/ voucherId' = [voucherId EXCEPT ![t] = call[w].code]
           \/ voucherId' = voucherId
    BY DEF LinkVoucher, Goto, post
  <1>5. /\ \A u \in Txns : u # t => voucherId'[u] = voucherId[u]
        /\ voucherId'[t] \in {NoCode, call[w].code}
    BY <1>0, <1>1, <1>2, <1>4 DEF TypeOK
  <1> HIDE DEF d, t
  <1>6. CallInv'
    BY <1>0, <1>1, <1>3, <1>4, <1>5, CallOnward DEF t
  <1>7. DataInv'
    <2>1. /\ CompletedIsPaid' /\ NotBoughtIsAbsent' /\ ReceiptsAreCompleted'
          /\ OneReceipt' /\ PastIsPast' /\ FailedWasRejected'
          /\ VouchersArePaid' /\ AtMostOneVoucher'
      BY <1>0, <1>4 DEF DataInv, CompletedIsPaid, NotBoughtIsAbsent, OneReceipt,
         ReceiptsAreCompleted, PastIsPast, FailedWasRejected, Age,
         VouchersArePaid, AtMostOneVoucher
    <2>2. LinkedToItsVoucher'
      BY <1>0, <1>2, <1>4, <1>5 DEF DataInv, LinkedToItsVoucher
    <2> QED
      BY <2>1, <2>2 DEF DataInv
  <1> QED
    BY <1>6, <1>7 DEF IInv

LEMMA InvAccount ==
  ASSUME IInv, NEW w \in Workers, ReadAccount(w) \/ WriteAccount(w), TypeOK'
  PROVE  IInv'
  <1>0. TypeOK /\ CallInv /\ DataInv
    BY DEF IInv
  <1>1. call[w] \in Calls /\ call[w].pc \in Holding
    BY <1>0 DEF ReadAccount, WriteAccount, At, Holding, TypeOK
  <1>2. UNCHANGED <<now, status, created, voucherId, voucher, buy, ext, jobs, sent>>
    BY DEF ReadAccount, WriteAccount, db, post
  <1>3. ASSUME NEW d \in Calls, Become(w, d), d.pc \in {"renew", "receipt"},
               d.txn = call[w].txn
        PROVE  CallInv'
    BY <1>0, <1>1, <1>2, <1>3, CallOnward
  <1>4. Goto(w, "receipt") => CallInv'
    <2> DEFINE d == [call[w] EXCEPT !.pc = "receipt"]
    <2>1. d \in Calls /\ d.pc = "receipt" /\ d.txn = call[w].txn
      BY <1>1 DEF Calls, Labels
    <2> HIDE DEF d
    <2>2. Goto(w, "receipt") => Become(w, d)
      BY DEF Goto, d
    <2> QED
      BY <2>1, <2>2, <1>3
  <1>5. ASSUME NEW a \in Accounts,
               Become(w, [call[w] EXCEPT !.pc = "renew",
                            !.renewal = Later(now, expiry[a]) + Duration])
        PROVE  CallInv'
    <2> DEFINE d == [call[w] EXCEPT !.pc = "renew",
                       !.renewal = Later(now, expiry[a]) + Duration]
    <2>1. Later(now, expiry[a]) + Duration \in Nat
      BY <1>0, TimeAssumption DEF Later, TypeOK
    <2>2. d \in Calls /\ d.pc = "renew" /\ d.txn = call[w].txn
      BY <1>1, <2>1 DEF Calls, Labels
    <2>3. Become(w, d)
      BY <1>5
    <2> HIDE DEF d
    <2> QED
      BY <2>2, <2>3, <1>3
  <1>6. CallInv'
    BY <1>4, <1>5 DEF ReadAccount, WriteAccount, AccountsOf
  <1>7. DataInv'
    BY <1>0, <1>2 DEF DataInv, CompletedIsPaid, NotBoughtIsAbsent, OneReceipt,
       ReceiptsAreCompleted, PastIsPast, FailedWasRejected, Age,
       VouchersArePaid, AtMostOneVoucher, LinkedToItsVoucher
  <1> QED
    BY <1>6, <1>7 DEF IInv

(* The receipt is queued as the holder lets go.                             *)
LEMMA InvDispatch ==
  ASSUME IInv, NEW w \in Workers, Dispatch(w), TypeOK'
  PROVE  IInv'
  <1> DEFINE t == call[w].txn
  <1>0. TypeOK /\ CallInv /\ DataInv
    BY DEF IInv
  <1>1. t \in Txns /\ Holds(w, t)
    BY <1>0 DEF Dispatch, At, CallInv, CallsHaveTxn, Holding, Holds
  <1>2. /\ status[t] = "completed"
        /\ \A v \in Workers : Holds(v, t) => v = w
        /\ \A r \in jobs \cup sent : r.txn # t
    BY <1>0, <1>1 DEF CallInv, HoldersWon
  <1>3. /\ call'[w] = After(w)
        /\ After(w).pc \in {"idle", "next", "respond"}
        /\ After(w).pc = "respond" => After(w).txn \in Txns
        /\ \A v \in Workers : v # w => call'[v] = call[v]
    BY <1>0, <1>1, AfterQuiet DEF Dispatch, Become, TypeOK
  <1>4. /\ UNCHANGED <<now, status, created, voucherId, voucher, buy, ext>>
        /\ \A r \in (jobs \cup sent)' :
              r \in jobs \cup sent \/ r = [by |-> w, txn |-> t, code |-> call[w].code]
    BY DEF Dispatch, db
  <1> HIDE DEF t
  <1>5. \A v \in Workers, u \in Txns : Holds(v, u)' => v # w /\ u # t /\ Holds(v, u)
    BY <1>2, <1>3 DEF Holds, Holding
  <1>6. CallInv'
    <2>1. CallsHaveTxn' /\ AnswersAreTrue'
      BY <1>0, <1>3, <1>4 DEF CallInv, CallsHaveTxn, AnswersAreTrue, Holding
    <2>2. HoldersWon' /\ HoldersAreFirst'
      BY <1>0, <1>3, <1>4, <1>5 DEF CallInv, HoldersWon, HoldersAreFirst
    <2> QED
      BY <2>1, <2>2 DEF CallInv
  <1>7. DataInv'
    <2>1. /\ CompletedIsPaid' /\ NotBoughtIsAbsent' /\ PastIsPast'
          /\ FailedWasRejected' /\ VouchersArePaid' /\ AtMostOneVoucher'
          /\ LinkedToItsVoucher'
      BY <1>0, <1>4 DEF DataInv, CompletedIsPaid, NotBoughtIsAbsent, PastIsPast,
         FailedWasRejected, Age, VouchersArePaid, AtMostOneVoucher, LinkedToItsVoucher
    <2>2. ReceiptsAreCompleted' /\ OneReceipt'
      BY <1>0, <1>2, <1>4 DEF DataInv, ReceiptsAreCompleted, OneReceipt
    <2> QED
      BY <2>1, <2>2 DEF DataInv
  <1> QED
    BY <1>6, <1>7 DEF IInv

LEMMA InvBackground ==
  ASSUME IInv, Background
  PROVE  IInv'
  <1>0. TypeOK /\ CallInv /\ DataInv
    BY DEF IInv
  <1>1. TypeOK'
    BY <1>0, TypeRest
  <1>2. /\ UNCHANGED <<now, db, buy, ext, call>>
        /\ (jobs \cup sent)' \subseteq jobs \cup sent
    BY DEF Background, SendReceipt, LoseReceipt
  <1>3. CallInv'
    BY <1>0, <1>2 DEF CallInv, CallsHaveTxn, AnswersAreTrue, HoldersWon,
       HoldersAreFirst, Holds, db
  <1>4. DataInv'
    BY <1>0, <1>2 DEF DataInv, CompletedIsPaid, NotBoughtIsAbsent, OneReceipt,
       ReceiptsAreCompleted, PastIsPast, FailedWasRejected, Age,
       VouchersArePaid, AtMostOneVoucher, LinkedToItsVoucher, db
  <1> QED
    BY <1>1, <1>3, <1>4 DEF IInv

LEMMA InvRun ==
  ASSUME IInv, NEW w \in Workers, Run(w)
  PROVE  IInv'
  <1>0. TypeOK /\ CallInv
    BY DEF IInv
  <1>1. TypeOK'
    BY <1>0, TypeRun DEF CallInv
  <1>2. CASE QueryFails(w) \/ Wait(w)
    <2>1. call[w].txn \in Txns
      BY <1>0, <1>2 DEF QueryFails, Wait, At, CallInv, CallsHaveTxn
    <2> QED
      BY <1>1, <1>2, <2>1, InvRelease DEF QueryFails, Wait
  <1>3. CASE Respond(w)
    BY <1>1, <1>3, InvRelease DEF Respond
  <1> QED
    BY <1>1, <1>2, <1>3, InvSweepNext, InvQuery, InvClaim, InvReject, InvIssue,
       InvLink, InvAccount, InvDispatch DEF Run

LEMMA InvCrash ==
  ASSUME IInv, NEW w \in Workers, Crash(w)
  PROVE  IInv'
  <1>1. TypeOK'
    BY TypeRest DEF IInv
  <1> QED
    BY <1>1, InvRelease DEF Crash

LEMMA InvNext ==
  ASSUME IInv, [Next]_vars
  PROVE  IInv'
  BY InvPurchase, InvPesapal, InvEnter, InvRun, InvCrash, InvBackground, InvTick DEF Next

(* The inductive invariant holds of every behaviour.                        *)
THEOREM Invariance == Spec => []IInv
  BY InvInit, InvNext, PTL DEF Spec

(* Type correctness of fulfilment.                                          *)
THEOREM TypeCorrect == Spec => []TypeOK
  BY Invariance, PTL DEF IInv

(* At most one voucher per payment, whatever races, crashes or is retried.  *)
THEOREM OneVoucherPerPayment == Spec => []AtMostOneVoucher
  <1>1. IInv => AtMostOneVoucher
    BY DEF IInv, DataInv
  <1> QED
    BY <1>1, Invariance, PTL

(* No voucher without a payment Pesapal itself reports.                     *)
THEOREM OnlyPaidVouchers == Spec => []VouchersArePaid
  <1>1. IInv => VouchersArePaid
    BY DEF IInv, DataInv
  <1> QED
    BY <1>1, Invariance, PTL

(* One payment, one receipt.                                                *)
THEOREM OneReceiptPerPayment == Spec => []OneReceipt
  <1>1. IInv => OneReceipt
    BY DEF IInv, DataInv
  <1> QED
    BY <1>1, Invariance, PTL

(* voucher_id always names the voucher issued for its own transaction.      *)
THEOREM LinksAreRight == Spec => []LinkedToItsVoucher
  <1>1. IInv => LinkedToItsVoucher
    BY DEF IInv, DataInv
  <1> QED
    BY <1>1, Invariance, PTL

-----------------------------------------------------------------------------
(* Receipts name the voucher that was issued. *)

(* What an invocation past issuing holds, and every receipt, agree with the *)
(* voucher of the transaction, if one was inserted.                         *)
Issued == Holding \ {"issue"}
CodesAgree ==
  /\ \A r \in jobs \cup sent, c \in Codes : voucher[c] = r.txn => r.code = c
  /\ \A w \in Workers, c \in Codes :
        call[w].pc \in Issued /\ voucher[c] = call[w].txn => call[w].code = c

(* A step that inserts no voucher and queues no receipt.                    *)
LEMMA CodesKept ==
  ASSUME CodesAgree, UNCHANGED voucher, (jobs \cup sent)' \subseteq jobs \cup sent,
         \A v \in Workers :
            \/ call'[v] = call[v]
            \/ call'[v].pc \notin Issued
            \/ call[v].pc \in Issued /\ call'[v].txn = call[v].txn /\ call'[v].code = call[v].code
            \/ \A c \in Codes : voucher[c] # call'[v].txn
  PROVE  CodesAgree'
  <1>1. \A r \in (jobs \cup sent)', c \in Codes : voucher'[c] = r.txn => r.code = c
    BY DEF CodesAgree
  <1>2. ASSUME NEW w \in Workers, NEW c \in Codes, call'[w].pc \in Issued,
               voucher[c] = call'[w].txn
        PROVE  call'[w].code = c
    BY <1>2 DEF CodesAgree
  <1> QED
    BY <1>1, <1>2 DEF CodesAgree, Issued

LEMMA CodesNext ==
  ASSUME IInv, CodesAgree, [Next]_vars
  PROVE  CodesAgree'
  <1>1. /\ TypeOK /\ CallInv /\ DataInv /\ call \in [Workers -> Calls]
        /\ voucher \in [Codes -> Txns \cup {NoTxn}]
    BY DEF IInv, TypeOK
  <1>2. ASSUME UNCHANGED <<voucher, call>>, (jobs \cup sent)' \subseteq jobs \cup sent
        PROVE  CodesAgree'
    BY <1>2, CodesKept
  <1>3. ASSUME NEW t \in Txns, Purchase(t) \/ Pesapal(t) PROVE CodesAgree'
    BY <1>2, <1>3 DEF Purchase, InsertTxn, SubmitOrder, SubmitFails, SaveTracking,
       PurchaseCrashes, Pesapal, Settle, Flip, db, post
  <1>4. CASE Background \/ Tick \/ UNCHANGED vars
    BY <1>2, <1>4 DEF Background, SendReceipt, LoseReceipt, Tick, vars, db, post
  <1>5. ASSUME NEW w \in Workers, NEW r, Become(w, r), r.pc \notin Issued,
               UNCHANGED <<voucher, jobs, sent>>
        PROVE  CodesAgree'
    <2>1. \A v \in Workers : call'[v] = call[v] \/ call'[v].pc \notin Issued
      BY <1>1, <1>5 DEF Become
    <2> QED
      BY <1>5, <2>1, CodesKept
  <1>6. ASSUME NEW w \in Workers, Enter(w) \/ Crash(w) \/ SweepNext(w) \/ Query(w) \/ Respond(w)
        PROVE  CodesAgree'
    <2>1. UNCHANGED <<voucher, jobs, sent>>
      BY <1>6 DEF Enter, IpnStart, ReturnStart, StatusStart, ResumeStart, SweepStart,
         Crash, SweepNext, Query, Respond, db, post
    <2>2. ASSUME NEW r, Become(w, r), r.pc \in {"idle", "next", "query", "answered", "respond"}
          PROVE  CodesAgree'
      BY <1>5, <2>1, <2>2 DEF Issued, Holding
    <2>3. ASSUME NEW t \in Txns, Reconcile(w, t) PROVE CodesAgree'
      <3> DEFINE r == [IdleCall EXCEPT
                         !.pc = IF Reconcilable(t) THEN "query" ELSE "respond", !.txn = t]
      <3>1. Become(w, r) /\ r.pc \in {"query", "respond"}
        BY <2>3 DEF Reconcile, IdleCall
      <3> HIDE DEF r
      <3> QED
        BY <2>2, <3>1
    <2>4. ASSUME NEW q, Become(w, [IdleCall EXCEPT !.pc = "next", !.queue = q])
          PROVE  CodesAgree'
      <3> DEFINE r == [IdleCall EXCEPT !.pc = "next", !.queue = q]
      <3>1. Become(w, r) /\ r.pc = "next"
        BY <2>4 DEF IdleCall
      <3> HIDE DEF r
      <3> QED
        BY <2>2, <3>1
    <2>5. ASSUME NEW t, NEW q,
                 Become(w, [IdleCall EXCEPT !.pc = "query", !.txn = t, !.queue = q])
          PROVE  CodesAgree'
      <3> DEFINE r == [IdleCall EXCEPT !.pc = "query", !.txn = t, !.queue = q]
      <3>1. Become(w, r) /\ r.pc = "query"
        BY <2>5 DEF IdleCall
      <3> HIDE DEF r
      <3> QED
        BY <2>2, <3>1
    <2>6. CASE Become(w, IdleCall)
      <3>1. IdleCall.pc = "idle"
        BY DEF IdleCall
      <3> QED
        BY <2>2, <2>6, <3>1
    <2>7. CASE Query(w)
      <3> DEFINE r == [call[w] EXCEPT !.pc = "answered", !.answer = ext[call[w].txn]]
      <3>1. Become(w, r) /\ r.pc = "answered"
        BY <1>1, <2>7 DEF Query, Calls
      <3> HIDE DEF r
      <3> QED
        BY <2>2, <3>1
    <2> QED
      BY <1>6, <2>3, <2>4, <2>5, <2>6, <2>7 DEF Enter, IpnStart, ReturnStart, StatusStart,
         ResumeStart, SweepStart, Crash, SweepNext, Respond
  <1>7. ASSUME NEW w \in Workers, Become(w, After(w)), UNCHANGED <<voucher, jobs, sent>>
        PROVE  CodesAgree'
    <2>1. After(w).pc \notin Issued
      BY DEF After, IdleCall, Issued, Holding
    <2> QED
      BY <1>5, <1>7, <2>1
  <1>8. ASSUME NEW w \in Workers, QueryFails(w) \/ Reject(w) \/ Wait(w) PROVE CodesAgree'
    BY <1>7, <1>8 DEF QueryFails, Reject, Wait, db, post
  <1>9. ASSUME NEW w \in Workers, Claim(w) PROVE CodesAgree'
    <2>1. call[w].txn \in Txns /\ UNCHANGED <<voucher, jobs, sent>>
      BY <1>1, <1>9 DEF Claim, At, CallInv, CallsHaveTxn, post
    <2>2. CASE status[call[w].txn] = "pending"
      <3>1. \A c \in Codes : voucher[c] # call[w].txn
        BY <1>1, <2>1, <2>2, DataAssumption DEF DataInv, VouchersArePaid
      <3>2. \A v \in Workers : call'[v] = call[v] \/ call'[v].txn = call[w].txn
        BY <1>1, <1>9, <2>2 DEF Claim, Goto, Become, Calls
      <3> QED
        BY <2>1, <3>1, <3>2, CodesKept
    <2>3. CASE status[call[w].txn] # "pending"
      BY <1>7, <1>9, <2>1, <2>3 DEF Claim
    <2> QED
      BY <2>2, <2>3
  <1>10. ASSUME NEW w \in Workers, NEW c \in Codes, IssueVoucher(w, c) \/ IssueFails(w, c)
         PROVE  CodesAgree'
    <2>1. /\ call[w].txn \in Txns /\ call[w].pc = "issue" /\ Holds(w, call[w].txn)
          /\ UNCHANGED <<jobs, sent>>
      BY <1>1, <1>10 DEF IssueVoucher, IssueFails, At, CallInv, CallsHaveTxn, Holds, Holding,
                         post
    <2>2. /\ \A d \in Codes : voucher[d] # call[w].txn
          /\ \A r \in jobs \cup sent : r.txn # call[w].txn
          /\ \A v \in Workers : Holds(v, call[w].txn) => v = w
      BY <1>1, <2>1 DEF CallInv, HoldersWon, HoldersAreFirst
    <2>3. /\ call'[w].txn = call[w].txn /\ call'[w].code = c
          /\ \A v \in Workers : v # w => call'[v] = call[v]
      BY <1>1, <1>10 DEF IssueVoucher, IssueFails, Become, Calls
    <2>4. CASE IssueFails(w, c)
      BY <2>1, <2>2, <2>3, <2>4, CodesKept DEF IssueFails, db
    <2>5. CASE IssueVoucher(w, c)
      <3>1. voucher'[c] = call[w].txn /\ \A d \in Codes : d # c => voucher'[d] = voucher[d]
        BY <1>1, <2>1, <2>5 DEF IssueVoucher
      <3>2. ASSUME NEW r \in jobs \cup sent, NEW d \in Codes, voucher'[d] = r.txn
            PROVE  r.code = d
        BY <2>2, <3>1, <3>2 DEF CodesAgree
      <3>3. ASSUME NEW v \in Workers, NEW d \in Codes, call'[v].pc \in Issued,
                   voucher'[d] = call'[v].txn
            PROVE  call'[v].code = d
        <4>1. CASE v = w
          BY <2>2, <2>3, <3>1, <3>3, <4>1
        <4>2. CASE v # w
          <5>1. call[v].pc \in Issued /\ call'[v] = call[v] /\ ~Holds(v, call[w].txn)
            BY <2>2, <2>3, <3>3, <4>2
          <5>2. call[v].txn # call[w].txn
            BY <5>1 DEF Holds, Issued
          <5> QED
            BY <3>1, <3>3, <5>1, <5>2 DEF CodesAgree
        <4> QED
          BY <4>1, <4>2
      <3> QED
        BY <2>1, <3>2, <3>3 DEF CodesAgree, Issued
    <2> QED
      BY <1>10, <2>4, <2>5
  <1>11. ASSUME NEW w \in Workers, LinkVoucher(w) \/ ReadAccount(w) \/ WriteAccount(w)
         PROVE  CodesAgree'
    <2>1. UNCHANGED <<voucher, jobs, sent>> /\ call[w].pc \in Issued
      BY <1>11 DEF LinkVoucher, ReadAccount, WriteAccount, At, Issued, Holding, db, post
    <2>2. /\ call'[w].txn = call[w].txn /\ call'[w].code = call[w].code
          /\ \A v \in Workers : v # w => call'[v] = call[v]
      BY <1>1, <1>11 DEF LinkVoucher, ReadAccount, WriteAccount, Goto, Become, Calls
    <2> QED
      BY <2>1, <2>2, CodesKept
  <1>12. ASSUME NEW w \in Workers, Dispatch(w) PROVE CodesAgree'
    <2> PICK j : j = [by |-> w, txn |-> call[w].txn, code |-> call[w].code]
      OBVIOUS
    <2>1. /\ (jobs \cup sent)' = jobs \cup sent \cup {j}
          /\ UNCHANGED voucher /\ call[w].pc \in Issued
          /\ j.txn = call[w].txn /\ j.code = call[w].code
      BY <1>12 DEF Dispatch, At, Issued, Holding, db
    <2>2. \A v \in Workers : call'[v] = call[v] \/ call'[v].pc \notin Issued
      BY <1>1, <1>12 DEF Dispatch, Become, After, IdleCall, Issued, Holding
    <2> QED
      BY <2>1, <2>2 DEF CodesAgree, Issued
  <1> QED
    BY <1>3, <1>4, <1>6, <1>8, <1>9, <1>10, <1>11, <1>12 DEF Next, Run, Issue

(* A receipt never names one code while its payment's voucher is another.   *)
THEOREM ReceiptsNameTheirVouchers == Spec => []ReceiptNamesItsVoucher
  <1>1. Init => CodesAgree
    BY DEF Init, CodesAgree, Issued, Holding, IdleCall
  <1>2. CodesAgree => ReceiptNamesItsVoucher
    BY DEF CodesAgree, ReceiptNamesItsVoucher
  <1> QED
    BY <1>1, <1>2, CodesNext, Invariance, PTL DEF Spec

-----------------------------------------------------------------------------
(* Action properties *)

LEMMA OutcomeNext == IInv /\ [Next]_vars => [OutcomeStep]_vars
  <1> SUFFICES ASSUME IInv, [Next]_vars PROVE OutcomeStep
    OBVIOUS
  <1>0. TypeOK /\ CallsHaveTxn /\ NotBoughtIsAbsent
    BY DEF IInv, CallInv, DataInv
  <1>1. ASSUME NEW t \in Txns, Purchase(t) PROVE OutcomeStep
    BY <1>0, <1>1 DEF Purchase, InsertTxn, SubmitOrder, SubmitFails, SaveTracking,
       PurchaseCrashes, db, OutcomeStep, NotBoughtIsAbsent, TypeOK
  <1>2. ASSUME NEW w \in Workers, Claim(w) \/ Reject(w) PROVE OutcomeStep
    BY <1>0, <1>2 DEF Claim, Reject, OutcomeStep, TypeOK
  <1>3. CASE UNCHANGED status
    BY <1>3 DEF OutcomeStep
  <1>4. ASSUME NEW w \in Workers, Run(w) PROVE OutcomeStep
    BY <1>2, <1>3, <1>4 DEF Run, SweepNext, Query, QueryFails, Wait, Issue, IssueVoucher,
       IssueFails, LinkVoucher, ReadAccount, WriteAccount, Dispatch, Respond, db
  <1>5. ASSUME NEW w \in Workers, Enter(w) \/ Crash(w) PROVE OutcomeStep
    BY <1>3, <1>5 DEF Enter, IpnStart, ReturnStart, StatusStart, ResumeStart,
       SweepStart, Crash, db
  <1>6. ASSUME NEW t \in Txns, Pesapal(t) PROVE OutcomeStep
    BY <1>3, <1>6 DEF Pesapal, Settle, Flip, db
  <1>7. CASE Background \/ Tick \/ UNCHANGED vars
    BY <1>3, <1>7 DEF Background, SendReceipt, LoseReceipt, Tick, vars, db
  <1> QED
    BY <1>1, <1>4, <1>5, <1>6, <1>7 DEF Next

(* No late answer of a slower invocation overwrites an outcome.             *)
THEOREM OutcomesAreFinal == Spec => OutcomeIsFinal
  BY Invariance, OutcomeNext, PTL DEF Spec, OutcomeIsFinal

(* What invocation w does next is not to act on a "Failed" for t.           *)
LEMMA NotDoubted ==
  ASSUME NEW t \in Txns, ~Doubted(t), NEW w \in Workers,
         \A v \in Workers \ {w} : call'[v] = call[v],
         call'[w].pc = "answered" => call'[w].txn # t \/ call'[w].answer # "Failed"
  PROVE  ~Doubted(t)'
  BY DEF Doubted, At

LEMMA StillNotDoubted ==
  ASSUME NEW t \in Txns, ~Doubted(t), UNCHANGED call
  PROVE  ~Doubted(t)'
  BY DEF Doubted, At

LEMMA HealNext == IInv /\ [Next]_vars => [HealStep]_vars
  <1> SUFFICES ASSUME IInv, [Next]_vars, NEW t \in Txns, Heals(t)
               PROVE  status'[t] # "failed" /\ ~Doubted(t)'
    BY DEF HealStep
  <1>0. TypeOK /\ CallsHaveTxn /\ NotBoughtIsAbsent /\ FailedWasRejected
    BY DEF IInv, CallInv, DataInv
  <1>1. ext[t] = "Completed" /\ ~Doubted(t) /\ status[t] # "failed"
    <2>1. now - created[t] \in Int /\ Grace \in Nat
      BY <1>0, TimeAssumption DEF TypeOK
    <2> QED
      BY <1>0, <2>1 DEF Heals, FailedWasRejected, Age
  <1>2. ASSUME NEW u \in Txns, Purchase(u) \/ Pesapal(u)
        PROVE  status'[t] # "failed" /\ UNCHANGED call
    BY <1>0, <1>1, <1>2 DEF Purchase, InsertTxn, SubmitOrder, SubmitFails, SaveTracking,
       PurchaseCrashes, Pesapal, Settle, Flip, db, TypeOK
  <1>3. CASE Background \/ Tick \/ UNCHANGED vars
    <2>1. UNCHANGED status /\ UNCHANGED call
      BY <1>3 DEF Background, SendReceipt, LoseReceipt, Tick, vars, db
    <2> QED
      BY <1>1, <2>1, StillNotDoubted
  <1>4. ASSUME NEW w \in Workers, Query(w)
        PROVE  UNCHANGED status /\ ~Doubted(t)'
    <2>1. PICK c : c = [call[w] EXCEPT !.pc = "answered", !.answer = ext[call[w].txn]]
      OBVIOUS
    <2>2. call[w] \in Calls /\ call[w].txn \in Txns
      BY <1>0, <1>4 DEF TypeOK, CallsHaveTxn, Query, At
    <2>3. c.txn = call[w].txn /\ c.answer = ext[call[w].txn]
      BY <2>1, <2>2 DEF Calls
    <2>4. call' = [call EXCEPT ![w] = c] /\ UNCHANGED status
      BY <1>4, <2>1 DEF Query, Become, db
    <2>5. call'[w] = c /\ \A v \in Workers \ {w} : call'[v] = call[v]
      BY <1>0, <2>4 DEF TypeOK
    <2> QED
      BY <1>1, <2>3, <2>4, <2>5, NotDoubted
  <1>5. ASSUME NEW w \in Workers, Claim(w) \/ Reject(w) PROVE status'[t] # "failed"
    BY <1>0, <1>1, <1>5 DEF Claim, Reject, Doubted, TypeOK
  <1>6. ASSUME NEW w \in Workers,
               Enter(w) \/ Crash(w) \/ (Run(w) /\ ~Query(w))
        PROVE  /\ \A v \in Workers \ {w} : call'[v] = call[v]
               /\ call'[w].pc # "answered"
               /\ ~(Claim(w) \/ Reject(w)) => UNCHANGED status
    <2>A. call[w] \in Calls /\ call \in [Workers -> Calls]
      BY <1>0 DEF TypeOK
    <2> DEFINE Quiet == /\ \A v \in Workers \ {w} : call'[v] = call[v]
                        /\ call'[w].pc # "answered"
    <2>B. ASSUME NEW c, Become(w, c), c.pc # "answered" PROVE Quiet
      BY <2>A, <2>B DEF Become
    <2>G. ASSUME NEW label, Goto(w, label), label # "answered" PROVE Quiet
      <3>1. [call[w] EXCEPT !.pc = label].pc = label
        BY <2>A DEF Calls
      <3> QED
        BY <2>B, <2>G, <3>1 DEF Goto
    <2> HIDE DEF Quiet
    <2>1. CASE Enter(w)
      <3>1. ASSUME NEW u, Reconcile(w, u) PROVE Quiet
        <4>1. [IdleCall EXCEPT !.pc = IF Reconcilable(u) THEN "query" ELSE "respond",
                               !.txn = u].pc # "answered"
          BY DEF IdleCall
        <4> QED
          BY <3>1, <4>1, <2>B DEF Reconcile
      <3>2. [IdleCall EXCEPT !.pc = "next", !.queue = Sweepable].pc # "answered"
        BY DEF IdleCall
      <3>3. CASE SweepStart(w)
        BY <3>2, <3>3, <2>B DEF SweepStart, db, Quiet
      <3>4. CASE \E u \in Txns : IpnStart(w, u) \/ ReturnStart(w, u) \/ StatusStart(w, u)
                                   \/ ResumeStart(w, u)
        BY <3>1, <3>4 DEF IpnStart, ReturnStart, StatusStart, ResumeStart, db, Quiet
      <3> QED
        BY <2>1, <3>3, <3>4 DEF Enter
    <2>2. After(w).pc # "answered" /\ IdleCall.pc # "answered"
      BY DEF After, IdleCall
    <2>3. CASE SweepNext(w)
      <3>1. ASSUME NEW u, Become(w, [IdleCall EXCEPT !.pc = "query", !.txn = u,
                                                     !.queue = call[w].queue \ {u}])
            PROVE  Quiet
        <4>1. PICK c : c = [IdleCall EXCEPT !.pc = "query", !.txn = u,
                                            !.queue = call[w].queue \ {u}]
          OBVIOUS
        <4>2. c.pc # "answered"
          BY <4>1 DEF IdleCall
        <4> QED
          BY <2>B, <3>1, <4>1, <4>2
      <3>2. Become(w, IdleCall) => Quiet
        BY <2>2, <2>B
      <3>3. Become(w, IdleCall) \/
            \E u \in call[w].queue :
               Become(w, [IdleCall EXCEPT !.pc = "query", !.txn = u,
                                          !.queue = call[w].queue \ {u}])
        BY <2>3, Zenon DEF SweepNext
      <3>4. UNCHANGED status
        BY <2>3, Zenon DEF SweepNext, db
      <3> QED
        BY <3>1, <3>2, <3>3, <3>4, Zenon DEF Quiet
    <2>4. CASE QueryFails(w) \/ Reject(w) \/ Wait(w) \/ Dispatch(w) \/ Respond(w)
               \/ Crash(w)
      BY <2>B, <2>2, <2>4 DEF QueryFails, Reject, Wait, Dispatch, Respond, Crash, db, Quiet
    <2>5. CASE Claim(w)
      <3>1. Fulfil(call[w].txn) # "answered"
        BY DEF Fulfil
      <3> QED
        BY <2>B, <2>G, <2>2, <2>5, <3>1 DEF Claim, Quiet
    <2>6. CASE LinkVoucher(w) \/ WriteAccount(w)
      BY <2>G, <2>6 DEF LinkVoucher, WriteAccount, Quiet
    <2>7. CASE ReadAccount(w)
      <3>1. ASSUME NEW n
            PROVE  [call[w] EXCEPT !.pc = "renew", !.renewal = n].pc # "answered"
        BY <2>A DEF Calls
      <3>2. Quiet
        BY <2>B, <2>G, <2>7, <3>1, Zenon DEF ReadAccount
      <3>3. UNCHANGED status
        BY <2>7, Zenon DEF ReadAccount, db
      <3> QED
        BY <3>2, <3>3 DEF Quiet
    <2>8. CASE Issue(w)
      <3> PICK d \in Codes : IssueVoucher(w, d) \/ IssueFails(w, d)
        BY <2>8 DEF Issue
      <3>1. ASSUME NEW label, label # "answered",
                   Become(w, [call[w] EXCEPT !.pc = label, !.code = d])
            PROVE  Quiet
        <4>1. PICK c : c = [call[w] EXCEPT !.pc = label, !.code = d]
          OBVIOUS
        <4>2. c.pc # "answered"
          BY <2>A, <3>1, <4>1 DEF Calls
        <4> QED
          BY <2>B, <3>1, <4>1, <4>2
      <3>2. Quiet
        BY <3>1, Zenon DEF IssueVoucher, IssueFails
      <3>3. UNCHANGED status
        BY DEF IssueVoucher, IssueFails, db
      <3> QED
        BY <3>2, <3>3 DEF Quiet
    <2> QED
      BY <1>6, <2>1, <2>3, <2>4, <2>5, <2>6, <2>7, <2>8 DEF Run
  <1>7. ASSUME NEW w \in Workers, Enter(w) \/ Run(w) \/ Crash(w)
        PROVE  status'[t] # "failed" /\ ~Doubted(t)'
    BY <1>0, <1>1, <1>4, <1>5, <1>6, <1>7, NotDoubted
  <1> QED
    BY <1>1, <1>2, <1>3, <1>7, StillNotDoubted DEF Next

(* A false "Failed" that Pesapal takes back in time costs nothing.          *)
THEOREM TakenBackInTime == Spec => FalseNegativesHeal
  BY Invariance, HealNext, PTL DEF Spec, FalseNegativesHeal

LEMMA LinkNext == IInv /\ [Next]_vars => [LinkStep]_vars
  <1> SUFFICES ASSUME IInv, [Next]_vars PROVE LinkStep
    OBVIOUS
  <1>0. TypeOK /\ CallInv
    BY DEF IInv
  <1>1. ASSUME NEW w \in Workers, LinkVoucher(w) PROVE LinkStep
    <2>1. call[w].txn \in Txns /\ Holds(w, call[w].txn) /\ call[w].pc = "link"
      BY <1>0, <1>1 DEF LinkVoucher, At, CallInv, CallsHaveTxn, Holding, Holds
    <2>2. voucherId[call[w].txn] = NoCode
      BY <1>0, <2>1 DEF CallInv, HoldersAreFirst
    <2> QED
      BY <1>0, <1>1, <2>2 DEF LinkVoucher, LinkStep, TypeOK
  <1>2. CASE UNCHANGED voucherId
    BY <1>2 DEF LinkStep
  <1>3. ASSUME NEW w \in Workers, Run(w) PROVE LinkStep
    BY <1>1, <1>2, <1>3 DEF Run, SweepNext, Query, QueryFails, Wait, Issue, IssueVoucher,
       IssueFails, Claim, Reject, ReadAccount, WriteAccount, Dispatch, Respond, db
  <1>4. ASSUME NEW w \in Workers, Enter(w) \/ Crash(w) PROVE LinkStep
    BY <1>2, <1>4 DEF Enter, IpnStart, ReturnStart, StatusStart, ResumeStart,
       SweepStart, Crash, db
  <1>5. ASSUME NEW t \in Txns, Pesapal(t) \/ Purchase(t) PROVE LinkStep
    BY <1>2, <1>5 DEF Pesapal, Settle, Flip, Purchase, InsertTxn, SubmitOrder,
       SubmitFails, SaveTracking, PurchaseCrashes, db
  <1>6. CASE Background \/ Tick \/ UNCHANGED vars
    BY <1>2, <1>6 DEF Background, SendReceipt, LoseReceipt, Tick, vars, db
  <1> QED
    BY <1>3, <1>4, <1>5, <1>6 DEF Next

(* The voucher a customer was shown stays the voucher of the payment.       *)
THEOREM LinksAreFinal == Spec => LinkIsFinal
  BY Invariance, LinkNext, PTL DEF Spec, LinkIsFinal

-----------------------------------------------------------------------------
(* Paid time.  A renewal is in flight from the claim until the account is   *)
(* written; the others are done, and no account runs ahead of those.        *)
Renewing == {"account", "renew"}
InFlight == {t \in Txns : \E w \in Workers : Holds(w, t) /\ call[w].pc \in Renewing}
Done(p) == Renewals(p) \ InFlight
Opened == {t \in Txns : status[t] # "absent"}

(* The time n renewals pay for, from now.                                   *)
Ahead(n) == now + Duration * n

RenewInv ==
  /\ IsFiniteSet(Opened)
  /\ \A a \in Accounts : expiry[a] <= Ahead(Cardinality(Done(Owner[a])))
  /\ \A w \in Workers :
        /\ call[w].pc \in Renewing => call[w].txn \notin Hotspot
        /\ call[w].pc = "renew" =>
              call[w].renewal <= Ahead(Cardinality(Done(customerId[call[w].txn])) + 1)

LEMMA AheadGrows ==
  ASSUME now \in Nat, now' \in Nat, now <= now', NEW m \in Nat, NEW n \in Nat, m <= n
  PROVE  /\ Ahead(m) \in Nat /\ Ahead(n)' \in Nat
         /\ now <= Ahead(m) /\ Ahead(m) <= Ahead(n)'
         /\ Ahead(m + 1) = Ahead(m) + Duration
  <1>1. Duration \in Nat
    BY TimeAssumption DEF TimeAssumption
  <1>2. Duration * m \in Nat /\ Duration * n \in Nat /\ Duration * m <= Duration * n
          /\ Duration * (m + 1) = Duration * m + Duration
    BY <1>1
  <1>3. PICK x \in Nat, y \in Nat, z \in Nat :
           x = Duration * m /\ y = Duration * n /\ z = Duration * (m + 1)
    BY <1>1, <1>2
  <1>4. x <= y /\ z = x + Duration
    BY <1>2, <1>3
  <1>5. Ahead(m) = now + x /\ Ahead(n)' = now' + y /\ Ahead(m + 1) = now + z
    BY <1>3 DEF Ahead
  <1>6. Ahead(m) \in Nat /\ Ahead(n)' \in Nat
    BY <1>3, <1>5
  <1>7. now <= Ahead(m) /\ Ahead(m) <= Ahead(n)'
    BY <1>3, <1>4, <1>5
  <1>8. Ahead(m + 1) = Ahead(m) + Duration
    BY <1>1, <1>3, <1>4, <1>5
  <1> QED
    BY <1>6, <1>7, <1>8

(* The done renewals of one customer are finitely many.                     *)
LEMMA DoneFinite ==
  ASSUME IsFiniteSet(Opened), NEW p
  PROVE  IsFiniteSet(Done(p)) /\ Cardinality(Done(p)) \in Nat
  <1>1. Done(p) \in SUBSET Opened
    BY DEF Done, Renewals, Opened
  <1>2. IsFiniteSet(Done(p))
    BY <1>1, FS_Subset
  <1> QED
    BY <1>2, FS_CardinalityType

-----------------------------------------------------------------------------
(* What a step does to the invocations that renew.                          *)
LEMMA RowSteps ==
  ASSUME IInv, [Next]_vars
  PROVE  /\ TypeOK' /\ now \in Nat /\ now' \in Nat /\ now <= now'
         /\ \E t : Opened' \subseteq Opened \cup {t}
         /\ \A t \in Txns : status[t] # "absent" => customerId'[t] = customerId[t]
         /\ \A t \in Txns : status[t] = "completed" => status'[t] = "completed"
  <1>1. IInv' /\ TypeOK' /\ TypeOK /\ NotBoughtIsAbsent
    BY InvNext DEF IInv, DataInv
  <1>2. OutcomeStep \/ UNCHANGED vars
    BY OutcomeNext
  <1>3. \A t \in Txns : status[t] = "completed" => status'[t] = "completed"
    BY <1>2 DEF OutcomeStep, vars, db
  <1>4. now \in Nat /\ now' \in Nat
    BY <1>1 DEF TypeOK
  <1>5. ASSUME NEW t \in Txns, InsertTxn(t)
        PROVE  /\ Opened' \subseteq Opened \cup {t} /\ now' = now
               /\ \A u \in Txns : status[u] # "absent" => customerId'[u] = customerId[u]
    BY <1>1, <1>5 DEF InsertTxn, Opened, NotBoughtIsAbsent, TypeOK
  <1>6. \/ \E t \in Txns : InsertTxn(t)
        \/ /\ customerId' = customerId /\ now <= now'
           /\ \/ status' = status
              \/ \E t \in Txns : status' = [status EXCEPT ![t] = "completed"]
              \/ \E t \in Txns : status' = [status EXCEPT ![t] = "failed"]
    <2>1. ASSUME NEW t \in Txns, Purchase(t), ~InsertTxn(t)
          PROVE  UNCHANGED <<status, customerId, now>>
      BY <2>1 DEF Purchase, SubmitOrder, SubmitFails, SaveTracking, PurchaseCrashes, db
    <2>2. ASSUME NEW t \in Txns, Pesapal(t) PROVE UNCHANGED <<status, customerId, now>>
      BY <2>2 DEF Pesapal, Settle, Flip, db
    <2>3. ASSUME NEW w \in Workers, Enter(w) \/ Crash(w) PROVE UNCHANGED <<status, customerId, now>>
      BY <2>3 DEF Enter, IpnStart, ReturnStart, StatusStart, ResumeStart, SweepStart, Crash, db
    <2>4. ASSUME NEW w \in Workers, Claim(w) \/ Reject(w)
          PROVE  /\ UNCHANGED <<customerId, now>>
                 /\ \/ status' = status
                    \/ \E t \in Txns : status' = [status EXCEPT ![t] = "completed"]
                    \/ \E t \in Txns : status' = [status EXCEPT ![t] = "failed"]
      <3>1. call[w].txn \in Txns
        BY <2>4 DEF Claim, Reject, At, IInv, CallInv, CallsHaveTxn
      <3> QED
        BY <2>4, <3>1 DEF Claim, Reject
    <2>5. ASSUME NEW w \in Workers, Run(w), ~Claim(w), ~Reject(w)
          PROVE  UNCHANGED <<status, customerId, now>>
      BY <2>5 DEF Run, SweepNext, Query, QueryFails, Wait, Issue, IssueVoucher,
         IssueFails, LinkVoucher, ReadAccount, WriteAccount, Dispatch, Respond, db
    <2>6. CASE Background \/ Tick \/ UNCHANGED vars
      BY <1>4, <2>6 DEF Background, SendReceipt, LoseReceipt, Tick, vars, db
    <2> QED
      BY <1>4, <2>1, <2>2, <2>3, <2>4, <2>5, <2>6 DEF Next
  <1>7. \/ \E t \in Txns : InsertTxn(t)
        \/ Opened' \subseteq Opened
    BY <1>1, <1>2, <1>6 DEF Opened, OutcomeStep, TypeOK, vars, db
  <1> QED
    BY <1>1, <1>3, <1>4, <1>5, <1>6, <1>7

LEMMA CallSteps ==
  ASSUME IInv, [Next]_vars, NEW v \in Workers, call'[v].pc \in Renewing
  PROVE  \/ call'[v] = call[v]
         \/ /\ call'[v].pc = "account" /\ call'[v].txn \notin Hotspot
            /\ status[call'[v].txn] = "pending"
         \/ /\ call[v].pc = "account" /\ call'[v].pc = "renew" /\ call'[v].txn = call[v].txn
            /\ UNCHANGED <<now, customerId, status>>
            /\ \E a \in Accounts : /\ Owner[a] = customerId[call[v].txn]
                                   /\ call'[v].renewal = Later(now, expiry[a]) + Duration
  <1>1. /\ TypeOK /\ CallInv /\ call \in [Workers -> Calls]
    BY DEF IInv, TypeOK
  <1>2. ASSUME NEW w \in Workers, NEW r, Become(w, r), r.pc \notin Renewing
        PROVE  call'[v] = call[v]
    BY <1>1, <1>2 DEF Become
  <1>3. CASE UNCHANGED call
    BY <1>3
  <1>4. ASSUME NEW t \in Txns, Purchase(t) \/ Pesapal(t) PROVE UNCHANGED call
    BY <1>4 DEF Purchase, InsertTxn, SubmitOrder, SubmitFails, SaveTracking,
       PurchaseCrashes, Pesapal, Settle, Flip
  <1>5. CASE Background \/ Tick \/ UNCHANGED vars
    BY <1>5 DEF Background, SendReceipt, LoseReceipt, Tick, vars
  <1>6. ASSUME NEW w \in Workers, Become(w, After(w)) PROVE call'[v] = call[v]
    <2>1. After(w).pc \notin Renewing
      BY DEF After, IdleCall, Renewing
    <2> QED
      BY <1>2, <1>6, <2>1
  <1>7. ASSUME NEW w \in Workers, Enter(w) \/ Crash(w) \/ SweepNext(w) \/ Respond(w)
        PROVE  call'[v] = call[v]
    <2>1. ASSUME NEW t \in Txns, Reconcile(w, t) PROVE call'[v] = call[v]
      <3> DEFINE r == [IdleCall EXCEPT
                         !.pc = IF Reconcilable(t) THEN "query" ELSE "respond", !.txn = t]
      <3>1. Become(w, r) /\ r.pc \notin Renewing
        BY <2>1 DEF Reconcile, IdleCall, Renewing
      <3> HIDE DEF r
      <3> QED
        BY <1>2, <3>1
    <2>2. ASSUME NEW q, Become(w, [IdleCall EXCEPT !.pc = "next", !.queue = q])
          PROVE  call'[v] = call[v]
      <3> DEFINE r == [IdleCall EXCEPT !.pc = "next", !.queue = q]
      <3>1. Become(w, r) /\ r.pc \notin Renewing
        BY <2>2 DEF IdleCall, Renewing
      <3> HIDE DEF r
      <3> QED
        BY <1>2, <3>1
    <2>3. ASSUME NEW t, NEW q,
                 Become(w, [IdleCall EXCEPT !.pc = "query", !.txn = t, !.queue = q])
          PROVE  call'[v] = call[v]
      <3> DEFINE r == [IdleCall EXCEPT !.pc = "query", !.txn = t, !.queue = q]
      <3>1. Become(w, r) /\ r.pc \notin Renewing
        BY <2>3 DEF IdleCall, Renewing
      <3> HIDE DEF r
      <3> QED
        BY <1>2, <3>1
    <2>4. CASE Become(w, IdleCall)
      <3>1. IdleCall.pc \notin Renewing
        BY DEF IdleCall, Renewing
      <3> QED
        BY <1>2, <2>4, <3>1
    <2> QED
      BY <1>7, <2>1, <2>2, <2>3, <2>4 DEF Enter, IpnStart, ReturnStart, StatusStart,
         ResumeStart, SweepStart, Crash, SweepNext, Respond
  <1>8. ASSUME NEW w \in Workers, QueryFails(w) \/ Reject(w) \/ Wait(w) \/ Dispatch(w)
        PROVE  call'[v] = call[v]
    BY <1>6, <1>8 DEF QueryFails, Reject, Wait, Dispatch
  <1>9. ASSUME NEW w \in Workers,
               \/ Query(w) \/ Issue(w) \/ LinkVoucher(w) \/ WriteAccount(w)
               \/ ReadAccount(w) /\ Goto(w, "receipt")
        PROVE  call'[v] = call[v]
    <2>1. ASSUME NEW label, label \notin Renewing, Goto(w, label) PROVE call'[v] = call[v]
      BY <1>1, <2>1 DEF Goto, Become, Calls
    <2>2. CASE Query(w)
      BY <1>1, <2>2 DEF Query, Become, Calls, Renewing
    <2>3. CASE Issue(w)
      <3> PICK c \in Codes : IssueVoucher(w, c) \/ IssueFails(w, c)
        BY <2>3 DEF Issue
      <3> PICK label : label \in {"link", "receipt"} /\
                       Become(w, [call[w] EXCEPT !.pc = label, !.code = c])
        BY DEF IssueVoucher, IssueFails
      <3> QED
        BY <1>1 DEF Become, Calls, Renewing
    <2> QED
      BY <1>9, <2>1, <2>2, <2>3 DEF LinkVoucher, WriteAccount, Renewing
  <1>10. ASSUME NEW w \in Workers, Claim(w)
         PROVE  \/ call'[v] = call[v]
                \/ /\ call'[v].pc = "account" /\ call'[v].txn \notin Hotspot
                   /\ status[call'[v].txn] = "pending"
    <2>1. CASE status[call[w].txn] # "pending"
      BY <1>6, <1>10, <2>1 DEF Claim
    <2>2. CASE status[call[w].txn] = "pending"
      <3>1. Goto(w, Fulfil(call[w].txn))
        BY <1>10, <2>2 DEF Claim
      <3>2. CASE v = w
        <4>1. call'[v].pc = Fulfil(call[w].txn) /\ call'[v].txn = call[w].txn
          BY <1>1, <3>1, <3>2 DEF Goto, Become, Calls
        <4>2. call[w].txn \notin Hotspot /\ Fulfil(call[w].txn) = "account"
          BY <4>1 DEF Fulfil, Renewing
        <4> QED
          BY <2>2, <4>1, <4>2
      <3>3. CASE v # w
        BY <1>1, <3>1, <3>3 DEF Goto, Become
      <3> QED
        BY <3>2, <3>3
    <2> QED
      BY <2>1, <2>2
  <1>11. ASSUME NEW w \in Workers, ReadAccount(w), ~Goto(w, "receipt")
         PROVE  \/ call'[v] = call[v]
                \/ /\ call[v].pc = "account" /\ call'[v].pc = "renew"
                   /\ call'[v].txn = call[v].txn
                   /\ UNCHANGED <<now, customerId, status>>
                   /\ \E a \in Accounts :
                         /\ Owner[a] = customerId[call[v].txn]
                         /\ call'[v].renewal = Later(now, expiry[a]) + Duration
    <2>1. PICK a \in Accounts :
             /\ Owner[a] = customerId[call[w].txn]
             /\ Become(w, [call[w] EXCEPT !.pc = "renew",
                                          !.renewal = Later(now, expiry[a]) + Duration])
      BY <1>11 DEF ReadAccount, AccountsOf
    <2>2. call[w].pc = "account" /\ UNCHANGED <<now, customerId, status>>
      BY <1>11 DEF ReadAccount, At, db
    <2>3. CASE v = w
      <3>1. /\ call'[v].pc = "renew" /\ call'[v].txn = call[v].txn
            /\ call'[v].renewal = Later(now, expiry[a]) + Duration
        BY <1>1, <2>1, <2>3 DEF Become, Calls
      <3> QED
        BY <2>1, <2>2, <2>3, <3>1
    <2>4. CASE v # w
      BY <1>1, <2>1, <2>4 DEF Become
    <2> QED
      BY <2>3, <2>4
  <1>12. ASSUME NEW w \in Workers, Run(w)
         PROVE  \/ SweepNext(w) \/ Respond(w) \/ QueryFails(w) \/ Reject(w) \/ Wait(w)
                \/ Dispatch(w) \/ Query(w) \/ Issue(w) \/ LinkVoucher(w) \/ WriteAccount(w)
                \/ Claim(w) \/ ReadAccount(w)
    BY <1>12 DEF Run
  <1> QED
    BY <1>3, <1>4, <1>5, <1>7, <1>8, <1>9, <1>10, <1>11, <1>12 DEF Next

(* No step takes back a renewal that is done.                               *)
LEMMA DoneStays ==
  ASSUME IInv, [Next]_vars, NEW p
  PROVE  Done(p) \subseteq Done(p)'
  <1> SUFFICES ASSUME NEW t \in Done(p) PROVE t \in Done(p)'
    OBVIOUS
  <1>1. /\ t \in Txns \ Hotspot /\ status[t] = "completed" /\ customerId[t] = p
        /\ \A w \in Workers : Holds(w, t) => call[w].pc \notin Renewing
    BY DEF Done, Renewals, InFlight
  <1>2. status'[t] = "completed" /\ customerId'[t] = p
    BY <1>1, RowSteps
  <1>3. ASSUME NEW w \in Workers, Holds(w, t)', call'[w].pc \in Renewing PROVE FALSE
    <2>1. call'[w].txn = t
      BY <1>3 DEF Holds
    <2>2. CASE call'[w] = call[w]
      BY <1>1, <1>3, <2>2 DEF Holds
    <2>3. CASE status[call'[w].txn] = "pending"
      BY <1>1, <2>1, <2>3
    <2>4. CASE call[w].pc = "account" /\ call'[w].txn = call[w].txn
      BY <1>1, <2>1, <2>4 DEF Holds, Holding, Renewing
    <2> QED
      BY <1>3, <2>2, <2>3, <2>4, CallSteps
  <1> QED
    BY <1>1, <1>2, <1>3 DEF Done, Renewals, InFlight

(* An account changes only as the holder of a renewal of its owner writes   *)
(* it, and that renewal is then done.                                       *)
LEMMA ExpirySteps ==
  ASSUME IInv, [Next]_vars, NEW a \in Accounts
  PROVE  \/ expiry'[a] = expiry[a]
         \/ \E w \in Workers :
               /\ call[w].pc = "renew" /\ Owner[a] = customerId[call[w].txn]
               /\ expiry'[a] = call[w].renewal /\ call'[w].pc = "receipt"
               /\ \A v \in Workers : v # w => call'[v] = call[v]
  <1>1. call \in [Workers -> Calls] /\ expiry \in [Accounts -> Nat]
    BY DEF IInv, TypeOK
  <1>2. CASE UNCHANGED expiry
    BY <1>2
  <1>3. ASSUME NEW t \in Txns, Purchase(t) \/ Pesapal(t) PROVE UNCHANGED expiry
    BY <1>3 DEF Purchase, InsertTxn, SubmitOrder, SubmitFails, SaveTracking,
       PurchaseCrashes, Pesapal, Settle, Flip, db
  <1>4. ASSUME NEW w \in Workers, Enter(w) \/ Crash(w) PROVE UNCHANGED expiry
    BY <1>4 DEF Enter, IpnStart, ReturnStart, StatusStart, ResumeStart, SweepStart, Crash, db
  <1>5. CASE Background \/ Tick \/ UNCHANGED vars
    BY <1>5 DEF Background, SendReceipt, LoseReceipt, Tick, vars, db
  <1>6. ASSUME NEW w \in Workers, Run(w), ~WriteAccount(w) PROVE UNCHANGED expiry
    BY <1>6 DEF Run, SweepNext, Query, QueryFails, Claim, Reject, Wait, Issue, IssueVoucher,
       IssueFails, LinkVoucher, ReadAccount, Dispatch, Respond, db
  <1>7. ASSUME NEW w \in Workers, WriteAccount(w), expiry' # expiry
        PROVE  \/ expiry'[a] = expiry[a]
               \/ /\ call[w].pc = "renew" /\ Owner[a] = customerId[call[w].txn]
                  /\ expiry'[a] = call[w].renewal /\ call'[w].pc = "receipt"
                  /\ \A v \in Workers : v # w => call'[v] = call[v]
    <2>1. call[w].pc = "renew" /\ Goto(w, "receipt")
      BY <1>7 DEF WriteAccount, At
    <2>2. call'[w].pc = "receipt" /\ \A v \in Workers : v # w => call'[v] = call[v]
      BY <1>1, <2>1 DEF Goto, Become, Calls
    <2>3. expiry'[a] = IF Owner[a] = customerId[call[w].txn] THEN call[w].renewal ELSE expiry[a]
      BY <1>7 DEF WriteAccount
    <2> QED
      BY <2>1, <2>2, <2>3
  <1> QED
    BY <1>2, <1>3, <1>4, <1>5, <1>6, <1>7 DEF Next

LEMMA RenewNext ==
  ASSUME IInv, RenewInv, [Next]_vars
  PROVE  RenewInv'
  <1>1. /\ now \in Nat /\ now' \in Nat /\ now <= now' /\ TypeOK /\ TypeOK' /\ CallInv
        /\ Duration \in Nat
    BY RowSteps, TimeAssumption DEF TimeAssumption, IInv
  <1>2. IsFiniteSet(Opened')
    <2>1. PICK t : Opened' \subseteq Opened \cup {t}
      BY RowSteps
    <2>2. IsFiniteSet(Opened \cup {t})
      BY FS_AddElement DEF RenewInv
    <2> QED
      BY <2>1, <2>2, FS_Subset
  <1>3. ASSUME NEW p
        PROVE  /\ IsFiniteSet(Done(p)) /\ IsFiniteSet(Done(p)')
               /\ Cardinality(Done(p)) \in Nat /\ Cardinality(Done(p)') \in Nat
               /\ Cardinality(Done(p)) <= Cardinality(Done(p)')
    <2>1. IsFiniteSet(Done(p)) /\ Cardinality(Done(p)) \in Nat
      BY DoneFinite DEF RenewInv
    <2>2. Done(p)' \in SUBSET Opened'
      BY DEF Done, Renewals, Opened
    <2>3. IsFiniteSet(Done(p)')
      BY <1>2, <2>2, FS_Subset
    <2>4. Done(p) \in SUBSET Done(p)'
      BY DoneStays
    <2> QED
      BY <2>1, <2>3, <2>4, FS_Subset, FS_CardinalityType
  <1>4. ASSUME NEW p
        PROVE  /\ Ahead(Cardinality(Done(p))) <= Ahead(Cardinality(Done(p)))'
               /\ Ahead(Cardinality(Done(p))) \in Nat
               /\ Ahead(Cardinality(Done(p)))' \in Nat
               /\ Ahead(Cardinality(Done(p)) + 1)' \in Nat
               /\ now <= Ahead(Cardinality(Done(p)))
               /\ Ahead(Cardinality(Done(p)) + 1) = Ahead(Cardinality(Done(p))) + Duration
               /\ Ahead(Cardinality(Done(p)) + 1) <= Ahead(Cardinality(Done(p)) + 1)'
    <2> PICK m \in Nat, n \in Nat : /\ m = Cardinality(Done(p)) /\ n = Cardinality(Done(p)')
                                    /\ m <= n
      BY <1>3
    <2>1. /\ Ahead(m) \in Nat /\ Ahead(n)' \in Nat /\ now <= Ahead(m) /\ Ahead(m) <= Ahead(n)'
          /\ Ahead(m + 1) = Ahead(m) + Duration
      BY <1>1, AheadGrows
    <2>2. Ahead(m + 1) <= Ahead(n + 1)' /\ Ahead(n + 1)' \in Nat
      BY <1>1, AheadGrows
    <2> QED
      BY <2>1, <2>2
  <1>5. ASSUME NEW v \in Workers, call[v].pc \in Renewing
        PROVE  /\ call[v].txn \in Txns /\ Holds(v, call[v].txn)
               /\ status[call[v].txn] = "completed" /\ call[v].txn \notin Hotspot
               /\ customerId'[call[v].txn] = customerId[call[v].txn]
               /\ \A w \in Workers : Holds(w, call[v].txn) => w = v
    <2>1. call[v].txn \in Txns /\ Holds(v, call[v].txn)
      BY <1>1, <1>5 DEF CallInv, CallsHaveTxn, Renewing, Holding, Holds
    <2>2. status[call[v].txn] = "completed" /\ \A w \in Workers : Holds(w, call[v].txn) => w = v
      BY <1>1, <2>1 DEF CallInv, HoldersWon
    <2> QED
      BY <1>5, <2>1, <2>2, RowSteps DEF RenewInv
  <1>6. ASSUME NEW v \in Workers, call'[v].pc \in Renewing
        PROVE  call'[v].txn \notin Hotspot
    BY <1>5, <1>6, CallSteps DEF Renewing
  <1>7. ASSUME NEW v \in Workers, call'[v].pc = "renew"
        PROVE  call'[v].renewal <= Ahead(Cardinality(Done(customerId[call[v].txn])) + 1)'
    <2>1. call[v].pc \in Renewing /\ call'[v].txn = call[v].txn /\ call'[v].renewal \in Nat
      BY <1>1, <1>7, CallSteps DEF Renewing, TypeOK, Calls
    <2> PICK p : p = customerId[call[v].txn] /\ p = customerId'[call'[v].txn]
      BY <1>5, <2>1
    <2>2. CASE call'[v] = call[v]
      <3>1. call'[v].renewal <= Ahead(Cardinality(Done(p)) + 1)
        BY <1>7, <2>2 DEF RenewInv
      <3> QED
        BY <1>1, <1>4, <2>1, <3>1
    <2>3. CASE call'[v] # call[v]
      <3>1. PICK a \in Accounts : /\ Owner[a] = p
                                  /\ call'[v].renewal = Later(now, expiry[a]) + Duration
        BY <1>7, <2>3, CallSteps DEF Renewing
      <3>2. expiry[a] \in Nat /\ expiry[a] <= Ahead(Cardinality(Done(p)))
        BY <1>1, <3>1 DEF RenewInv, TypeOK
      <3> QED
        BY <1>1, <1>4, <2>1, <3>1, <3>2 DEF Later
    <2> QED
      BY <2>2, <2>3
  <1>8. ASSUME NEW a \in Accounts
        PROVE  expiry'[a] <= Ahead(Cardinality(Done(Owner[a])))'
    <2> PICK p : p = Owner[a]
      OBVIOUS
    <2>1. expiry[a] \in Nat /\ expiry'[a] \in Nat /\ expiry[a] <= Ahead(Cardinality(Done(p)))
      BY <1>1 DEF RenewInv, TypeOK
    <2>2. CASE expiry'[a] = expiry[a]
      BY <1>4, <2>1, <2>2
    <2>3. CASE expiry'[a] # expiry[a]
      <3>1. PICK w \in Workers :
               /\ call[w].pc = "renew" /\ p = customerId[call[w].txn]
               /\ expiry'[a] = call[w].renewal /\ call'[w].pc = "receipt"
               /\ \A v \in Workers : v # w => call'[v] = call[v]
        BY <2>3, ExpirySteps
      <3> PICK t : t = call[w].txn
        OBVIOUS
      <3>2. /\ t \in Txns \ Hotspot /\ status[t] = "completed" /\ customerId'[t] = p
            /\ \A v \in Workers : Holds(v, t) => v = w
            /\ Holds(w, t) /\ call[w].pc \in Renewing
        BY <1>5, <3>1 DEF Renewing
      <3>3. t \notin Done(p)
        BY <3>2 DEF Done, InFlight
      <3>4. t \in Done(p)'
        <4>1. status'[t] = "completed"
          BY <3>2, RowSteps
        <4>2. \A v \in Workers : Holds(v, t)' => call'[v].pc \notin Renewing
          BY <3>1, <3>2 DEF Holds, Renewing
        <4> QED
          BY <3>2, <4>1, <4>2 DEF Done, Renewals, InFlight
      <3>5. Cardinality(Done(p)) + 1 <= Cardinality(Done(p)')
        <4>1. Done(p) \cup {t} \in SUBSET Done(p)'
          BY <3>4, DoneStays
        <4>2. Cardinality(Done(p) \cup {t}) = Cardinality(Done(p)) + 1
          BY <1>3, <3>3, FS_AddElement
        <4> QED
          BY <1>3, <4>1, <4>2, FS_Subset
      <3>6. call[w].renewal <= Ahead(Cardinality(Done(p)) + 1)
        BY <3>1 DEF RenewInv
      <3>7. /\ Ahead(Cardinality(Done(p)) + 1) <= Ahead(Cardinality(Done(p)))'
            /\ Ahead(Cardinality(Done(p)) + 1) \in Nat
        <4> PICK m \in Nat, n \in Nat : /\ m = Cardinality(Done(p)) + 1
                                        /\ n = Cardinality(Done(p)') /\ m <= n
          BY <1>3, <3>5
        <4> QED
          BY <1>1, AheadGrows
      <3> QED
        BY <1>4, <2>1, <3>1, <3>6, <3>7
    <2> QED
      BY <2>2, <2>3
  <1> QED
    BY <1>2, <1>6, <1>7, <1>8 DEF RenewInv

(* However the renewals interleave, an account is never further ahead of    *)
(* the clock than its owner's completed payments bought.                    *)
THEOREM RenewalsArePaid == Spec => []NeverMoreThanPaid
  <1>1. Init => RenewInv
    <2> SUFFICES ASSUME Init PROVE RenewInv
      OBVIOUS
    <2>1. Opened = {} /\ \A w \in Workers : call[w].pc \notin Renewing
      BY DEF Init, Opened, IdleCall, Renewing
    <2>2. IsFiniteSet(Opened)
      BY <2>1, FS_EmptySet
    <2>3. ASSUME NEW p PROVE 0 <= Ahead(Cardinality(Done(p)))
      <3> PICK m \in Nat : m = Cardinality(Done(p))
        BY <2>2, DoneFinite
      <3>1. now = 0 /\ Duration * m \in Nat
        BY TimeAssumption DEF Init, TimeAssumption
      <3> PICK x \in Nat : x = Duration * m
        BY <3>1
      <3> QED
        BY <3>1 DEF Ahead
    <2> QED
      BY <2>1, <2>2, <2>3 DEF Init, RenewInv, Renewing
  <1>2. IInv /\ RenewInv => NeverMoreThanPaid
    <2> SUFFICES ASSUME IInv, RenewInv, NEW a \in Accounts
                 PROVE  expiry[a] <= now + Duration * Cardinality(Renewals(Owner[a]))
      BY DEF NeverMoreThanPaid
    <2>1. IsFiniteSet(Renewals(Owner[a]))
      <3>1. Renewals(Owner[a]) \in SUBSET Opened
        BY DEF Renewals, Opened
      <3> QED
        BY <3>1, FS_Subset DEF RenewInv
    <2>2. Done(Owner[a]) \in SUBSET Renewals(Owner[a])
      BY DEF Done
    <2> PICK m \in Nat, n \in Nat : /\ m = Cardinality(Done(Owner[a]))
                                    /\ n = Cardinality(Renewals(Owner[a])) /\ m <= n
      BY <2>1, <2>2, FS_Subset, FS_CardinalityType
    <2>3. expiry[a] <= Ahead(m) /\ expiry[a] \in Nat /\ now \in Nat /\ Duration \in Nat
      BY TimeAssumption DEF RenewInv, IInv, TypeOK, TimeAssumption
    <2>4. Duration * m <= Duration * n /\ Duration * m \in Nat /\ Duration * n \in Nat
      BY <2>3
    <2> PICK x \in Nat, y \in Nat : x = Duration * m /\ y = Duration * n
      BY <2>4
    <2>5. expiry[a] <= now + x /\ x <= y
      BY <2>3, <2>4 DEF Ahead
    <2>6. expiry[a] <= now + y
      BY <2>3, <2>5
    <2> QED
      BY <2>6
  <1> QED
    BY <1>1, <1>2, RenewNext, Invariance, PTL DEF Spec

-----------------------------------------------------------------------------
(* Fulfillment implements Payment *)

LEMMA PromiseInit == Init => Promise!Init
  BY DEF Init, Promise!Init, Paid

LEMMA PromiseNext == IInv /\ [Next]_vars => [Promise!Next]_(Promise!pvars)
  <1> SUFFICES ASSUME IInv, [Next]_vars
               PROVE  Promise!Next \/ UNCHANGED <<status, Paid, voucher>>
    BY DEF Promise!pvars
  <1>0. TypeOK /\ CallInv /\ DataInv /\ NotBoughtIsAbsent
    BY DEF IInv, DataInv
  <1>same. ASSUME UNCHANGED <<status, ext, voucher>>
           PROVE  UNCHANGED <<status, Paid, voucher>>
    BY <1>same DEF Paid
  <1>1. ASSUME NEW t \in Txns, InsertTxn(t)
        PROVE  Promise!Next
    <2>1. status[t] = "absent" /\ Paid' = Paid
      BY <1>0, <1>1 DEF InsertTxn, NotBoughtIsAbsent, Paid
    <2>2. Promise!Open(t)
      BY <1>1, <2>1 DEF InsertTxn, Promise!Open
    <2> QED
      BY <2>2 DEF Promise!Next
  <1>2. ASSUME NEW t \in Txns, SubmitOrder(t) \/ SubmitFails(t)
        PROVE  UNCHANGED <<status, Paid, voucher>>
    <2>1. ext[t] = "none" /\ (ext' = ext \/ ext' = [ext EXCEPT ![t] = "Pending"])
          /\ UNCHANGED <<status, voucher>>
      BY <1>0, <1>2 DEF SubmitOrder, SubmitFails, NotBoughtIsAbsent, db
    <2>2. Paid' = Paid
      BY <1>0, <2>1 DEF Paid, TypeOK
    <2> QED
      BY <2>1, <2>2
  <1>3. ASSUME NEW t \in Txns, SaveTracking(t) \/ PurchaseCrashes(t)
        PROVE  UNCHANGED <<status, Paid, voucher>>
    BY <1>3, <1>same DEF SaveTracking, PurchaseCrashes, db
  <1>4. ASSUME NEW t \in Txns, Pesapal(t)
        PROVE  Promise!Next \/ UNCHANGED <<status, Paid, voucher>>
    <2>1. /\ ext[t] \in {"Pending", "Failed"} /\ UNCHANGED <<status, voucher>>
          /\ \/ ext' = [ext EXCEPT ![t] = "Completed"]
             \/ ext' = [ext EXCEPT ![t] = "Failed"]
      BY <1>4 DEF Pesapal, Settle, Flip, db
    <2>2. CASE ext' = [ext EXCEPT ![t] = "Completed"]
      <3>1. t \notin Paid /\ Paid' = Paid \cup {t}
        BY <1>0, <2>1, <2>2 DEF Paid, TypeOK
      <3>2. Promise!Pay(t)
        BY <2>1, <3>1 DEF Promise!Pay
      <3> QED
        BY <3>2 DEF Promise!Next
    <2>3. CASE ext' = [ext EXCEPT ![t] = "Failed"]
      BY <1>0, <2>1, <2>3 DEF Paid, TypeOK
    <2> QED
      BY <2>1, <2>2, <2>3
  <1>5. ASSUME NEW w \in Workers, Claim(w)
        PROVE  Promise!Next \/ UNCHANGED <<status, Paid, voucher>>
    <2> DEFINE t == call[w].txn
    <2>1. t \in Txns /\ t \in Paid
      BY <1>0, <1>5 DEF Claim, At, CallInv, CallsHaveTxn, AnswersAreTrue, Paid
    <2>2. CASE status[t] = "pending"
      <3>1. Promise!Complete(t)
        BY <1>5, <2>1, <2>2 DEF Claim, Promise!Complete, Paid
      <3> QED
        BY <2>1, <3>1 DEF Promise!Next
    <2>3. CASE status[t] # "pending"
      BY <1>5, <2>3, <1>same DEF Claim
    <2> QED
      BY <2>2, <2>3
  <1>6. ASSUME NEW w \in Workers, Reject(w)
        PROVE  Promise!Next \/ UNCHANGED <<status, Paid, voucher>>
    <2> DEFINE t == call[w].txn
    <2>1. t \in Txns
      BY <1>0, <1>6 DEF Reject, At, CallInv, CallsHaveTxn
    <2>2. CASE status[t] = "pending" /\ status' = [status EXCEPT ![t] = "failed"]
      <3>1. Promise!Fail(t)
        BY <1>6, <2>1, <2>2 DEF Reject, Promise!Fail, Paid
      <3> QED
        BY <2>1, <3>1 DEF Promise!Next
    <2>3. CASE UNCHANGED status
      BY <1>6, <2>3, <1>same DEF Reject
    <2> QED
      BY <1>6, <2>2, <2>3 DEF Reject
  <1>7. ASSUME NEW w \in Workers, NEW c \in Codes, IssueVoucher(w, c)
        PROVE  Promise!Next
    <2> DEFINE t == call[w].txn
    <2>1. t \in Txns /\ Holds(w, t) /\ call[w].pc = "issue"
      BY <1>0, <1>7 DEF IssueVoucher, At, CallInv, CallsHaveTxn, Holding, Holds
    <2>2. status[t] = "completed" /\ \A d \in Codes : voucher[d] # t
      BY <1>0, <2>1 DEF CallInv, HoldersWon, HoldersAreFirst
    <2>3. Promise!Grant(t, c)
      BY <1>7, <2>2 DEF IssueVoucher, Promise!Grant, Paid
    <2> QED
      BY <2>1, <2>3 DEF Promise!Next
  <1>8. ASSUME NEW w \in Workers, Run(w)
        PROVE  Promise!Next \/ UNCHANGED <<status, Paid, voucher>>
    BY <1>5, <1>6, <1>7, <1>8, <1>same DEF Run, SweepNext, Query, QueryFails, Wait, Issue,
       IssueFails, LinkVoucher, ReadAccount, WriteAccount, Dispatch, Respond, db
  <1>9. ASSUME NEW w \in Workers, Enter(w) \/ Crash(w)
        PROVE  UNCHANGED <<status, Paid, voucher>>
    BY <1>9, <1>same DEF Enter, IpnStart, ReturnStart, StatusStart, ResumeStart,
       SweepStart, Crash, db
  <1>10. CASE Background \/ Tick \/ UNCHANGED vars
    BY <1>10, <1>same DEF Background, SendReceipt, LoseReceipt, Tick, vars, db
  <1> QED
    BY <1>1, <1>2, <1>3, <1>4, <1>8, <1>9, <1>10 DEF Next, Purchase

(* The handlers implement the abstract promise.                             *)
THEOREM KeepsThePromise == Spec => PromiseKept
  BY PromiseInit, Invariance, PromiseNext, PTL DEF Spec, PromiseKept, Promise!Spec

-----------------------------------------------------------------------------
(* What a fault may cost: a step without one leaves nobody behind, a step   *)
(* with one leaves behind one payment at most.                              *)
OnlyForgets(S) == \A t \in Txns : t \in Forgotten' => t \in Forgotten \cup S
Costs ==
    \/ OnlyForgets({}) /\ faults' >= faults
    \/ (\E t : OnlyForgets({t})) /\ faults' = faults + 1

LEMMA FaultCounts ==
  ASSUME TypeOK, NEW k
  PROVE  /\ NoFault => faults' >= faults
         /\ Fault(k) => faults' = faults + 1 /\ faults' >= faults
  BY DEF TypeOK, NoFault, Fault

(* A payment is not lost sight of by a step that keeps its row, its link,   *)
(* its receipt and whoever is seeing to it.                                 *)
LEMMA StaysSeenTo ==
  ASSUME NEW t \in Txns,
         status'[t] = "completed" => status[t] = "completed",
         voucherId'[t] = NoCode => voucherId[t] = NoCode,
         jobs \cup sent \subseteq (jobs \cup sent)' \/ \A r \in jobs \cup sent : r.txn # t,
         voucherId'[t] = NoCode /\ SeenTo(t, {"issue", "link"})
            => SeenTo(t, {"issue", "link"})',
         SeenTo(t, Holding) => SeenTo(t, Holding)' \/ \E r \in (jobs \cup sent)' : r.txn = t
  PROVE  t \in Forgotten' => t \in Forgotten
  <1> SUFFICES ASSUME t \in Forgotten' PROVE t \in Forgotten
    OBVIOUS
  <1>1. status[t] = "completed"
    BY DEF Forgotten
  <1>2. ASSUME t \in Hotspot, voucherId'[t] = NoCode, ~SeenTo(t, {"issue", "link"})'
        PROVE  t \in Forgotten
    BY <1>1, <1>2 DEF Forgotten
  <1>3. ASSUME \A r \in (jobs \cup sent)' : r.txn # t, ~SeenTo(t, Holding)'
        PROVE  t \in Forgotten
    <2>1. \A r \in jobs \cup sent : r.txn # t
      BY <1>3
    <2>2. ~SeenTo(t, Holding)
      BY <1>3
    <2> QED
      BY <1>1, <2>1, <2>2 DEF Forgotten
  <1> QED
    BY <1>2, <1>3 DEF Forgotten

(* Only the invocation that moves can lose sight of a payment, and only of  *)
(* the one it holds.                                                        *)
LEMMA OthersStaySeenTo ==
  ASSUME TypeOK, NEW w \in Workers, NEW c, Become(w, c), NEW t \in Txns, ~Holds(w, t),
         NEW labels \in SUBSET Holding, SeenTo(t, labels)
  PROVE  SeenTo(t, labels)'
  <1> PICK v \in Workers : call[v].txn = t /\ call[v].pc \in labels
    BY DEF SeenTo
  <1>1. v # w
    BY DEF Holds
  <1>2. call'[v] = call[v]
    BY <1>1 DEF Become, TypeOK
  <1> QED
    BY <1>2 DEF SeenTo

(* A step of an invocation: it loses sight of what it held at most.         *)
LEMMA CostsItsOwn ==
  ASSUME TypeOK, NEW w \in Workers, NEW c, Become(w, c),
         \A t \in Txns : t # call[w].txn \/ ~Holds(w, t) =>
            /\ status'[t] = "completed" => status[t] = "completed"
            /\ voucherId'[t] = NoCode => voucherId[t] = NoCode,
         jobs \cup sent \subseteq (jobs \cup sent)'
  PROVE  \A t \in Txns : ~Holds(w, t) => (t \in Forgotten' => t \in Forgotten)
  <1> SUFFICES ASSUME NEW t \in Txns, ~Holds(w, t) PROVE t \in Forgotten' => t \in Forgotten
    OBVIOUS
  <1>1. {"issue", "link"} \in SUBSET Holding /\ Holding \in SUBSET Holding
    BY DEF Holding
  <1>2. \A labels \in SUBSET Holding : SeenTo(t, labels) => SeenTo(t, labels)'
    BY OthersStaySeenTo
  <1> QED
    BY <1>1, <1>2, StaysSeenTo

LEMMA QuietCosts ==
  ASSUME TypeOK, NEW w \in Workers, NEW c, Become(w, c), call[w].pc \notin Holding,
         \A t \in Txns : status'[t] = "completed" => status[t] = "completed",
         UNCHANGED <<voucherId, jobs, sent>>, faults' >= faults
  PROVE  Costs
  <1>1. \A t \in Txns : ~Holds(w, t)
    BY DEF Holds
  <1>2. jobs \cup sent \subseteq (jobs \cup sent)'
    OBVIOUS
  <1>3. \A t \in Txns : t \in Forgotten' => t \in Forgotten
    BY <1>1, <1>2, CostsItsOwn
  <1> QED
    BY <1>3 DEF Costs, OnlyForgets

(* A step with a fault of an invocation costs at most the payment it holds. *)
LEMMA FaultCosts ==
  ASSUME TypeOK, NEW w \in Workers, NEW c, Become(w, c),
         UNCHANGED <<status, voucherId, jobs, sent>>, faults' = faults + 1
  PROVE  Costs
  <1>1. jobs \cup sent \subseteq (jobs \cup sent)'
    OBVIOUS
  <1>2. \A t \in Txns : ~Holds(w, t) => (t \in Forgotten' => t \in Forgotten)
    BY <1>1, CostsItsOwn
  <1>3. OnlyForgets({call[w].txn})
    BY <1>2 DEF OnlyForgets, Holds
  <1> QED
    BY <1>3 DEF Costs

(* An invocation that goes on with the payment it holds.                    *)
LEMMA OnwardCosts ==
  ASSUME TypeOK, NEW w \in Workers, NEW c, Become(w, c), call[w].pc \in Holding,
         c.txn = call[w].txn, c.pc \in Holding,
         \/ c.pc \in {"issue", "link"}
         \/ call[w].pc \notin {"issue", "link"} \/ voucherId'[call[w].txn] # NoCode,
         \A t \in Txns : \/ voucherId'[t] = voucherId[t]
                         \/ t = call[w].txn /\ voucherId'[t] # NoCode,
         UNCHANGED <<status, jobs, sent>>, faults' >= faults
  PROVE  Costs
  <1>1. jobs \cup sent \subseteq (jobs \cup sent)'
    OBVIOUS
  <1>2. call'[w] = c
    BY DEF Become, TypeOK
  <1>3. ASSUME NEW t \in Txns, Holds(w, t) PROVE t \in Forgotten' => t \in Forgotten
    <2>1. t = call[w].txn
      BY <1>3 DEF Holds
    <2>2. SeenTo(t, Holding)'
      BY <1>2, <2>1 DEF SeenTo
    <2>3. ASSUME voucherId'[t] = NoCode, SeenTo(t, {"issue", "link"})
          PROVE  SeenTo(t, {"issue", "link"})'
      <3> PICK v \in Workers : call[v].txn = t /\ call[v].pc \in {"issue", "link"}
        BY <2>3 DEF SeenTo
      <3>1. CASE v = w
        BY <1>2, <2>1, <2>3, <3>1 DEF SeenTo
      <3>2. CASE v # w
        <4>1. call'[v] = call[v]
          BY <3>2 DEF Become, TypeOK
        <4> QED
          BY <4>1 DEF SeenTo
      <3> QED
        BY <3>1, <3>2
    <2> QED
      BY <1>1, <2>1, <2>2, <2>3, StaysSeenTo
  <1>4. \A t \in Txns : ~Holds(w, t) => (t \in Forgotten' => t \in Forgotten)
    BY <1>1, CostsItsOwn
  <1> QED
    BY <1>3, <1>4 DEF Costs, OnlyForgets

(* The claim puts its winner in charge of the payment it completes.         *)
LEMMA ClaimCosts ==
  ASSUME IInv, NEW w \in Workers, Claim(w)
  PROVE  Costs
  <1>0. TypeOK /\ call[w].pc \notin Holding /\ call[w].txn \in Txns
    BY DEF Claim, At, Holding, IInv, CallInv, CallsHaveTxn
  <1>1. UNCHANGED <<voucherId, jobs, sent>> /\ faults' >= faults
    BY <1>0 DEF Claim, post, TypeOK
  <1>2. CASE status[call[w].txn] = "pending"
    <2> PICK u \in Txns : u = call[w].txn
      BY <1>0
    <2>1. status' = [status EXCEPT ![u] = "completed"] /\ Goto(w, Fulfil(u))
      BY <1>2 DEF Claim
    <2> PICK c : c = [call[w] EXCEPT !.pc = Fulfil(u)]
      OBVIOUS
    <2>2. Become(w, c) /\ c.txn = u /\ c.pc = Fulfil(u)
      BY <1>0, <2>1 DEF Goto, TypeOK, Calls
    <2>3. call'[w] = c
      BY <1>0, <2>2 DEF Become, TypeOK
    <2>4. u \notin Forgotten'
      <3>1. SeenTo(u, Holding)'
        BY <2>2, <2>3 DEF SeenTo, Fulfil, Holding
      <3>2. u \in Hotspot => SeenTo(u, {"issue", "link"})'
        BY <2>2, <2>3 DEF SeenTo, Fulfil
      <3> QED
        BY <3>1, <3>2 DEF Forgotten
    <2>5. ASSUME NEW t \in Txns, t # u PROVE t \in Forgotten' => t \in Forgotten
      <3>1. status'[t] = status[t]
        BY <1>0, <2>1, <2>5 DEF TypeOK
      <3>2. {"issue", "link"} \in SUBSET Holding /\ Holding \in SUBSET Holding
        BY DEF Holding
      <3>3. \A labels \in SUBSET Holding : SeenTo(t, labels) => SeenTo(t, labels)'
        BY <1>0, <2>2, OthersStaySeenTo DEF Holds
      <3> QED
        BY <1>1, <3>1, <3>2, <3>3, StaysSeenTo
    <2> QED
      BY <1>1, <2>4, <2>5 DEF Costs, OnlyForgets
  <1>3. CASE status[call[w].txn] # "pending"
    <2>1. status' = status /\ Become(w, After(w))
      BY <1>3 DEF Claim
    <2> QED
      BY <1>0, <1>1, <2>1, QuietCosts
  <1> QED
    BY <1>2, <1>3

LEMMA RunCosts ==
  ASSUME IInv, NEW w \in Workers, Run(w)
  PROVE  Costs
  <1>0. TypeOK /\ CallsHaveTxn /\ call[w] \in Calls /\ NoCode \notin Codes
    BY DataAssumption DEF IInv, CallInv, TypeOK, DataAssumption
  <1>g. ASSUME NEW label, Goto(w, label)
        PROVE  \E c : Become(w, c) /\ c.txn = call[w].txn /\ c.pc = label
    BY <1>0, <1>g DEF Goto, Calls
  <1>1. CASE SweepNext(w) \/ Query(w) \/ QueryFails(w) \/ Wait(w) \/ Respond(w)
    <2>1. call[w].pc \notin Holding /\ \E c : Become(w, c)
      BY <1>1 DEF SweepNext, Query, QueryFails, Wait, Respond, At, Holding
    <2>2. UNCHANGED <<status, voucherId, jobs, sent>>
      BY <1>1 DEF SweepNext, Query, QueryFails, Wait, Respond, db, post
    <2>3. NoFault \/ Fault("timeout")
      BY <1>1 DEF SweepNext, Query, QueryFails, Wait, Respond, NoFault
    <2> QED
      BY <1>0, <2>1, <2>2, <2>3, FaultCounts, QuietCosts
  <1>2. CASE Claim(w)
    BY <1>2, ClaimCosts
  <1>3. CASE Reject(w)
    <2>1. call[w].pc \notin Holding /\ Become(w, After(w))
      BY <1>3 DEF Reject, At, Holding
    <2>2. UNCHANGED <<voucherId, jobs, sent>> /\ faults' >= faults
      BY <1>0, <1>3 DEF Reject, post, TypeOK
    <2>3. \A t \in Txns : status'[t] = "completed" => status[t] = "completed"
      BY <1>0, <1>3 DEF Reject, TypeOK
    <2> QED
      BY <1>0, <2>1, <2>2, <2>3, QuietCosts
  <1>4. ASSUME NEW d \in Codes, IssueVoucher(w, d) PROVE Costs
    <2> PICK c : c = [call[w] EXCEPT !.pc = "link", !.code = d]
      OBVIOUS
    <2>1. Become(w, c) /\ c.txn = call[w].txn /\ c.pc = "link" /\ call[w].pc = "issue"
      BY <1>0, <1>4 DEF IssueVoucher, At, Calls
    <2>2. UNCHANGED <<status, voucherId, jobs, sent>> /\ faults' >= faults
      BY <1>0, <1>4 DEF IssueVoucher, post, TypeOK
    <2> QED
      BY <1>0, <2>1, <2>2, OnwardCosts DEF Holding
  <1>5. ASSUME NEW d \in Codes, IssueFails(w, d) PROVE Costs
    <2>1. \E c : Become(w, c)
      BY <1>5 DEF IssueFails
    <2>2. UNCHANGED <<status, voucherId, jobs, sent>> /\ faults' = faults + 1
      BY <1>5 DEF IssueFails, Fault, db, post
    <2> QED
      BY <1>0, <2>1, <2>2, FaultCosts
  <1>6. CASE LinkVoucher(w)
    <2>1. /\ call[w].pc = "link" /\ call[w].txn \in Txns
          /\ UNCHANGED <<status, jobs, sent>> /\ Goto(w, "receipt")
      BY <1>0, <1>6 DEF LinkVoucher, At, post, CallsHaveTxn, Holding
    <2>2. call[w].code # NoCode
      <3>1. Holds(w, call[w].txn)
        BY <2>1 DEF Holds, Holding
      <3> QED
        BY <1>0, <2>1, <3>1 DEF IInv, CallInv, HoldersAreFirst
    <2>3. PICK c : Become(w, c) /\ c.txn = call[w].txn /\ c.pc = "receipt"
      BY <1>g, <2>1
    <2>4. CASE voucherId' = [voucherId EXCEPT ![call[w].txn] = call[w].code] /\ NoFault
      <3>1. \A t \in Txns : \/ voucherId'[t] = voucherId[t]
                            \/ t = call[w].txn /\ voucherId'[t] # NoCode
        BY <1>0, <2>2, <2>4 DEF TypeOK
      <3>2. voucherId'[call[w].txn] # NoCode /\ faults' >= faults
        BY <1>0, <2>1, <2>2, <2>4 DEF TypeOK, NoFault
      <3> QED
        BY <1>0, <2>1, <2>3, <3>1, <3>2, OnwardCosts DEF Holding
    <2>5. CASE UNCHANGED voucherId /\ Fault("write")
      BY <1>0, <2>1, <2>3, <2>5, FaultCosts DEF Fault
    <2> QED
      BY <1>6, <2>4, <2>5 DEF LinkVoucher
  <1>7. CASE ReadAccount(w) \/ WriteAccount(w)
    <2>1. call[w].pc \in {"account", "renew"}
      BY <1>7 DEF ReadAccount, WriteAccount, At
    <2>2. \E c : Become(w, c) /\ c.txn = call[w].txn /\ c.pc \in {"renew", "receipt"}
      <3>1. CASE Goto(w, "receipt")
        BY <1>g, <3>1
      <3>2. ASSUME NEW n, Become(w, [call[w] EXCEPT !.pc = "renew", !.renewal = n])
            PROVE  \E c : Become(w, c) /\ c.txn = call[w].txn /\ c.pc \in {"renew", "receipt"}
        <4> PICK c : c = [call[w] EXCEPT !.pc = "renew", !.renewal = n]
          OBVIOUS
        <4>1. c.txn = call[w].txn /\ c.pc = "renew"
          BY <1>0 DEF Calls
        <4> QED
          BY <3>2, <4>1
      <3> QED
        BY <1>7, <3>1, <3>2 DEF ReadAccount, WriteAccount
    <2>3. UNCHANGED <<status, voucherId, jobs, sent>>
      BY <1>7 DEF ReadAccount, WriteAccount, db, post
    <2>4. NoFault \/ Fault("write")
      BY <1>7 DEF ReadAccount, WriteAccount, NoFault
    <2> QED
      BY <1>0, <2>1, <2>2, <2>3, <2>4, FaultCounts, OnwardCosts DEF Holding
  <1>8. CASE Dispatch(w)
    <2> PICK u \in Txns : u = call[w].txn
      BY <1>0, <1>8 DEF Dispatch, At, CallsHaveTxn, Holding
    <2>1. PICK r : r = [by |-> w, txn |-> u, code |-> call[w].code]
      OBVIOUS
    <2>2. /\ UNCHANGED <<status, voucherId, sent>> /\ faults' = faults
          /\ jobs' = jobs \cup {r} /\ Become(w, After(w))
      BY <1>8, <2>1 DEF Dispatch, db
    <2>3. /\ faults' >= faults /\ jobs \cup sent \subseteq (jobs \cup sent)'
          /\ \E q \in (jobs \cup sent)' : q.txn = u
      BY <1>0, <2>1, <2>2 DEF TypeOK
    <2>4. \A t \in Txns : ~Holds(w, t) => (t \in Forgotten' => t \in Forgotten)
      BY <1>0, <2>2, <2>3, CostsItsOwn
    <2>5. SeenTo(u, {"issue", "link"}) => SeenTo(u, {"issue", "link"})'
      <3> SUFFICES ASSUME NEW v \in Workers, call[v].txn = u, call[v].pc \in {"issue", "link"}
                   PROVE  SeenTo(u, {"issue", "link"})'
        BY DEF SeenTo
      <3>1. v # w
        BY <1>8 DEF Dispatch, At
      <3>2. call'[v] = call[v]
        BY <1>0, <2>2, <3>1 DEF Become, TypeOK
      <3> QED
        BY <3>2 DEF SeenTo
    <2>6. u \in Forgotten' => u \in Forgotten
      BY <2>2, <2>5, <2>3, StaysSeenTo
    <2> QED
      BY <2>4, <2>6, <2>3 DEF Costs, OnlyForgets, Holds
  <1> QED
    BY <1>1, <1>2, <1>3, <1>4, <1>5, <1>6, <1>7, <1>8 DEF Run, Issue

LEMMA CostsNext ==
  ASSUME IInv, [Next]_vars
  PROVE  Costs
  <1>0. TypeOK
    BY DEF IInv
  <1>1. ASSUME UNCHANGED <<call, voucherId, jobs, sent>>,
               \A t \in Txns : status'[t] = "completed" => status[t] = "completed",
               faults' >= faults
        PROVE  Costs
    <2>1. \A t, labels : SeenTo(t, labels)' <=> SeenTo(t, labels)
      BY <1>1 DEF SeenTo
    <2>2. \A t \in Txns : t \in Forgotten' => t \in Forgotten
      BY <1>1, <2>1, StaysSeenTo
    <2> QED
      BY <1>1, <2>2 DEF Costs, OnlyForgets
  <1>2. ASSUME NEW t \in Txns, Purchase(t) PROVE Costs
    <2>1. UNCHANGED <<call, voucherId, jobs, sent>>
      BY <1>2 DEF Purchase, InsertTxn, SubmitOrder, SubmitFails, SaveTracking, PurchaseCrashes,
         db, post
    <2>2. \A u \in Txns : status'[u] = "completed" => status[u] = "completed"
      BY <1>0, <1>2 DEF Purchase, InsertTxn, SubmitOrder, SubmitFails, SaveTracking,
         PurchaseCrashes, db, TypeOK
    <2>3. faults' >= faults
      BY <1>0, <1>2, FaultCounts DEF Purchase, InsertTxn, SubmitOrder, SubmitFails,
         SaveTracking, PurchaseCrashes, TypeOK
    <2> QED
      BY <1>1, <2>1, <2>2, <2>3
  <1>3. ASSUME NEW t \in Txns, Pesapal(t) PROVE Costs
    <2>1. UNCHANGED <<status, call, voucherId, jobs, sent>>
      BY <1>3 DEF Pesapal, Settle, Flip, db, post
    <2>2. faults' >= faults
      BY <1>0, <1>3, FaultCounts DEF Pesapal, Settle, Flip, TypeOK
    <2> QED
      BY <1>1, <2>1, <2>2
  <1>4. ASSUME NEW w \in Workers, Enter(w) PROVE Costs
    <2>1. call[w].pc \notin Holding /\ \E c : Become(w, c)
      BY <1>4 DEF Enter, IpnStart, ReturnStart, StatusStart, ResumeStart, SweepStart, Reconcile,
         At, Holding
    <2>2. UNCHANGED <<status, voucherId, jobs, sent>> /\ faults' >= faults
      BY <1>0, <1>4 DEF Enter, IpnStart, ReturnStart, StatusStart, ResumeStart, SweepStart,
         db, post, TypeOK
    <2> QED
      BY <1>0, <2>1, <2>2, QuietCosts
  <1>5. ASSUME NEW w \in Workers, Crash(w) PROVE Costs
    BY <1>0, <1>5, FaultCosts DEF Crash, Fault, db, post
  <1>6. ASSUME NEW j \in jobs, SendReceipt(j) PROVE Costs
    <2>1. UNCHANGED <<call, status, voucherId, faults>> /\ (jobs \cup sent)' = jobs \cup sent
      BY <1>6 DEF SendReceipt, db
    <2>2. \A t, labels : SeenTo(t, labels)' <=> SeenTo(t, labels)
      BY <2>1 DEF SeenTo
    <2>3. \A t \in Txns : t \in Forgotten' => t \in Forgotten
      BY <2>1, <2>2, StaysSeenTo
    <2> QED
      BY <1>0, <2>1, <2>3 DEF Costs, OnlyForgets, TypeOK
  <1>7. ASSUME NEW j \in jobs, LoseReceipt(j) PROVE Costs
    <2>1. /\ UNCHANGED <<call, status, voucherId>> /\ faults' = faults + 1
          /\ (jobs \cup sent)' \cup {j} = jobs \cup sent
      BY <1>7 DEF LoseReceipt, Fault, db
    <2>2. \A t, labels : SeenTo(t, labels)' <=> SeenTo(t, labels)
      BY <2>1 DEF SeenTo
    <2>3. ASSUME NEW t \in Txns, t # j.txn, t \in Forgotten' PROVE t \in Forgotten
      BY <2>1, <2>2, <2>3 DEF Forgotten
    <2>4. OnlyForgets({j.txn})
      BY <2>3 DEF OnlyForgets
    <2> QED
      BY <2>1, <2>4 DEF Costs
  <1>8. CASE Tick \/ UNCHANGED vars
    BY <1>0, <1>1, <1>8 DEF Tick, vars, db, post, TypeOK
  <1> QED
    BY <1>2, <1>3, <1>4, <1>5, <1>6, <1>7, <1>8, RunCosts DEF Next, Background

FewForgotten == IsFiniteSet(Forgotten) /\ Cardinality(Forgotten) <= faults

(* A payment that was received and recorded is never left without its       *)
(* voucher or its receipt by anything but a fault, and by one for each: no  *)
(* interleaving of the entry points drops one, and a crash of the sweep     *)
(* drops only the payment it was at.                                        *)
THEOREM FaultsCostOneEach == Spec => []EveryFaultCostsOne
  <1>1. Init => FewForgotten
    <2> SUFFICES ASSUME Init PROVE FewForgotten
      OBVIOUS
    <2>1. Forgotten = {} /\ faults = 0
      BY DEF Init, Forgotten
    <2> QED
      BY <2>1, FS_EmptySet DEF FewForgotten
  <1>2. IInv /\ FewForgotten /\ [Next]_vars => FewForgotten'
    <2> SUFFICES ASSUME IInv, FewForgotten, [Next]_vars PROVE FewForgotten'
      OBVIOUS
    <2>1. Forgotten' \subseteq Txns /\ faults \in Nat /\ faults' \in Nat
      BY InvNext DEF Forgotten, IInv, TypeOK
    <2>2. IsFiniteSet(Forgotten) /\ Cardinality(Forgotten) \in Nat /\ Cardinality(Forgotten) <= faults
      BY FS_CardinalityType DEF FewForgotten
    <2> PICK S : S = Forgotten'
      OBVIOUS
    <2>3. CASE S \subseteq Forgotten /\ faults' >= faults
      <3>1. IsFiniteSet(S) /\ Cardinality(S) <= Cardinality(Forgotten) /\ Cardinality(S) \in Nat
        BY <2>2, <2>3, FS_Subset, FS_CardinalityType
      <3> QED
        BY <2>1, <2>2, <2>3, <3>1 DEF FewForgotten
    <2>4. ASSUME NEW t, S \subseteq Forgotten \cup {t}, faults' = faults + 1
          PROVE  FewForgotten'
      <3>0. /\ IsFiniteSet(Forgotten \cup {t})
            /\ Cardinality(Forgotten \cup {t})
                 = IF t \in Forgotten THEN Cardinality(Forgotten) ELSE Cardinality(Forgotten) + 1
        BY <2>2, FS_AddElement
      <3>1. /\ IsFiniteSet(Forgotten \cup {t})
            /\ Cardinality(Forgotten \cup {t}) <= Cardinality(Forgotten) + 1
            /\ Cardinality(Forgotten \cup {t}) \in Nat
        BY <2>2, <3>0
      <3>2. /\ IsFiniteSet(S) /\ Cardinality(S) \in Nat
            /\ Cardinality(S) <= Cardinality(Forgotten \cup {t})
        BY <2>4, <3>1, FS_Subset, FS_CardinalityType
      <3> QED
        BY <2>1, <2>2, <2>4, <3>1, <3>2 DEF FewForgotten
    <2> QED
      BY <2>1, <2>3, <2>4, CostsNext DEF Costs, OnlyForgets
  <1>3. FewForgotten => EveryFaultCostsOne
    BY DEF FewForgotten, EveryFaultCostsOne
  <1> QED
    BY <1>1, <1>2, <1>3, Invariance, PTL DEF Spec
-----------------------------------------------------------------------------
(* The pages: Portal composes them with the handlers, so what follows rests *)
(* on what is above.                                                        *)

Asks == [page : Customers, by : Intervals \cup {NoInterval}]
Answered == [to : Customers, by : Intervals \cup {NoInterval}, from : Workers,
             txn : Txns, status : Statuses, code : Codes \cup {NoCode}]

PortalTypeOK ==
    /\ polls \in [Customers -> SUBSET [id : Intervals, txn : Txns]]
    /\ panel \in [Customers -> SUBSET {"plans", "status", "success", "failed"}]
    /\ timer \in [Customers -> SUBSET Codes]
    /\ online \in [Customers -> Codes \cup {NoCode}]
    /\ asked \in [Customers -> SUBSET Txns]
    /\ asker \in [Workers -> {NoOne} \cup Asks]
    /\ net \subseteq Answered

(* A page's intervals and the calls it waits for are about payments it was  *)
(* told to follow; a call that answers a page never turns to another row.   *)
Answering == {w \in Workers : Entry[w] \in {"status", "resume"}}
OwnCalls ==
    /\ \A p \in Customers : \A poll \in polls[p] : poll.txn \in asked[p]
    /\ \A w \in Answering : call[w].pc # "next"
    /\ \A w \in Workers : asker[w] # NoOne =>
          w \in Answering /\ (call[w].txn # NoTxn => call[w].txn \in asked[asker[w].page])

(* An answer on its way was true when it was given, and what it says of an  *)
(* outcome and of a code still is; the page still follows the payment.      *)
OutOfDateAtWorst(m) ==
    /\ m.txn \in asked[m.to]
    /\ m.status \in {"completed", "failed"} => status[m.txn] = m.status
    /\ m.code # NoCode => voucher[m.code] = m.txn /\ status[m.txn] = "completed"

PaidCode(p, c) == \E t \in asked[p] : voucher[c] = t /\ status[t] = "completed"
PaidBy(p) == \E t \in asked[p] : status[t] = "completed"

PagesArePaid ==
    \A p \in Customers :
        /\ \A c \in timer[p] : PaidCode(p, c)
        /\ online[p] # NoCode => PaidCode(p, online[p])
        /\ "success" \in panel[p] => PaidBy(p)

PortalInv ==
    PortalTypeOK /\ OwnCalls /\ (\A m \in net : OutOfDateAtWorst(m)) /\ PagesArePaid

(* Every step of the composition is a step of the handlers, or none.        *)
LEMMA PortalIsFulfillment ==
  ASSUME PortalTypeOK, [PortalNext]_allVars
  PROVE  [Next]_vars
  <1>1. CASE Backend
    BY <1>1 DEF Backend, Next, Enter
  <1>2. ASSUME NEW t \in Txns, ReturnFromPesapal(t) PROVE UNCHANGED vars
    BY <1>2 DEF ReturnFromPesapal
  <1>3. ASSUME NEW w \in Workers, Answer(w) PROVE Next
    BY <1>3 DEF Answer, Next, Run
  <1>4. ASSUME NEW w \in Workers, NEW p \in Customers, NEW poll \in polls[p], Poll(w, p, poll)
        PROVE  Next
    <2>1. poll.txn \in Txns
      BY <1>4 DEF Poll, PortalTypeOK
    <2> QED
      BY <1>4, <2>1 DEF Poll, Next, Enter
  <1>5. ASSUME NEW m \in net, ReceiveStatus(m) \/ ReceiveResume(m) \/ LoseAnswer(m)
        PROVE  UNCHANGED vars
    BY <1>5 DEF ReceiveStatus, ReceiveResume, LoseAnswer
  <1>6. ASSUME NEW p \in Customers, NEW c \in Codes, Login(p, c) PROVE UNCHANGED vars
    BY <1>6 DEF Login
  <1>7. CASE UNCHANGED allVars
    BY <1>7 DEF allVars
  <1>8. ASSUME NEW w \in Workers, NEW p \in Customers, NEW t \in Txns, Recover(w, p, t)
        PROVE  Next
    BY <1>8 DEF Recover, Next, Enter
  <1>9. ASSUME NEW p \in Customers, NEW poll \in polls[p], PollTimeout(p, poll)
        PROVE  UNCHANGED vars
    BY <1>9 DEF PollTimeout
  <1> QED
    BY <1>1, <1>2, <1>3, <1>4, <1>5, <1>6, <1>7, <1>8, <1>9 DEF PortalNext

(* What the handlers did for good: outcomes, and codes that were issued.    *)
LEMMA ForGood ==
  ASSUME IInv, [Next]_vars
  PROVE  /\ \A t \in Txns : status[t] \in {"completed", "failed"} => status'[t] = status[t]
         /\ \A c \in Codes : voucher[c] # NoTxn => voucher'[c] = voucher[c]
  <1>1. OutcomeStep \/ UNCHANGED vars
    BY OutcomeNext
  <1>2. \A t \in Txns : status[t] \in {"completed", "failed"} => status'[t] = status[t]
    BY <1>1 DEF OutcomeStep, vars, db
  <1>3. UNCHANGED voucher \/ \E w \in Workers, c \in Codes : IssueVoucher(w, c)
    <2>1. ASSUME NEW t \in Txns, Purchase(t) \/ Pesapal(t) PROVE UNCHANGED voucher
      BY <2>1 DEF Purchase, InsertTxn, SubmitOrder, SubmitFails, SaveTracking,
         PurchaseCrashes, Pesapal, Settle, Flip, db
    <2>2. ASSUME NEW w \in Workers, Enter(w) \/ Crash(w) PROVE UNCHANGED voucher
      BY <2>2 DEF Enter, IpnStart, ReturnStart, StatusStart, ResumeStart, SweepStart, Crash, db
    <2>3. CASE Background \/ Tick \/ UNCHANGED vars
      BY <2>3 DEF Background, SendReceipt, LoseReceipt, Tick, vars, db
    <2>4. ASSUME NEW w \in Workers, Run(w), \A c \in Codes : ~IssueVoucher(w, c)
          PROVE  UNCHANGED voucher
      BY <2>4 DEF Run, SweepNext, Query, QueryFails, Claim, Reject, Wait, Issue,
         IssueFails, LinkVoucher, ReadAccount, WriteAccount, Dispatch, Respond, db
    <2> QED
      BY <2>1, <2>2, <2>3, <2>4 DEF Next
  <1>4. ASSUME NEW w \in Workers, NEW d \in Codes, IssueVoucher(w, d)
        PROVE  \A c \in Codes : voucher[c] # NoTxn => voucher'[c] = voucher[c]
    BY <1>4 DEF IssueVoucher, IInv, TypeOK
  <1> QED
    BY <1>2, <1>3, <1>4

(* ... so what was paid, and what an answer said, stays so, for a page that *)
(* follows the same payments and more.                                      *)
LEMMA StaysTrue ==
  ASSUME IInv, [Next]_vars, PortalTypeOK, NEW p \in Customers, asked[p] \subseteq asked'[p]
  PROVE  /\ \A c \in Codes : PaidCode(p, c) => PaidCode(p, c)'
         /\ PaidBy(p) => PaidBy(p)'
         /\ \A m \in Answered : m.to = p /\ OutOfDateAtWorst(m) => OutOfDateAtWorst(m)'
  <1>1. /\ \A t \in Txns : status[t] \in {"completed", "failed"} => status'[t] = status[t]
        /\ \A c \in Codes : voucher[c] # NoTxn => voucher'[c] = voucher[c]
        /\ NoTxn \notin Txns /\ asked[p] \subseteq Txns
    BY ForGood, DataAssumption DEF DataAssumption, PortalTypeOK
  <1>2. \A c \in Codes : PaidCode(p, c) => PaidCode(p, c)'
    BY <1>1 DEF PaidCode
  <1>3. PaidBy(p) => PaidBy(p)'
    BY <1>1 DEF PaidBy
  <1>4. ASSUME NEW m \in Answered, m.to = p, OutOfDateAtWorst(m) PROVE OutOfDateAtWorst(m)'
    <2>1. m.txn \in Txns /\ m.code \in Codes \cup {NoCode}
      BY DEF Answered
    <2> QED
      BY <1>1, <1>4, <2>1 DEF OutOfDateAtWorst
  <1> QED
    BY <1>2, <1>3, <1>4

(* A page that is not loaded anew follows what it followed.                 *)
LEMMA AskedGrows ==
  ASSUME PortalTypeOK, [PortalNext]_allVars, NEW p \in Customers,
         \A t \in Txns : Buyer[t] = p => ~ReturnFromPesapal(t)
  PROVE  asked[p] \subseteq asked'[p]
  <1>1. ASSUME NEW t \in Txns, ReturnFromPesapal(t) PROVE asked'[p] = asked[p]
    BY <1>1 DEF ReturnFromPesapal, PortalTypeOK
  <1>2. ASSUME NEW w \in Workers, NEW q \in Customers, NEW t \in Txns, Recover(w, q, t)
        PROVE  asked[p] \subseteq asked'[p]
    BY <1>2 DEF Recover, PortalTypeOK
  <1>3. CASE UNCHANGED asked
    BY <1>3
  <1>4. ASSUME NEW m \in net, ReceiveStatus(m) \/ ReceiveResume(m) \/ LoseAnswer(m)
        PROVE  UNCHANGED asked
    BY <1>4 DEF ReceiveStatus, ReceiveResume, LoseAnswer, page
  <1>5. CASE Backend \/ UNCHANGED allVars
    BY <1>5 DEF Backend, allVars, page
  <1>6. ASSUME NEW w \in Workers, NEW q \in Customers, NEW poll \in polls[q], Poll(w, q, poll)
        PROVE  UNCHANGED asked
    BY <1>6 DEF Poll, page
  <1>7. ASSUME NEW w \in Workers, Answer(w) PROVE UNCHANGED asked
    BY <1>7 DEF Answer, page
  <1>8. ASSUME NEW q \in Customers, NEW c \in Codes, Login(q, c) PROVE UNCHANGED asked
    BY <1>8 DEF Login
  <1>9. ASSUME NEW q \in Customers, NEW poll \in polls[q], PollTimeout(q, poll)
        PROVE  UNCHANGED asked
    BY <1>9 DEF PollTimeout
  <1> QED
    BY <1>1, <1>2, <1>3, <1>4, <1>5, <1>6, <1>7, <1>8, <1>9 DEF PortalNext

LEMMA PortalInitInv == PortalInit => PortalInv
  <1> SUFFICES ASSUME PortalInit PROVE PortalInv
    OBVIOUS
  <1>1. PortalTypeOK
    BY DEF PortalInit, PortalTypeOK
  <1>2. \A w \in Workers : call[w].pc = "idle"
    BY DEF PortalInit, Init, IdleCall
  <1>3. OwnCalls
    BY <1>2 DEF PortalInit, OwnCalls, Answering
  <1>4. PagesArePaid /\ \A m \in net : OutOfDateAtWorst(m)
    BY DEF PortalInit, PagesArePaid
  <1> QED
    BY <1>1, <1>3, <1>4 DEF PortalInv

(* Left to itself, a call that answers a page keeps its row or ends.        *)
Keeps(v) ==
    call'[v].pc # "next" /\ (call'[v].txn = call[v].txn \/ call'[v].txn = NoTxn)

LEMMA CallsKeepTheirRow ==
  ASSUME IInv, Backend, NEW v \in Answering, call[v].pc # "next"
  PROVE  Keeps(v)
  <1>1. call \in [Workers -> Calls] /\ v \in Workers
    BY DEF IInv, TypeOK, Answering
  <1>2. IdleCall.pc = "idle" /\ IdleCall.txn = NoTxn
    BY DEF IdleCall
  <1>3. CASE UNCHANGED call
    BY <1>3 DEF Keeps
  <1>4. ASSUME NEW w \in Workers, NEW r, Become(w, r), w # v PROVE Keeps(v)
    BY <1>1, <1>4 DEF Become, Keeps
  <1>5. ASSUME NEW r, Become(v, r), r.pc # "next", r.txn = call[v].txn \/ r.txn = NoTxn
        PROVE  Keeps(v)
    BY <1>1, <1>5 DEF Become, Keeps
  <1>6. ASSUME NEW label, label # "next", Goto(v, label) PROVE Keeps(v)
    BY <1>1, <1>6 DEF Goto, Become, Keeps, Calls
  <1>7. CASE Become(v, After(v))
    <2>1. After(v).pc = "respond" /\ After(v).txn = call[v].txn
      BY DEF After, IdleCall, Answering
    <2> HIDE DEF After
    <2> QED
      BY <1>5, <1>7, <2>1
  <1>8. CASE Become(v, IdleCall)
    <2> HIDE DEF IdleCall
    <2> QED
      BY <1>2, <1>5, <1>8
  <1>9. ASSUME NEW w \in Workers, Run(w) \/ Crash(w), w # v PROVE Keeps(v)
    <2>1. CASE SweepNext(w)
      BY <1>4, <1>9, <2>1 DEF SweepNext
    <2>2. CASE Issue(w)
      BY <1>4, <1>9, <2>2 DEF Issue, IssueVoucher, IssueFails
    <2>3. CASE ReadAccount(w)
      BY <1>4, <1>9, <2>3 DEF ReadAccount, Goto
    <2>4. CASE Claim(w)
      BY <1>4, <1>9, <2>4 DEF Claim, Goto
    <2>5. CASE Query(w)
      BY <1>4, <1>9, <2>5 DEF Query
    <2>7. CASE QueryFails(w) \/ Wait(w)
      BY <1>4, <1>9, <2>7 DEF QueryFails, Wait
    <2>8. CASE Reject(w)
      BY <1>4, <1>9, <2>8 DEF Reject
    <2>6. CASE LinkVoucher(w) \/ WriteAccount(w) \/ Dispatch(w) \/ Respond(w) \/ Crash(w)
      BY <1>4, <1>9, <2>6 DEF LinkVoucher, WriteAccount, Dispatch, Respond, Crash, Goto
    <2> QED
      BY <1>9, <2>1, <2>2, <2>3, <2>4, <2>5, <2>6, <2>7, <2>8 DEF Run
  <1>10. ASSUME NEW w \in Workers,
                SweepStart(w) \/ \E t \in Txns : IpnStart(w, t) \/ ReturnStart(w, t)
         PROVE  Keeps(v)
    <2>1. w # v
      BY <1>10 DEF SweepStart, IpnStart, ReturnStart, Answering
    <2> QED
      BY <1>4, <1>10, <2>1 DEF SweepStart, IpnStart, ReturnStart, Reconcile
  <1>11. CASE Run(v) \/ Crash(v)
    <2>1. CASE Query(v)
      BY <1>1, <2>1 DEF Query, Become, Keeps, Calls
    <2>2. CASE Issue(v)
      <3> PICK c \in Codes, label \in {"link", "receipt"} :
             Become(v, [call[v] EXCEPT !.pc = label, !.code = c])
        BY <2>2 DEF Issue, IssueVoucher, IssueFails
      <3> QED
        BY <1>1 DEF Become, Keeps, Calls
    <2>3. CASE ReadAccount(v)
      <3>1. CASE Goto(v, "receipt")
        BY <1>6, <3>1
      <3>2. CASE \E n : Become(v, [call[v] EXCEPT !.pc = "renew", !.renewal = n])
        BY <1>1, <3>2 DEF Become, Keeps, Calls
      <3> QED
        BY <2>3, <3>1, <3>2 DEF ReadAccount
    <2>4. CASE Claim(v)
      <3>1. Fulfil(call[v].txn) # "next"
        BY DEF Fulfil
      <3> QED
        BY <1>6, <1>7, <2>4, <3>1 DEF Claim
    <2>5. ~SweepNext(v)
      BY DEF SweepNext, At
    <2> QED
      BY <1>6, <1>7, <1>8, <1>11, <2>1, <2>2, <2>3, <2>4, <2>5 DEF Run, Crash, QueryFails,
         Reject, Wait, LinkVoucher, WriteAccount, Dispatch, Respond
  <1>12. ASSUME NEW t \in Txns, Purchase(t) \/ Pesapal(t) PROVE UNCHANGED call
    BY <1>12 DEF Purchase, InsertTxn, SubmitOrder, SubmitFails, SaveTracking,
       PurchaseCrashes, Pesapal, Settle, Flip
  <1>13. CASE Background \/ Tick
    BY <1>13, <1>3 DEF Background, SendReceipt, LoseReceipt, Tick
  <1> QED
    BY <1>3, <1>9, <1>10, <1>11, <1>12, <1>13 DEF Backend

(* The composition's parts of an answer, of the page and of its calls.      *)
LEMMA IntervalType ==
  ASSUME NEW p, NEW t \in Txns, Unused(p) # {}
  PROVE  Interval(p, t) \in [id : Intervals, txn : Txns] /\ Interval(p, t).txn = t
  <1>1. PICK i : i = CHOOSE j \in Unused(p) : TRUE
    OBVIOUS
  <1>2. i \in Intervals
    BY <1>1 DEF Unused
  <1> QED
    BY <1>1, <1>2 DEF Interval

LEMMA PortalTypeNext ==
  ASSUME IInv, PortalInv, PortalNext
  PROVE  PortalTypeOK'
  <1>0. PortalTypeOK /\ TypeOK
    BY DEF PortalInv, IInv
  <1> USE DEF PortalTypeOK
  <1>1. CASE Backend
    BY <1>0, <1>1 DEF Backend, page
  <1>2. ASSUME NEW t \in Txns, ReturnFromPesapal(t) PROVE PortalTypeOK'
    <2>1. Buyer[t] \in Customers
      BY DataAssumption DEF DataAssumption
    <2>2. PICK i : i = CHOOSE j \in Intervals : TRUE
      OBVIOUS
    <2>3. i \in Intervals
      BY <2>2, PortalAssumption DEF PortalAssumption
    <2>4. polls' = [polls EXCEPT ![Buyer[t]] = {[id |-> i, txn |-> t]}]
      BY <1>2, <2>2 DEF ReturnFromPesapal
    <2>5. polls' \in [Customers -> SUBSET [id : Intervals, txn : Txns]]
      BY <1>0, <2>1, <2>3, <2>4
    <2> QED
      BY <1>0, <1>2, <2>1, <2>5 DEF ReturnFromPesapal, Deaf
  <1>3. ASSUME NEW w \in Workers, NEW p \in Customers, NEW poll \in polls[p], Poll(w, p, poll)
        PROVE  PortalTypeOK'
    <2>1. [page |-> p, by |-> poll.id] \in Asks
      BY <1>0 DEF Asks
    <2> QED
      BY <1>0, <1>3, <2>1 DEF Poll, page
  <1>8. ASSUME NEW w \in Workers, NEW p \in Customers, NEW t \in Txns, Recover(w, p, t)
        PROVE  PortalTypeOK'
    <2>1. [page |-> p, by |-> NoInterval] \in Asks
      BY DEF Asks
    <2> QED
      BY <1>0, <1>8, <2>1 DEF Recover
  <1>9. ASSUME NEW p \in Customers, NEW poll \in polls[p], PollTimeout(p, poll)
        PROVE  PortalTypeOK'
    BY <1>0, <1>9 DEF PollTimeout, ShowFailure
  <1>4. ASSUME NEW w \in Workers, Answer(w) PROVE PortalTypeOK'
    <2>1. call[w].txn \in Txns
      BY <1>4 DEF Answer, Respond, At, IInv, CallInv, CallsHaveTxn
    <2>2. status[call[w].txn] \in Statuses /\ voucherId[call[w].txn] \in Codes \cup {NoCode}
      BY <1>0, <2>1 DEF TypeOK
    <2>3. net' \subseteq Answered
      <3>1. CASE asker[w] = NoOne
        BY <1>0, <1>4, <3>1 DEF Answer
      <3>2. CASE asker[w] # NoOne
        <4>1. asker[w].page \in Customers /\ asker[w].by \in Intervals \cup {NoInterval}
          BY <1>0, <3>2 DEF Asks
        <4>2. [to |-> asker[w].page, by |-> asker[w].by, from |-> w, txn |-> call[w].txn,
               status |-> status[call[w].txn], code |-> voucherId[call[w].txn]] \in Answered
          BY <2>1, <2>2, <4>1 DEF Answered
        <4> QED
          BY <1>0, <1>4, <3>2, <4>2 DEF Answer
      <3> QED
        BY <3>1, <3>2
    <2> QED
      BY <1>0, <1>4, <2>3 DEF Answer, page
  <1>5. ASSUME NEW m \in net, ReceiveStatus(m) \/ ReceiveResume(m) \/ LoseAnswer(m)
        PROVE  PortalTypeOK'
    <2>1. m.to \in Customers /\ m.txn \in Txns /\ m.code \in Codes \cup {NoCode}
      BY <1>0 DEF Answered
    <2>2. CASE ReceiveStatus(m)
      BY <1>0, <2>1, <2>2 DEF ReceiveStatus, ShowSuccess, ShowFailure, Cleared
    <2>3. CASE ReceiveResume(m)
      <3>1. Unused(m.to) # {} => Interval(m.to, m.txn) \in [id : Intervals, txn : Txns]
        BY <2>1, IntervalType
      <3> QED
        BY <1>0, <2>1, <2>3, <3>1 DEF ReceiveResume, ShowSuccess
    <2>4. CASE LoseAnswer(m)
      BY <1>0, <2>4 DEF LoseAnswer, page
    <2> QED
      BY <1>5, <2>2, <2>3, <2>4
  <1>6. ASSUME NEW p \in Customers, NEW c \in Codes, Login(p, c) PROVE PortalTypeOK'
    BY <1>0, <1>6 DEF Login, Deaf
  <1> QED
    BY <1>1, <1>2, <1>3, <1>4, <1>5, <1>6, <1>8, <1>9 DEF PortalNext

LEMMA OwnCallsNext ==
  ASSUME IInv, PortalInv, PortalNext
  PROVE  OwnCalls'
  <1>0. PortalTypeOK /\ TypeOK /\ OwnCalls
    BY DEF PortalInv, IInv
  <1>A. \A w \in Workers : asker[w] # NoOne => asker[w].page \in Customers
    BY <1>0 DEF PortalTypeOK, Asks
  <1>1. CASE Backend
    <2>1. polls' = polls /\ asker' = asker /\ asked' = asked
      BY <1>1 DEF Backend, page
    <2>2. \A w \in Answering : Keeps(w)
      BY <1>0, <1>1, CallsKeepTheirRow DEF OwnCalls
    <2> QED
      BY <1>0, <2>1, <2>2 DEF OwnCalls, Keeps, Answering
  <1>2. ASSUME NEW t \in Txns, ReturnFromPesapal(t) PROVE OwnCalls'
    <2>1. Buyer[t] \in Customers
      BY DataAssumption DEF DataAssumption
    <2>2. call' = call
      BY <1>2 DEF ReturnFromPesapal, vars
    <2>3. asked' = [asked EXCEPT ![Buyer[t]] = {t}]
      BY <1>2 DEF ReturnFromPesapal
    <2>4. \A p \in Customers : \A poll \in polls'[p] : poll.txn \in asked'[p]
      <3> PICK i : i = CHOOSE j \in Intervals : TRUE
        OBVIOUS
      <3>1. polls' = [polls EXCEPT ![Buyer[t]] = {[id |-> i, txn |-> t]}]
        BY <1>2 DEF ReturnFromPesapal
      <3> QED
        BY <1>0, <2>1, <2>3, <3>1 DEF OwnCalls, PortalTypeOK
    <2>5. \A w \in Workers : asker'[w] # NoOne =>
             asker'[w] = asker[w] /\ asker[w].page # Buyer[t]
      BY <1>2 DEF ReturnFromPesapal, Deaf
    <2> QED
      BY <1>0, <1>A, <2>1, <2>2, <2>3, <2>4, <2>5 DEF OwnCalls, PortalTypeOK, Answering
  <1>3. ASSUME NEW w \in Workers, NEW p \in Customers, NEW t \in Txns, NEW a,
               polls' = polls, asker' = [asker EXCEPT ![w] = a], a.page = p,
               Reconcile(w, t), w \in Answering, t \in asked'[p],
               \A q \in Customers : asked[q] \subseteq asked'[q]
        PROVE  OwnCalls'
    <2>3. call'[w].txn = t /\ call'[w].pc # "next"
      <3>1. PICK r : /\ r = [IdleCall EXCEPT
                               !.pc = IF Reconcilable(t) THEN "query" ELSE "respond",
                               !.txn = t]
        OBVIOUS
      <3>2. r.txn = t /\ r.pc # "next"
        BY <3>1 DEF IdleCall
      <3> QED
        BY <1>0, <1>3, <3>1, <3>2 DEF Reconcile, Become, TypeOK
    <2>4. \A v \in Workers : v # w => call'[v] = call[v]
      BY <1>0, <1>3 DEF Reconcile, Become, TypeOK
    <2>5. asker'[w] = a /\ \A v \in Workers : v # w => asker'[v] = asker[v]
      BY <1>0, <1>3 DEF PortalTypeOK
    <2> QED
      BY <1>0, <1>3, <1>A, <2>3, <2>4, <2>5 DEF OwnCalls, Answering
  <1>7. ASSUME NEW w \in Workers, NEW p \in Customers, NEW poll \in polls[p], Poll(w, p, poll)
        PROVE  OwnCalls'
    <2>1. poll.txn \in Txns /\ poll.txn \in asked[p]
      BY <1>0 DEF OwnCalls, PortalTypeOK
    <2>2. /\ polls' = polls /\ asked' = asked
          /\ asker' = [asker EXCEPT ![w] = [page |-> p, by |-> poll.id]]
          /\ Reconcile(w, poll.txn) /\ w \in Answering
      BY <1>7 DEF Poll, StatusStart, page, Answering
    <2>3. PICK a : a = [page |-> p, by |-> poll.id]
      OBVIOUS
    <2>4. a.page = p /\ asker' = [asker EXCEPT ![w] = a]
      BY <2>2, <2>3
    <2> QED
      BY <1>3, <2>1, <2>2, <2>4
  <1>8. ASSUME NEW w \in Workers, NEW p \in Customers, NEW t \in Txns, Recover(w, p, t)
        PROVE  OwnCalls'
    <2>1. /\ polls' = polls /\ asked' = [asked EXCEPT ![p] = @ \cup {t}]
          /\ asker' = [asker EXCEPT ![w] = [page |-> p, by |-> NoInterval]]
          /\ Reconcile(w, t) /\ w \in Answering
      BY <1>8 DEF Recover, ResumeStart, Answering
    <2>2. t \in asked'[p] /\ \A q \in Customers : asked[q] \subseteq asked'[q]
      BY <1>0, <2>1 DEF PortalTypeOK
    <2>3. PICK a : a = [page |-> p, by |-> NoInterval]
      OBVIOUS
    <2>4. a.page = p /\ asker' = [asker EXCEPT ![w] = a]
      BY <2>1, <2>3
    <2> QED
      BY <1>3, <2>1, <2>2, <2>4
  <1>4. ASSUME NEW w \in Workers, Answer(w) PROVE OwnCalls'
    <2>1. /\ polls' = polls /\ asked' = asked
          /\ asker' = [asker EXCEPT ![w] = NoOne] /\ Become(w, IdleCall)
      BY <1>4 DEF Answer, Respond, page
    <2>2. call' = [call EXCEPT ![w] = IdleCall] /\ IdleCall.pc # "next"
      BY <2>1 DEF Become, IdleCall
    <2> HIDE DEF NoOne, IdleCall
    <2> QED
      BY <1>0, <2>1, <2>2 DEF OwnCalls, PortalTypeOK, Answering, TypeOK
  <1>5. ASSUME NEW m \in net, ReceiveStatus(m) \/ ReceiveResume(m) \/ LoseAnswer(m)
        PROVE  OwnCalls'
    <2>1. /\ m \in Answered /\ m.txn \in asked[m.to] /\ m.txn \in Txns
          /\ m.to \in Customers
      BY <1>0 DEF PortalInv, PortalTypeOK, OutOfDateAtWorst, Answered
    <2>2. asker' = asker /\ call' = call /\ asked' = asked
      BY <1>5 DEF ReceiveStatus, ReceiveResume, LoseAnswer, vars, page
    <2>3. \A p \in Customers : \A poll \in polls'[p] : poll.txn \in asked[p]
      <3>1. CASE polls' = polls \/ polls' = Cleared(m)
        BY <1>0, <2>1, <3>1 DEF Cleared, OwnCalls, PortalTypeOK
      <3>2. CASE /\ Unused(m.to) # {}
                 /\ polls' = [polls EXCEPT ![m.to] = @ \cup {Interval(m.to, m.txn)}]
        <4> PICK i : i = Interval(m.to, m.txn)
          OBVIOUS
        <4>1. i.txn = m.txn
          BY <2>1, <3>2, IntervalType
        <4> QED
          BY <1>0, <2>1, <3>2, <4>1 DEF OwnCalls, PortalTypeOK
      <3> QED
        BY <1>5, <3>1, <3>2 DEF ReceiveStatus, ReceiveResume, LoseAnswer, page
    <2> QED
      BY <1>0, <2>2, <2>3 DEF OwnCalls, Answering
  <1>6. ASSUME NEW p \in Customers, NEW c \in Codes, Login(p, c) PROVE OwnCalls'
    <2>1. /\ polls' = [polls EXCEPT ![p] = {}] /\ call' = call /\ asked' = asked
          /\ \A w \in Workers : asker'[w] # NoOne => asker'[w] = asker[w]
      BY <1>6 DEF Login, Deaf, vars
    <2> QED
      BY <1>0, <2>1 DEF OwnCalls, PortalTypeOK, Answering
  <1>9. ASSUME NEW p \in Customers, NEW poll \in polls[p], PollTimeout(p, poll)
        PROVE  OwnCalls'
    <2>1. /\ polls' = [polls EXCEPT ![p] = @ \ {poll}] /\ call' = call /\ asked' = asked
          /\ asker' = asker
      BY <1>9 DEF PollTimeout, vars
    <2> QED
      BY <1>0, <2>1 DEF OwnCalls, PortalTypeOK, Answering
  <1> QED
    BY <1>1, <1>2, <1>4, <1>5, <1>6, <1>7, <1>8, <1>9 DEF PortalNext

(* An answer is given from the row as it is: what it says is true then.     *)
LEMMA AnswersAreTrueWhenGiven ==
  ASSUME IInv, PortalInv, NEW w \in Workers, Answer(w), asker[w] # NoOne
  PROVE  OutOfDateAtWorst([to |-> asker[w].page, by |-> asker[w].by, from |-> w,
                           txn |-> call[w].txn, status |-> status[call[w].txn],
                           code |-> voucherId[call[w].txn]])
  <1>1. call[w].txn \in Txns /\ NoTxn \notin Txns
    BY DataAssumption DEF DataAssumption, Answer, Respond, At, IInv, CallInv, CallsHaveTxn
  <1>2. call[w].txn \in asked[asker[w].page]
    BY <1>1 DEF PortalInv, OwnCalls
  <1>3. ASSUME voucherId[call[w].txn] # NoCode
        PROVE  /\ voucher[voucherId[call[w].txn]] = call[w].txn
               /\ status[call[w].txn] = "completed"
    <2>1. voucherId[call[w].txn] \in Codes
      BY <1>1, <1>3 DEF IInv, TypeOK
    <2>2. voucher[voucherId[call[w].txn]] = call[w].txn
      BY <1>1, <1>3 DEF IInv, DataInv, LinkedToItsVoucher
    <2> QED
      BY <1>1, <2>1, <2>2 DEF IInv, DataInv, VouchersArePaid
  <1> QED
    BY <1>2, <1>3 DEF OutOfDateAtWorst

LEMMA AnswersStayTrue ==
  ASSUME IInv, PortalInv, PortalNext
  PROVE  \A m \in net' : OutOfDateAtWorst(m)'
  <1>1. [Next]_vars
    BY PortalIsFulfillment DEF PortalInv
  <1>2. net \subseteq Answered /\ (\A m \in net : OutOfDateAtWorst(m)) /\ PortalTypeOK
    BY DEF PortalInv, PortalTypeOK
  <1>3. ASSUME NEW m \in net, \A t \in Txns : Buyer[t] = m.to => ~ReturnFromPesapal(t)
        PROVE  OutOfDateAtWorst(m)'
    <2>1. m \in Answered /\ m.to \in Customers /\ OutOfDateAtWorst(m)
      BY <1>2 DEF Answered
    <2>2. asked[m.to] \subseteq asked'[m.to]
      BY <1>2, <1>3, <2>1, AskedGrows
    <2> QED
      BY <1>1, <1>2, <2>1, <2>2, StaysTrue
  <1>9. ASSUME NEW t \in Txns, ReturnFromPesapal(t)
        PROVE  \A m \in net' : OutOfDateAtWorst(m)'
    <2>1. /\ asked' = [asked EXCEPT ![Buyer[t]] = {t}] /\ UNCHANGED <<status, voucher>>
          /\ net' = {m \in net : m.to # Buyer[t]}
      BY <1>9 DEF ReturnFromPesapal, Deaf, vars, db
    <2> SUFFICES ASSUME NEW m \in net, m.to # Buyer[t] PROVE OutOfDateAtWorst(m)'
      BY <2>1
    <2>2. asked'[m.to] = asked[m.to]
      BY <1>2, <2>1 DEF PortalTypeOK, Answered
    <2> QED
      BY <1>2, <2>1, <2>2 DEF OutOfDateAtWorst
  <1>4. ASSUME net' \subseteq net, \A t \in Txns : ~ReturnFromPesapal(t)
        PROVE  \A m \in net' : OutOfDateAtWorst(m)'
    BY <1>3, <1>4
  <1>5. ASSUME NEW w \in Workers, Answer(w), asker[w] # NoOne,
               \A t \in Txns : ~ReturnFromPesapal(t)
        PROVE  \A m \in net' : OutOfDateAtWorst(m)'
    <2> PICK n : n = [to |-> asker[w].page, by |-> asker[w].by, from |-> w,
                      txn |-> call[w].txn, status |-> status[call[w].txn],
                      code |-> voucherId[call[w].txn]]
      OBVIOUS
    <2>1. net' = net \cup {n}
      BY <1>5 DEF Answer
    <2>2. OutOfDateAtWorst(n)
      BY <1>5, AnswersAreTrueWhenGiven
    <2>3. call[w].txn \in Txns
      BY <1>5 DEF Answer, Respond, At, IInv, CallInv, CallsHaveTxn
    <2>4. n \in Answered /\ n.to \in Customers
      <3>1. /\ asker[w].page \in Customers /\ status[call[w].txn] \in Statuses
            /\ asker[w].by \in Intervals \cup {NoInterval}
            /\ voucherId[call[w].txn] \in Codes \cup {NoCode}
        BY <1>5, <2>3 DEF IInv, TypeOK, PortalInv, PortalTypeOK, Asks
      <3> QED
        BY <2>3, <3>1 DEF Answered
    <2>5. OutOfDateAtWorst(n)'
      <3>1. asked[n.to] \subseteq asked'[n.to]
        BY <1>2, <1>5, <2>4, AskedGrows
      <3> QED
        BY <1>1, <1>2, <2>2, <2>4, <3>1, StaysTrue
    <2> QED
      BY <1>3, <1>5, <2>1, <2>5
  <1>6. ASSUME NEW w \in Workers, Answer(w), asker[w] = NoOne PROVE net' = net
    BY <1>6 DEF Answer
  <1>7. ASSUME NEW m \in net, ReceiveStatus(m) \/ ReceiveResume(m) \/ LoseAnswer(m)
        PROVE  net' \subseteq net
    BY <1>7 DEF ReceiveStatus, ReceiveResume, LoseAnswer
  <1>8. ASSUME NEW p \in Customers, NEW c \in Codes, Login(p, c) PROVE net' \subseteq net
    BY <1>8 DEF Login, Deaf
  <1>10. ASSUME Backend PROVE net' = net
    BY <1>10 DEF Backend
  <1>11. ASSUME NEW w \in Workers, NEW p \in Customers, NEW poll \in polls[p], Poll(w, p, poll)
         PROVE  net' = net
    BY <1>11 DEF Poll
  <1>12. ASSUME NEW w \in Workers, NEW p \in Customers, NEW t \in Txns, Recover(w, p, t)
         PROVE  net' = net
    BY <1>12 DEF Recover
  <1>13. ASSUME NEW p \in Customers, NEW poll \in polls[p], PollTimeout(p, poll)
         PROVE  net' = net
    BY <1>13 DEF PollTimeout
  <1>14. CASE \A t \in Txns : ~ReturnFromPesapal(t)
    <2>1. net' \subseteq net \/ \E w \in Workers : Answer(w) /\ asker[w] # NoOne
      BY <1>6, <1>7, <1>8, <1>10, <1>11, <1>12, <1>13, <1>14 DEF PortalNext
    <2> QED
      BY <1>4, <1>5, <1>14, <2>1
  <1> QED
    BY <1>9, <1>14

(* A page is touched only for a reason that its payments bear out.          *)
LEMMA PagesStayPaid ==
  ASSUME IInv, PortalInv, PortalNext
  PROVE  PagesArePaid'
  <1>0. PortalTypeOK /\ PagesArePaid
    BY DEF PortalInv
  <1>1. ASSUME NEW p \in Customers, asked[p] \subseteq asked'[p]
        PROVE  /\ \A c \in Codes : PaidCode(p, c) => PaidCode(p, c)'
               /\ PaidBy(p) => PaidBy(p)'
    BY <1>0, <1>1, PortalIsFulfillment, StaysTrue
  <1>2. ASSUME NEW p \in Customers, asked[p] \subseteq asked'[p],
               \A c \in timer'[p] : c \in timer[p] \/ PaidCode(p, c)',
               online'[p] \in {online[p], NoCode} \cup timer[p],
               "success" \in panel'[p] => "success" \in panel[p] \/ PaidBy(p)'
        PROVE  /\ \A c \in timer'[p] : PaidCode(p, c)'
               /\ online'[p] # NoCode => PaidCode(p, online[p])'
               /\ "success" \in panel'[p] => PaidBy(p)'
    <2>1. timer[p] \subseteq Codes /\ online[p] \in Codes \cup {NoCode}
      BY <1>0 DEF PortalTypeOK
    <2>2. \A c \in timer'[p] : PaidCode(p, c)'
      BY <1>0, <1>1, <1>2, <2>1 DEF PagesArePaid
    <2>3. ASSUME online'[p] # NoCode PROVE PaidCode(p, online[p])'
      <3> PICK c : c = online'[p]
        OBVIOUS
      <3>1. c \in Codes /\ PaidCode(p, c)
        BY <1>0, <1>2, <2>1, <2>3 DEF PagesArePaid
      <3>2. PaidCode(p, c)'
        BY <1>1, <1>2, <3>1
      <3> QED
        BY <3>2 DEF PaidCode
    <2>4. "success" \in panel'[p] => PaidBy(p)'
      BY <1>0, <1>1, <1>2 DEF PagesArePaid
    <2> QED
      BY <2>2, <2>3, <2>4
  <1>9. ASSUME \A t \in Txns : ~ReturnFromPesapal(t),
               \A p \in Customers :
                  /\ \A c \in timer'[p] : c \in timer[p] \/ PaidCode(p, c)'
                  /\ online'[p] \in {online[p], NoCode} \cup timer[p]
                  /\ "success" \in panel'[p] => "success" \in panel[p] \/ PaidBy(p)'
        PROVE  PagesArePaid'
    <2>1. \A p \in Customers : asked[p] \subseteq asked'[p]
      BY <1>0, <1>9, AskedGrows
    <2> QED
      BY <1>2, <1>9, <2>1 DEF PagesArePaid
  <1>4. ASSUME NEW t \in Txns, ReturnFromPesapal(t) PROVE PagesArePaid'
    <2>1. Buyer[t] \in Customers
      BY DataAssumption DEF DataAssumption
    <2>2. /\ panel' = [panel EXCEPT ![Buyer[t]] = {"status"}]
          /\ timer' = [timer EXCEPT ![Buyer[t]] = {}]
          /\ asked' = [asked EXCEPT ![Buyer[t]] = {t}]
          /\ online' = online /\ online[Buyer[t]] = NoCode
      BY <1>4 DEF ReturnFromPesapal, Offline
    <2> SUFFICES ASSUME NEW p \in Customers
                 PROVE  /\ \A c \in timer'[p] : PaidCode(p, c)'
                        /\ online'[p] # NoCode => PaidCode(p, online[p])'
                        /\ "success" \in panel'[p] => PaidBy(p)'
      BY DEF PagesArePaid
    <2>3. CASE p = Buyer[t]
      BY <1>0, <2>1, <2>2, <2>3 DEF PortalTypeOK
    <2>4. CASE p # Buyer[t]
      <3>1. /\ asked'[p] = asked[p] /\ timer'[p] = timer[p] /\ panel'[p] = panel[p]
            /\ online'[p] = online[p]
        BY <1>0, <2>1, <2>2, <2>4 DEF PortalTypeOK
      <3> QED
        BY <1>2, <3>1
    <2> QED
      BY <2>3, <2>4
  <1>3. CASE /\ UNCHANGED <<timer, online>>
             /\ \A p \in Customers : panel'[p] \subseteq panel[p] \cup {"failed", "status"}
    <2>1. CASE \A t \in Txns : ~ReturnFromPesapal(t)
      BY <1>3, <1>9, <2>1
    <2> QED
      BY <1>4, <2>1
  <1>5. ASSUME NEW m \in net, ReceiveStatus(m) \/ ReceiveResume(m), m.status # "completed"
        PROVE  PagesArePaid'
    <2>1. m.to \in Customers
      BY <1>0 DEF PortalTypeOK, Answered
    <2>2. timer' = timer /\ online' = online
      BY <1>5 DEF ReceiveStatus, ReceiveResume
    <2>3. \/ panel' = panel \/ ShowFailure(m.to)
          \/ panel' = [panel EXCEPT ![m.to] = @ \cup {"status"}]
      BY <1>5 DEF ReceiveStatus, ReceiveResume
    <2>4. \A p \in Customers : panel'[p] \subseteq panel[p] \cup {"failed", "status"}
      BY <1>0, <2>1, <2>3 DEF PortalTypeOK, ShowFailure
    <2> QED
      BY <1>3, <2>2, <2>4
  <1>6. ASSUME NEW m \in net, ReceiveStatus(m) \/ ReceiveResume(m), m.status = "completed"
        PROVE  PagesArePaid'
    <2>0. CASE \E t \in Txns : ReturnFromPesapal(t)
      BY <1>4, <2>0
    <2>9. CASE \A t \in Txns : ~ReturnFromPesapal(t)
      <3>1. m \in Answered /\ m.to \in Customers /\ m.txn \in Txns
        BY <1>0 DEF PortalTypeOK, Answered
      <3>2. /\ m.txn \in asked[m.to] /\ status[m.txn] = "completed"
            /\ m.code # NoCode => voucher[m.code] = m.txn
        BY <1>6 DEF PortalInv, OutOfDateAtWorst
      <3>3. ShowSuccess(m.to, m) /\ online' = online /\ UNCHANGED <<status, voucher, asked>>
        BY <1>6 DEF ReceiveStatus, ReceiveResume, vars, db
      <3>4. PaidBy(m.to)' /\ (m.code # NoCode => PaidCode(m.to, m.code)')
        BY <3>1, <3>2, <3>3 DEF PaidBy, PaidCode
      <3>5. \A p \in Customers : "success" \in panel'[p] => "success" \in panel[p] \/ PaidBy(p)'
        BY <1>0, <3>1, <3>3, <3>4 DEF ShowSuccess, PortalTypeOK
      <3>6. \A p \in Customers : \A c \in timer'[p] : c \in timer[p] \/ PaidCode(p, c)'
        BY <1>0, <3>1, <3>3, <3>4 DEF ShowSuccess, PortalTypeOK
      <3> QED
        BY <1>9, <2>9, <3>3, <3>5, <3>6
    <2> QED
      BY <2>0, <2>9
  <1>7. ASSUME NEW p \in Customers, NEW c \in Codes, Login(p, c) PROVE PagesArePaid'
    <2>1. /\ asked' = asked /\ panel' = panel /\ c \in timer[p]
          /\ online' = [online EXCEPT ![p] = c] /\ timer' = [timer EXCEPT ![p] = {}]
      BY <1>7 DEF Login
    <2>2. \A q \in Customers :
             /\ timer'[q] \subseteq timer[q]
             /\ online'[q] \in {online[q], NoCode} \cup timer[q]
      BY <1>0, <2>1 DEF PortalTypeOK
    <2> QED
      BY <1>2, <2>1, <2>2 DEF PagesArePaid
  <1>8. ASSUME NEW p \in Customers, NEW poll \in polls[p], PollTimeout(p, poll)
        PROVE  PagesArePaid'
    <2>1. UNCHANGED <<timer, online>> /\ ShowFailure(p)
      BY <1>8 DEF PollTimeout
    <2>2. \A q \in Customers : panel'[q] \subseteq panel[q] \cup {"failed", "status"}
      BY <1>0, <2>1 DEF PortalTypeOK, ShowFailure
    <2> QED
      BY <1>3, <2>1, <2>2
  <1>10. CASE UNCHANGED <<timer, online, panel>>
    BY <1>3, <1>10
  <1>11. ASSUME NEW w \in Workers, NEW p \in Customers, NEW t \in Txns, Recover(w, p, t)
         PROVE  PagesArePaid'
    <2>1. UNCHANGED <<timer, online>> /\ panel' = [panel EXCEPT ![p] = @ \ {"failed"}]
      BY <1>11 DEF Recover
    <2>2. \A q \in Customers : panel'[q] \subseteq panel[q] \cup {"failed", "status"}
      BY <1>0, <2>1 DEF PortalTypeOK
    <2> QED
      BY <1>3, <2>1, <2>2
  <1> QED
    BY <1>4, <1>5, <1>6, <1>7, <1>8, <1>10, <1>11 DEF PortalNext, Backend, Poll, Answer,
       LoseAnswer, page

LEMMA PortalInvariance == PortalSpec => [](IInv /\ PortalInv)
  <1>1. PortalInit => IInv /\ PortalInv
    BY InvInit, PortalInitInv DEF PortalInit
  <1>2. IInv /\ PortalInv /\ [PortalNext]_allVars => (IInv /\ PortalInv)'
    <2> SUFFICES ASSUME IInv, PortalInv, [PortalNext]_allVars PROVE (IInv /\ PortalInv)'
      OBVIOUS
    <2>1. IInv'
      BY PortalIsFulfillment, InvNext DEF PortalInv
    <2>2. CASE PortalNext
      BY <2>1, <2>2, PortalTypeNext, OwnCallsNext, AnswersStayTrue, PagesStayPaid DEF PortalInv
    <2>3. CASE UNCHANGED allVars
      BY <2>1, <2>3 DEF allVars, vars, db, page, PortalInv, PortalTypeOK, OwnCalls,
         OutOfDateAtWorst, PagesArePaid, PaidCode, PaidBy
    <2> QED
      BY <2>1, <2>2, <2>3
  <1> QED
    BY <1>1, <1>2, PTL DEF PortalSpec

(* Seen without its pages, the composition is the handlers: every theorem   *)
(* about Fulfillment is one about Portal.                                   *)
THEOREM PagesAddNothing == PortalSpec => Spec
  <1>1. PortalInit => Init
    BY DEF PortalInit
  <1>2. (IInv /\ PortalInv) /\ [PortalNext]_allVars => [Next]_vars
    BY PortalIsFulfillment DEF PortalInv
  <1> QED
    BY <1>1, <1>2, PortalInvariance, PTL DEF PortalSpec, Spec

(* With pages that poll, recover, time out and reload, and a network that   *)
(* loses and reorders answers, a payment is still settled once, only if it  *)
(* was paid, and granted one voucher.                                       *)
THEOREM PagesKeepThePromise == PortalSpec => PromiseKept
  BY PagesAddNothing, KeepsThePromise

(* Whatever phone is typed into a page, and whatever answers are late, lost *)
(* or out of order, it only ever logs in with the code of a completed, paid *)
(* payment that it was told to follow since it was loaded.                  *)
THEOREM PaidLogins == PortalSpec => []LoginsArePaid
  <1>1. IInv /\ PortalInv => LoginsArePaid
    <2> SUFFICES ASSUME IInv, PortalInv, NEW p \in Customers, NEW c \in CodesOf(p)
                 PROVE  \E t \in asked[p] : voucher[c] = t /\ Settled(t)
      BY DEF LoginsArePaid
    <2>1. PICK t \in asked[p] : voucher[c] = t /\ status[t] = "completed"
      BY DEF CodesOf, PortalInv, PagesArePaid, PaidCode
    <2>2. t \in Txns
      BY DEF PortalInv, PortalTypeOK
    <2>3. Settled(t)
      BY <2>1, <2>2 DEF Settled, IInv, DataInv, CompletedIsPaid
    <2> QED
      BY <2>1, <2>3
  <1> QED
    BY <1>1, PortalInvariance, PTL

(* ... and says that a payment was received only when one of these was.     *)
THEOREM PaidSuccess == PortalSpec => []SuccessIsPaid
  <1>1. IInv /\ PortalInv => SuccessIsPaid
    <2> SUFFICES ASSUME IInv, PortalInv, NEW p \in Customers, "success" \in panel[p]
                 PROVE  \E t \in asked[p] : Settled(t)
      BY DEF SuccessIsPaid
    <2>1. PICK t \in asked[p] : status[t] = "completed"
      BY DEF PortalInv, PagesArePaid, PaidBy
    <2>2. t \in Txns
      BY DEF PortalInv, PortalTypeOK
    <2> QED
      BY <2>1, <2>2 DEF Settled, IInv, DataInv, CompletedIsPaid
  <1> QED
    BY <1>1, PortalInvariance, PTL
=============================================================================
