------------------------------- MODULE Portal -------------------------------
(***************************************************************************)
(* The captive portal's page, composed with Fulfillment: the page polls    *)
(* /status every few seconds without waiting for the previous answer,      *)
(* offers the recovery form over /resume, and logs in to the router with   *)
(* the code it was given.  Answers travel back over the customer's         *)
(* network: late, out of order, or not at all.                             *)
(*                                                                         *)
(* A page is named after the phone that its customer buys with.  The form  *)
(* takes any phone, and /resume answers whoever asks.                      *)
(*                                                                         *)
(* Sources: apps/captive-portal/src/main.js, portal-api's answers.         *)
(***************************************************************************)
EXTENDS Fulfillment

CONSTANTS
    Intervals, NoInterval,  \* ids of a page's intervals, a bound on those in use
    MaxAnswers,             \* bound on the answers under way
    ResponsesMayBeLost

ASSUME PortalAssumption ==
    /\ NoInterval \notin Intervals /\ Intervals # {}
    /\ MaxAnswers \in Nat /\ ResponsesMayBeLost \in BOOLEAN

VARIABLES
    polls,      \* polls[p]: the intervals of p's page, each with its transaction
    panel,      \* panel[p]: what the buy panel shows, one thing or several
    timer,      \* timer[p]: codes that were shown and whose login is scheduled
    online,     \* online[p]: the code p's browser logged in with
    asked,      \* history variable: the payments that the page, since it was
                \* loaded, was told to follow: the one it returned from, the
                \* latest of every phone typed
    asker,      \* asker[w]: the page, and its interval, that wait for invocation w
    net         \* answers on their way to a page

page == <<polls, panel, timer, online, asked>>
allVars == <<vars, page, asker, net>>

NoOne == [page |-> NoCustomer, by |-> NoInterval]

PortalInit ==
    /\ Init
    /\ polls = [p \in Customers |-> {}]
    /\ panel = [p \in Customers |-> {"plans"}]
    /\ timer = [p \in Customers |-> {}]
    /\ online = [p \in Customers |-> NoCode]
    /\ asked = [p \in Customers |-> {}]
    /\ asker = [w \in Workers |-> NoOne]
    /\ net = {}

(* A page that was left or reloaded hears none of the answers it asked for. *)
Deaf(p) ==
    /\ net' = {m \in net : m.to # p}
    /\ asker' = [w \in Workers |-> IF asker[w].page = p THEN NoOne ELSE asker[w]]

(* The page is the hotspot's; a successful login navigates away from it.    *)
Offline(p) == online[p] = NoCode

-----------------------------------------------------------------------------
(* Interval ids that no interval of the page, no request and no answer has. *)
Unused(p) ==
    {i \in Intervals : /\ \A poll \in polls[p] : poll.id # i
                       /\ \A w \in Workers : asker[w] # [page |-> p, by |-> i]
                       /\ \A m \in net : m.to = p => m.by # i}
Interval(p, t) == [id |-> CHOOSE i \in Unused(p) : TRUE, txn |-> t]

(* Slips, for mutation: a page that is kept over the payment and hears what *)
(* it asked for before.                                                     *)
ReturnListening(t) == LET p == Buyer[t] IN
    /\ buy[t] = "answered" /\ Offline(p)
    /\ Unused(p) # {} /\ polls' = [polls EXCEPT ![p] = {Interval(p, t)}]
    /\ panel' = [panel EXCEPT ![p] = {"status"}]
    /\ timer' = [timer EXCEPT ![p] = {}]
    /\ asked' = [asked EXCEPT ![p] = {t}]
    /\ UNCHANGED <<vars, online, asker, net>>

(* Pesapal's callback loads login.html?transactionId=...: the page starts   *)
(* over with one poller.  Answers to the page before it are lost with it.   *)
ReturnFromPesapal(t) == LET p == Buyer[t] IN
    /\ buy[t] = "answered" /\ Offline(p)
    /\ polls' = [polls EXCEPT ![p] = {[id |-> CHOOSE i \in Intervals : TRUE, txn |-> t]}]
    /\ panel' = [panel EXCEPT ![p] = {"status"}]
    /\ timer' = [timer EXCEPT ![p] = {}]
    /\ asked' = [asked EXCEPT ![p] = {t}]
    /\ Deaf(p)
    /\ UNCHANGED <<vars, online>>

(* One tick of pollTransaction's interval; the last answer need not be in.  *)
Poll(w, p, poll) ==
    /\ poll \in polls[p]
    /\ StatusStart(w, poll.txn)
    /\ asker' = [asker EXCEPT ![w] = [page |-> p, by |-> poll.id]]
    /\ UNCHANGED <<page, net>>

(* showFailure; what else is shown, a code for one, stays.                  *)
ShowFailure(p) == panel' = [panel EXCEPT ![p] = (@ \ {"status"}) \cup {"failed"}]

(* The interval finds POLL_TIMEOUT_MS over.                                 *)
PollTimeout(p, poll) ==
    /\ poll \in polls[p]
    /\ polls' = [polls EXCEPT ![p] = @ \ {poll}]
    /\ ShowFailure(p)
    /\ UNCHANGED <<vars, timer, online, asked, asker, net>>

(* The recovery form, whose opening hides a failure: whatever phone is      *)
(* typed, its latest payment is looked up.                                  *)
Recover(w, p, t) ==
    /\ Offline(p)
    /\ ResumeStart(w, t)
    /\ asker' = [asker EXCEPT ![w] = [page |-> p, by |-> NoInterval]]
    /\ asked' = [asked EXCEPT ![p] = @ \cup {t}]
    /\ panel' = [panel EXCEPT ![p] = @ \ {"failed"}]
    /\ UNCHANGED <<polls, timer, online, net>>

(* portal-api answers from its fresh read of the row.                       *)
Answer(w) == LET t == call[w].txn IN
    /\ Respond(w) /\ Cardinality(net) < MaxAnswers
    /\ net' = IF asker[w] = NoOne THEN net
                ELSE net \cup {[to |-> asker[w].page, by |-> asker[w].by, from |-> w,
                                txn |-> t, status |-> status[t], code |-> voucherId[t]]}
    /\ asker' = [asker EXCEPT ![w] = NoOne]
    /\ UNCHANGED page

(* showSuccess: show the code, and log in with it shortly after.            *)
ShowSuccess(p, m) ==
    /\ panel' = [panel EXCEPT ![p] = (@ \ {"status"}) \cup {"success"}]
    /\ timer' = [timer EXCEPT ![p] = IF m.code = NoCode THEN @ ELSE @ \cup {m.code}]

(* clearInterval, of the interval that asked: it may be cleared already.    *)
Cleared(m) == [polls EXCEPT ![m.to] = {poll \in @ : poll.id # m.by}]

(* Slips, for mutation: anything but "failed" shows success, the recovered  *)
(* code is shown only.                                                      *)
ReceiveStatusOptimistic(m) == LET p == m.to IN
    /\ m \in net /\ Entry[m.from] = "status" /\ Offline(p)
    /\ m.status # "failed"
    /\ polls' = Cleared(m)
    /\ ShowSuccess(p, m)
    /\ net' = net \ {m}
    /\ UNCHANGED <<vars, online, asked, asker>>
ReceiveResumeNoLogin(m) == LET p == m.to IN
    /\ m \in net /\ Entry[m.from] = "resume" /\ Offline(p)
    /\ m.status = "completed"
    /\ panel' = [panel EXCEPT ![p] = (@ \ {"status"}) \cup {"success"}]
    /\ net' = net \ {m}
    /\ UNCHANGED <<vars, polls, timer, online, asked, asker>>

(* The answer to a poll; polls overlap, so it may be the second that says   *)
(* "completed".                                                             *)
ReceiveStatus(m) == LET p == m.to IN
    /\ m \in net /\ Entry[m.from] = "status" /\ Offline(p)
    /\ \/ /\ m.status = "completed"
          /\ polls' = Cleared(m)
          /\ ShowSuccess(p, m)
       \/ /\ m.status = "failed"
          /\ polls' = Cleared(m)
          /\ ShowFailure(p)
          /\ UNCHANGED timer
       \/ /\ m.status \notin {"completed", "failed"}
          /\ UNCHANGED <<polls, panel, timer>>
    /\ net' = net \ {m}
    /\ UNCHANGED <<vars, online, asked, asker>>

(* The answer to the recovery form: still pending, it starts a poller.      *)
ReceiveResume(m) == LET p == m.to IN
    /\ m \in net /\ Entry[m.from] = "resume" /\ Offline(p)
    /\ \/ m.status = "completed" /\ ShowSuccess(p, m) /\ UNCHANGED polls
       \/ m.status = "failed" /\ UNCHANGED <<polls, panel, timer>>
       \/ /\ m.status \notin {"completed", "failed"}
          /\ Unused(p) # {} /\ polls' = [polls EXCEPT ![p] = @ \cup {Interval(p, m.txn)}]
          /\ panel' = [panel EXCEPT ![p] = @ \cup {"status"}]
          /\ UNCHANGED timer
    /\ net' = net \ {m}
    /\ UNCHANGED <<vars, online, asked, asker>>

(* A lost answer: the poll's catch, or the recovery form's, shows nothing.  *)
LoseAnswer(m) ==
    /\ ResponsesMayBeLost
    /\ m \in net
    /\ net' = net \ {m}
    /\ UNCHANGED <<vars, page, asker>>

(* connectWithCode submits the router's login form: the page is left, its   *)
(* intervals, timers and open requests with it.                             *)
Login(p, c) ==
    /\ Offline(p) /\ c \in timer[p]
    /\ online' = [online EXCEPT ![p] = c]
    /\ polls' = [polls EXCEPT ![p] = {}]
    /\ timer' = [timer EXCEPT ![p] = {}]
    /\ Deaf(p)
    /\ UNCHANGED <<vars, panel, asked>>

-----------------------------------------------------------------------------
(* Every step of Fulfillment but the ones the page starts or listens to.    *)
Backend ==
    /\ \/ \E t \in Txns : Purchase(t) \/ Pesapal(t)
       \/ \E w \in Workers :
             \/ SweepStart(w) \/ Crash(w) \/ (~At(w, "respond") /\ Run(w))
             \/ \E t \in Txns : IpnStart(w, t) \/ ReturnStart(w, t)
       \/ Background
       \/ Tick
    /\ UNCHANGED <<page, asker, net>>

PortalNext ==
    \/ Backend
    \/ \E t \in Txns : ReturnFromPesapal(t)
    \/ \E p \in Customers : \E poll \in polls[p] : PollTimeout(p, poll)
    \/ \E w \in Workers :
          \/ Answer(w)
          \/ \E p \in Customers :
                \/ \E poll \in polls[p] : Poll(w, p, poll)
                \/ \E t \in Txns : Recover(w, p, t)
    \/ \E m \in net : ReceiveStatus(m) \/ ReceiveResume(m) \/ LoseAnswer(m)
    \/ \E p \in Customers, c \in Codes : Login(p, c)

PortalSpec == PortalInit /\ [][PortalNext]_allVars

Receive(m) == ReceiveStatus(m) \/ ReceiveResume(m)

(* Started invocations run to their end.                                    *)
InvocationsEnd ==
    \A w \in Workers :
        WF_allVars(Answer(w) \/ (~At(w, "respond") /\ Run(w) /\ UNCHANGED <<page, asker, net>>))

(* A customer who keeps trying the recovery form with their own phone, over *)
(* a network that now and then lets an answer through, and who does not     *)
(* reload the page before every answer or scheduled login.                  *)
Persistent(p) ==
    /\ SF_allVars(\E w \in Workers, t \in Txns : Buyer[t] = p /\ Recover(w, p, t))
    /\ SF_allVars(\E w \in Workers : asker[w] = [page |-> p, by |-> NoInterval] /\ Answer(w))
    /\ SF_allVars(\E m \in net : m.to = p /\ Receive(m))
    /\ SF_allVars(\E c \in Codes : Login(p, c))

-----------------------------------------------------------------------------
(* Properties *)

(* A page has a login scheduled with, or logged in with, only codes that    *)
(* were issued for a completed and paid payment among those it was told to  *)
(* follow since it was loaded, whichever answers were delayed, lost or      *)
(* reordered, meant for an earlier interval or for the page before          *)
(* (main.js:26-35, 143-154, 183-208, 264-284).                              *)
CodesOf(p) == timer[p] \cup ({online[p]} \ {NoCode})
Settled(t) == status[t] = "completed" /\ ext[t] = "Completed"
LoginsArePaid ==
    \A p \in Customers : \A c \in CodesOf(p) :
        \E t \in asked[p] : voucher[c] = t /\ Settled(t)

(* A page that says "Payment received" was told to follow a payment that is *)
(* completed, and paid, also where it shows a dash for the code             *)
(* (main.js:186-208).                                                       *)
SuccessIsPaid ==
    \A p \in Customers : "success" \in panel[p] => \E t \in asked[p] : Settled(t)

(* A customer whose payment has its voucher, and who keeps trying the       *)
(* recovery form, gets online, unless they start another purchase, which    *)
(* the form would then look at instead (main.js:237-288, /resume).          *)
RecoveryConnects ==
    \A t \in Txns : voucherId[t] # NoCode ~>
        \/ ~Offline(Buyer[t])
        \/ \E u \in Txns \ {t} : Buyer[u] = Buyer[t] /\ buy[u] # "none"
=============================================================================
