------------------------------- MODULE Access -------------------------------
(***************************************************************************)
(* Getting online: the captive portal page that checks and resubmits a     *)
(* voucher code, the router that relays the login over RADIUS, and         *)
(* radius-service, which claims the voucher or looks up the PPPoE account. *)
(* A login is one UDP exchange: requests are retransmitted, so several     *)
(* handlers may work on one login, and answers get lost.  The clock's unit *)
(* is coarse against a login but fine against a plan.                      *)
(*                                                                         *)
(* Sources: radius-service/src/{radius-auth,db}.js, portal-api's           *)
(* check-voucher, apps/captive-portal/src/main.js, voucher-generate.       *)
(***************************************************************************)
EXTENDS Naturals

CONSTANTS
    Codes,          \* voucher codes
    Users,          \* PPPoE usernames
    Phones,         \* hotspot devices, each named by its MAC
    Dialers,        \* PPPoE clients
    Handlers,       \* slots for concurrent Access-Requests
    NoName, NoMac, Unlimited,
    Duration,       \* Duration[n]: the paid time of the plan behind n
    DefaultRenewal, \* the paid time of a PPPoE plan without one
    Shelf,          \* how long an unused voucher may be redeemed
    MacMayBeMissing,\* TRUE: some requests carry no Calling-Station-Id
    RadiusTimeout,  \* the router gives a login up after this long
    MaxTime,        \* bound on the clock
    MaxFaults       \* bound on database errors

Names == Codes \cup Users
Devices == Phones \cup Dialers
Times == Nat \cup {Unlimited}

ASSUME AccessAssumption ==
    /\ Codes \cap Users = {} /\ Phones \cap Dialers = {}
    /\ NoName \notin Names /\ NoMac \notin Devices /\ Unlimited \notin Nat
    /\ Duration \in [Names -> Times] /\ Shelf \in Times /\ DefaultRenewal \in Nat
    /\ MacMayBeMissing \in BOOLEAN
    /\ RadiusTimeout \in Nat \ {0} /\ MaxTime \in Nat
    /\ MaxFaults \in Nat

VARIABLES
    now,
    voucher,    \* voucher[c]: the row of code c
    expires,    \* expires[u]: pppoe_accounts.expires_at of PPPoE user u
    router,     \* router[d]: the login of d that the router is waiting for
    session,    \* session[d]: what d is online with, and until when
    handler,    \* radius-service's requests in progress
    stored,     \* localStorage's echo_last_voucher_code
    page,       \* the captive portal page of a phone
    faults

rows == <<voucher, expires>>
browser == <<stored, page>>
vars == <<now, rows, router, session, handler, browser, faults>>

VoucherRows == [status : {"none", "unused", "used"}, redeemed : Nat,
                mac : Devices \cup {NoMac}, expires : Times]
Logins == [name : Names \cup {NoName}, since : Nat, mac : Devices \cup {NoMac},
           good : BOOLEAN]
Sessions == [name : Names \cup {NoName}, until : Times]
Requests == [pc : {"idle", "claim", "account", "plan", "accept", "reject", "late"},
             dev : Devices \cup {NoMac}, name : Names \cup {NoName}, mac : Devices \cup {NoMac},
             good : BOOLEAN]

NoVoucher == [status |-> "none", redeemed |-> 0, mac |-> NoMac, expires |-> Unlimited]
NoLogin == [name |-> NoName, since |-> 0, mac |-> NoMac, good |-> TRUE]
Offline == [name |-> NoName, until |-> Unlimited]
Idle == [pc |-> "idle", dev |-> NoMac, name |-> NoName, mac |-> NoMac, good |-> TRUE]

(* create_pppoe_account leaves expires_at null: the account never expires   *)
(* until a first payment sets it.  Every row the code writes is "active".   *)
Init ==
    /\ now = 0
    /\ voucher = [c \in Codes |-> NoVoucher]
    /\ expires = [u \in Users |-> Unlimited]
    /\ router = [d \in Devices |-> NoLogin]
    /\ session = [d \in Devices |-> Offline]
    /\ handler = [h \in Handlers |-> Idle]
    /\ stored = [d \in Phones |-> NoName]
    /\ page = [d \in Phones |-> "away"]
    /\ faults = 0

Later(m, n) == IF m > n THEN m ELSE n
IsOffline(d) == session[d].name = NoName /\ router[d].name = NoName

-----------------------------------------------------------------------------
(* The rows. *)

(* A batch from voucher-generate may have no expiry; a sold one has.        *)
Insert(c) ==
    /\ voucher[c].status = "none"
    /\ \E e \in {Unlimited, IF Shelf = Unlimited THEN Unlimited ELSE now + Shelf} :
          voucher' = [voucher EXCEPT ![c] = [NoVoucher EXCEPT !.status = "unused",
                                                              !.expires = e]]
    /\ UNCHANGED <<now, expires, router, session, handler, browser, faults>>

(* A paid renewal (Fulfillment, ReadAccount and WriteAccount as one step),  *)
(* while the expiry is within the clock's bound.                            *)
Renew(u) == LET e == expires[u] IN
    /\ e # Unlimited => e < MaxTime
    /\ expires' = [expires EXCEPT ![u] =
          (IF e = Unlimited THEN now ELSE Later(now, e))
            + IF Duration[u] = Unlimited THEN DefaultRenewal ELSE Duration[u]]
    /\ UNCHANGED <<now, voucher, router, session, handler, browser, faults>>

(* duration_minutes: null and, read as a JavaScript condition, 0 mean no    *)
(* limit; to Postgres 0 is an interval like any other.                      *)
NotOver(c) == Duration[c] # Unlimited => voucher[c].redeemed + Duration[c] > now
NoTimeLimit(n) == Duration[n] \in {0, Unlimited}

(* A slip, for mutation: the reconnect without its MAC comparison.          *)
ClaimableByAnyone(c, mac) == LET v == voucher[c] IN
    \/ v.status = "unused" /\ (v.expires # Unlimited => v.expires > now)
    \/ v.status = "used" /\ NotOver(c)

(* A slip, for mutation: the reconnect without its paid window.             *)
ClaimableForever(c, mac) == LET v == voucher[c] IN
    \/ v.status = "unused" /\ (v.expires # Unlimited => v.expires > now)
    \/ v.status = "used" /\ (v.mac = NoMac \/ mac = NoMac \/ v.mac = mac)

(* The WHERE clause of claimVoucher. *)
Claimable(c, mac) == LET v == voucher[c] IN
    \/ v.status = "unused" /\ (v.expires # Unlimited => v.expires > now)
    \/ /\ v.status = "used"
       /\ v.mac = NoMac \/ mac = NoMac \/ v.mac = mac
       /\ NotOver(c)

(* A slip of check-voucher, for mutation: the earlier rule, "used means     *)
(* gone forever".                                                           *)
ValidOnce(c) == LET v == voucher[c] IN
    v.status = "unused" /\ (v.expires # Unlimited => v.expires >= now)

(* What /check-voucher calls valid; it is not told the MAC. *)
Valid(c) == LET v == voucher[c] IN
    \/ v.status = "unused" /\ (v.expires # Unlimited => v.expires >= now)
    \/ v.status = "used" /\ (~NoTimeLimit(c) => v.redeemed + Duration[c] > now)

-----------------------------------------------------------------------------
(* The page and the router. *)

(* The router relays what the login form or the dialer sent. *)
Relay(d, n, good) ==
    \E m \in IF MacMayBeMissing THEN {d, NoMac} ELSE {d} :
        router' = [router EXCEPT ![d] =
            [name |-> n, since |-> now, mac |-> m, good |-> good]]

(* The customer opens the portal. *)
Load(d) ==
    /\ IsOffline(d) /\ page[d] \in {"away", "shown"}
    /\ page' = [page EXCEPT ![d] = "loaded"]
    /\ UNCHANGED <<now, rows, router, session, handler, stored, faults>>

(* tryAutoReconnect, on every page load. *)
AutoReconnect(d) ==
    /\ page[d] = "loaded"
    /\ \/ /\ stored[d] # NoName /\ Valid(stored[d])
          /\ Relay(d, stored[d], TRUE)
          /\ page' = [page EXCEPT ![d] = "away"]
          /\ UNCHANGED stored
       \/ /\ stored[d] # NoName /\ ~Valid(stored[d])
          /\ stored' = [stored EXCEPT ![d] = NoName]
          /\ page' = [page EXCEPT ![d] = "shown"]
          /\ UNCHANGED router
       \/ /\ stored[d] = NoName
          /\ page' = [page EXCEPT ![d] = "shown"]
          /\ UNCHANGED <<stored, router>>
    /\ UNCHANGED <<now, rows, session, handler, faults>>

(* check-voucher cannot be reached or answers an error: the code is kept.   *)
CheckFails(d) ==
    /\ page[d] = "loaded" /\ stored[d] # NoName
    /\ faults < MaxFaults /\ faults' = faults + 1
    /\ page' = [page EXCEPT ![d] = "shown"]
    /\ UNCHANGED <<now, rows, router, session, handler, stored>>

(* connectWithCode stores the code before the login is tried.               *)
ConnectWithCode(d, c) ==
    /\ page[d] \in {"loaded", "shown"} /\ IsOffline(d)
    /\ stored' = [stored EXCEPT ![d] = c]
    /\ page' = [page EXCEPT ![d] = "away"]
    /\ Relay(d, c, TRUE)
    /\ UNCHANGED <<now, rows, session, handler, faults>>

(* The voucher form asks check-voucher first. *)
Enter(d, c) == Valid(c) /\ ConnectWithCode(d, c)

(* showSuccess does not: the code is one just bought or, from the recovery  *)
(* form, one bought a while ago.                                            *)
ShowSuccess(d, c) == voucher[c].status # "none" /\ ConnectWithCode(d, c)

(* A PPPoE client dials; a wrong password, or CHAP, cannot match bcrypt.    *)
Dial(d, u) ==
    /\ IsOffline(d)
    /\ \E good \in BOOLEAN : Relay(d, u, good)
    /\ UNCHANGED <<now, rows, session, handler, browser, faults>>

(* The router stops waiting for d: late answers will find no request, and   *)
(* of the handlers only those that have yet to claim can still do anything. *)
Late(r) == IF r.pc = "claim" THEN [r EXCEPT !.pc = "late", !.dev = NoMac] ELSE Idle
Settled(d) ==
    /\ router' = [router EXCEPT ![d] = NoLogin]
    /\ handler' = [h \in Handlers |->
                      IF handler[h].dev = d THEN Late(handler[h]) ELSE handler[h]]

(* A failed hotspot login bounces the browser back to the portal page.      *)
Bounce(d) ==
    /\ page' = IF d \in Phones THEN [page EXCEPT ![d] = "loaded"] ELSE page
    /\ UNCHANGED stored

GiveUp(d) ==
    /\ router[d].name # NoName /\ now > router[d].since
    /\ Settled(d)
    /\ Bounce(d)
    /\ UNCHANGED <<now, rows, session, faults>>

(* Idle timeout, reboot, out of range. *)
Drop(d) ==
    /\ session[d].name # NoName
    /\ session' = [session EXCEPT ![d] = Offline]
    /\ UNCHANGED <<now, rows, router, handler, browser, faults>>

-----------------------------------------------------------------------------
(* radius-service: the message handler and authenticate. *)

Become(h, r) == handler' = [handler EXCEPT ![h] = r]
Goto(h, label) == Become(h, [handler[h] EXCEPT !.pc = label])

(* A request, or a retransmission of it, arrives.  Only a voucher login has *)
(* its username for a password.                                             *)
Receive(h, d) == LET r == router[d] IN
    /\ handler[h].pc = "idle" /\ r.name # NoName
    /\ Become(h, [pc |-> IF r.name \in Codes THEN "claim" ELSE "account",
                  dev |-> d, name |-> r.name, mac |-> r.mac, good |-> r.good])
    /\ UNCHANGED <<now, rows, router, session, browser, faults>>

(* A slip of Claimed, for mutation: the claim starts the paid time anew.     *)
ClaimedAnew(v, mac) == [v EXCEPT !.status = "used", !.redeemed = now, !.mac = mac]

(* What the claim leaves in the row. *)
Claimed(v, mac) ==
    [v EXCEPT !.status = "used",
              !.redeemed = IF v.status = "used" THEN @ ELSE now,
              !.mac = IF @ = NoMac THEN mac ELSE @]

(* claimVoucher, one atomic UPDATE.  A code that is not claimable is no     *)
(* PPPoE username either.                                                   *)
Claim(h) == LET r == handler[h] IN
    /\ r.pc = "claim"
    /\ IF Claimable(r.name, r.mac)
         THEN /\ voucher' = [voucher EXCEPT ![r.name] = Claimed(@, r.mac)]
              /\ Goto(h, "plan")
         ELSE UNCHANGED voucher /\ Goto(h, "reject")
    /\ UNCHANGED <<now, expires, router, session, browser, faults>>

(* The same for a login that the router has given up or settled meanwhile.   *)
(* A claim that throws leaves what no request at all would have left.        *)
ClaimLate(h) == LET r == handler[h] IN
    /\ r.pc = "late" /\ Become(h, Idle)
    /\ voucher' = IF Claimable(r.name, r.mac)
                    THEN [voucher EXCEPT ![r.name] = Claimed(@, r.mac)] ELSE voucher
    /\ UNCHANGED <<now, expires, router, session, browser, faults>>

(* A slip, for mutation: the account's expiry is not looked at.             *)
ReadAccountOnly(h) == LET r == handler[h] IN
    /\ r.pc = "account"
    /\ IF r.good THEN Goto(h, "plan") ELSE Goto(h, "reject")
    /\ UNCHANGED <<now, rows, router, session, browser, faults>>

(* findPppoeAccount and the checks on the row it returned. *)
ReadAccount(h) == LET r == handler[h] IN
    /\ r.pc = "account"
    /\ IF r.good /\ (expires[r.name] # Unlimited => expires[r.name] >= now)
         THEN Goto(h, "plan") ELSE Goto(h, "reject")
    /\ UNCHANGED <<now, rows, router, session, browser, faults>>

FindPlan(h) ==
    /\ handler[h].pc = "plan"
    /\ Goto(h, "accept")
    /\ UNCHANGED <<now, rows, router, session, browser, faults>>

(* A query throws: the login is rejected.  The claim's UPDATE may have been *)
(* committed all the same.                                                  *)
QueryThrows(h) == LET r == handler[h] IN
    /\ r.pc \in {"claim", "account", "plan"}
    /\ faults < MaxFaults /\ faults' = faults + 1
    /\ Goto(h, "reject")
    /\ \/ UNCHANGED voucher
       \/ /\ r.pc = "claim" /\ Claimable(r.name, r.mac)
          /\ voucher' = [voucher EXCEPT ![r.name] = Claimed(@, r.mac)]
    /\ UNCHANGED <<now, expires, router, session, browser>>

(* Access-Accept: Session-Timeout is the plan's whole duration, also on a   *)
(* reconnect.                                                               *)
Accept(h) == LET r == handler[h] IN
    /\ r.pc = "accept"
    /\ session' = [session EXCEPT ![r.dev] =
          [name |-> r.name,
           until |-> IF NoTimeLimit(r.name) THEN Unlimited ELSE now + Duration[r.name]]]
    /\ Settled(r.dev)
    /\ UNCHANGED <<now, rows, browser, faults>>

Reject(h) == LET r == handler[h] IN
    /\ r.pc = "reject"
    /\ Settled(r.dev)
    /\ Bounce(r.dev)
    /\ UNCHANGED <<now, rows, session, faults>>

(* UDP loses the answer; the router will ask again. *)
LoseAnswer(h) ==
    /\ handler[h].pc \in {"accept", "reject"}
    /\ Become(h, Idle)
    /\ UNCHANGED <<now, rows, router, session, browser, faults>>

-----------------------------------------------------------------------------
(* Time passes; sessions whose timeout is reached end with it, and no login *)
(* waits longer than the router does.                                       *)
Tick ==
    /\ now < MaxTime
    /\ \A d \in Devices :
          router[d].name # NoName => now < router[d].since + RadiusTimeout
    /\ now' = now + 1
    /\ session' = [d \in Devices |->
                     IF session[d].until = now' THEN Offline ELSE session[d]]
    /\ UNCHANGED <<rows, router, handler, browser, faults>>

Page(d) == Load(d) \/ AutoReconnect(d) \/ CheckFails(d)
Auth(h) == Claim(h) \/ ClaimLate(h) \/ ReadAccount(h) \/ FindPlan(h) \/ QueryThrows(h)
             \/ Accept(h) \/ Reject(h) \/ LoseAnswer(h)

Next ==
    \/ \E c \in Codes : Insert(c)
    \/ \E u \in Users : Renew(u)
    \/ \E d \in Phones : Page(d) \/ \E c \in Codes : Enter(d, c) \/ ShowSuccess(d, c)
    \/ \E d \in Dialers, u \in Users : Dial(d, u)
    \/ \E d \in Devices : GiveUp(d) \/ Drop(d) \/ \E h \in Handlers : Receive(h, d)
    \/ \E h \in Handlers : Auth(h)
    \/ Tick

Spec == Init /\ [][Next]_vars

-----------------------------------------------------------------------------
(* Properties *)

AccessTypeOK ==
    /\ now \in Nat
    /\ voucher \in [Codes -> VoucherRows]
    /\ expires \in [Users -> Times]
    /\ router \in [Devices -> Logins]
    /\ session \in [Devices -> Sessions]
    /\ handler \in [Handlers -> Requests]
    /\ stored \in [Phones -> Codes \cup {NoName}]
    /\ page \in [Phones -> {"away", "loaded", "shown"}]
    /\ faults \in Nat

(* A code opens the network to one device: whenever the router sends MACs,  *)
(* everyone online with a voucher is the device bound to it, however        *)
(* requests are retransmitted or raced by a second device with the same     *)
(* code (db.js:18-31).                                                      *)
OneDevicePerVoucher ==
    ~MacMayBeMissing =>
        \A d \in Phones : session[d].name \in Codes => voucher[session[d].name].mac = d

(* What a code can take at most: a reconnect in the last moment of the paid *)
(* time is granted the plan's whole duration again (radius-auth.js:120-122) *)
(* but never a second time beyond that.                                     *)
PaidTimeAtMostTwice ==
    \A d \in Phones : LET s == session[d] IN
        s.name \in Codes /\ ~NoTimeLimit(s.name) =>
            s.until < voucher[s.name].redeemed + 2 * Duration[s.name] + RadiusTimeout

(* A PPPoE session ends at most one plan after the account's expiry.        *)
PppoeEndsSoon ==
    \A d \in Dialers : LET s == session[d] IN
        s.name \in Users /\ ~NoTimeLimit(s.name) /\ expires[s.name] # Unlimited =>
            s.until <= expires[s.name] + Duration[s.name] + RadiusTimeout

(* check-voucher never turns away a login that radius-service would grant:  *)
(* the portal's rule and the claim's WHERE clause are kept in two places    *)
(* (portal-api/index.ts:222-235, db.js:57-62).                              *)
NeverTurnedAway ==
    \A c \in Codes, m \in Devices \cup {NoMac} : Claimable(c, m) => Valid(c)

(* The abstract specification this module implements: the page, the login   *)
(* requests and the handlers are not visible at that level.                 *)
OnCodes == [d \in Devices |-> IF session[d].name \in Codes THEN session[d] ELSE Offline]
Promise == INSTANCE Lease WITH lease <- voucher, online <- OnCodes

(* However logins are retransmitted, raced, lost or resubmitted by the      *)
(* page, a code is a lease of one device: its window is fixed by its first  *)
(* redemption (claimVoucher's coalesce), it stays with its first device,    *)
(* and it lets nobody in once it is over for longer than the router waits.  *)
LeaseKept == Promise!Spec
=============================================================================
