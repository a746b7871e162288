---------------------------- MODULE AccessProofs ----------------------------
(* Theorems about Access, for every value of its constants. *)
EXTENDS Access, TLAPS

(* A login that waits at the router: when it was sent, and by whom.         *)
Waits(d) ==
    router[d].name # NoName =>
        /\ router[d].since <= now /\ now <= router[d].since + RadiusTimeout
        /\ ~MacMayBeMissing => router[d].mac = d

(* The row a login was granted on: it was good when the login was sent.     *)
GrantedVoucher(c, d) ==
    /\ voucher[c].status = "used"
    /\ ~MacMayBeMissing => voucher[c].mac = d
    /\ ~NoTimeLimit(c) => router[d].since < voucher[c].redeemed + Duration[c]

GrantedAccount(u, d) == expires[u] # Unlimited => router[d].since <= expires[u]

(* A handler works on a login that still waits, and once past its check has *)
(* a row to show for it; a late one still knows what it was to claim.        *)
Waited(r) == r.pc \notin {"idle", "late"}

Backed(h) ==
    LET r == handler[h] IN
    /\ r.pc = "late" => r.name \in Codes /\ (r.mac = NoMac => MacMayBeMissing)
    /\ Waited(r) =>
        /\ r.dev \in Devices /\ r.name \in Names
        /\ router[r.dev].name = r.name /\ router[r.dev].mac = r.mac
        /\ r.pc = "claim" => r.name \in Codes
        /\ r.pc = "account" => r.name \in Users
        /\ r.pc \in {"plan", "accept"} =>
              /\ r.name \in Codes => GrantedVoucher(r.name, r.dev)
              /\ r.name \in Users => GrantedAccount(r.name, r.dev)

(* What a session was opened with.                                          *)
Lasts(d) ==
    LET s == session[d] IN
    /\ s.name \in Codes =>
          /\ voucher[s.name].status = "used"
          /\ ~MacMayBeMissing => voucher[s.name].mac = d
          /\ ~NoTimeLimit(s.name) =>
                /\ s.until \in Nat
                /\ s.until < voucher[s.name].redeemed + 2 * Duration[s.name] + RadiusTimeout
    /\ s.name \in Users /\ ~NoTimeLimit(s.name) =>
          /\ s.until \in Nat /\ s.until <= now + Duration[s.name]
          /\ expires[s.name] # Unlimited =>
                s.until <= expires[s.name] + Duration[s.name] + RadiusTimeout

AccessInv ==
    /\ AccessTypeOK
    /\ \A c \in Codes : voucher[c].status # "used" => voucher[c].mac = NoMac
    /\ \A d \in Phones : page[d] # "away" => router[d].name = NoName
    /\ \A d \in Devices : Waits(d)
    /\ \A h \in Handlers : Backed(h)
    /\ \A d \in Devices : Lasts(d)

LEMMA RecordTypes ==
  /\ NoVoucher \in VoucherRows /\ NoLogin \in Logins /\ Offline \in Sessions
  /\ Idle \in Requests /\ Idle.pc = "idle"
  /\ NoLogin.name = NoName /\ Offline.name = NoName
  /\ NoVoucher.mac = NoMac /\ NoVoucher.status = "none"
  BY DEF NoVoucher, NoLogin, Offline, Idle, VoucherRows, Logins, Sessions, Requests, Times

LEMMA Durations ==
  ASSUME NEW n \in Names, ~NoTimeLimit(n)
  PROVE  Duration[n] \in Nat \ {0} /\ Duration[n] # Unlimited
  BY AccessAssumption DEF AccessAssumption, NoTimeLimit, Times

LEMMA AccessInit == Init => AccessInv
  <1> SUFFICES ASSUME Init PROVE AccessInv
    OBVIOUS
  <1>1. AccessTypeOK
    BY RecordTypes DEF Init, AccessTypeOK, Times
  <1>2. /\ \A h \in Handlers : handler[h].pc = "idle"
        /\ \A d \in Devices : router[d].name = NoName /\ session[d].name = NoName
        /\ \A c \in Codes : voucher[c].mac = NoMac
    BY RecordTypes DEF Init
  <1>3. NoName \notin Codes /\ NoName \notin Users
    BY AccessAssumption DEF AccessAssumption, Names
  <1> QED
    BY <1>1, <1>2, <1>3 DEF AccessInv, Waits, Backed, Waited, Lasts, Devices

-----------------------------------------------------------------------------
(* The rows. *)

(* A row only moves on: what was granted on it stays granted.               *)
LEMMA RowMoves ==
  ASSUME NEW c \in Codes, NEW v \in VoucherRows, NEW mac \in Devices \cup {NoMac}
  PROVE  LET w == Claimed(v, mac) IN
         /\ w.status = "used" /\ w.expires = v.expires
         /\ v.status = "used" => w.redeemed = v.redeemed
         /\ v.mac # NoMac => w.mac = v.mac
         /\ v.mac = NoMac => w.mac = mac
         /\ v.status # "used" => w.redeemed = now
  BY DEF Claimed, VoucherRows

LEMMA ClaimedType ==
  ASSUME AccessTypeOK, NEW v \in VoucherRows, NEW mac \in Devices \cup {NoMac}
  PROVE  Claimed(v, mac) \in VoucherRows
  BY DEF Claimed, VoucherRows, AccessTypeOK

(* A step that leaves the paid window and the device of a redeemed code.     *)
RedemptionStep ==
    \A c \in Codes : voucher[c].status = "used" =>
        /\ voucher'[c].status = "used"
        /\ voucher'[c].redeemed = voucher[c].redeemed
        /\ voucher[c].mac # NoMac => voucher'[c].mac = voucher[c].mac

LEMMA RedemptionNext == AccessTypeOK /\ [Next]_vars /\ (\A h \in Handlers : Backed(h))
                           => RedemptionStep
  <1> SUFFICES ASSUME AccessTypeOK, [Next]_vars, \A h \in Handlers : Backed(h)
               PROVE  RedemptionStep
    OBVIOUS
  <1>1. CASE UNCHANGED voucher
    BY <1>1 DEF RedemptionStep
  <1>2. ASSUME NEW c \in Codes, Insert(c) PROVE RedemptionStep
    BY <1>2 DEF Insert, RedemptionStep, AccessTypeOK
  <1>3. ASSUME NEW c \in Codes, NEW mac \in Devices \cup {NoMac},
               voucher' = [voucher EXCEPT ![c] = Claimed(@, mac)]
        PROVE  RedemptionStep
    <2>1. voucher[c] \in VoucherRows
      BY DEF AccessTypeOK
    <2>2. voucher'[c] = Claimed(voucher[c], mac)
            /\ \A b \in Codes : b # c => voucher'[b] = voucher[b]
      BY <1>3 DEF AccessTypeOK
    <2> QED
      BY <2>1, <2>2, RowMoves DEF RedemptionStep
  <1>4. ASSUME NEW h \in Handlers, Claim(h) \/ ClaimLate(h) \/ QueryThrows(h)
        PROVE  RedemptionStep
    <2>1. handler[h].mac \in Devices \cup {NoMac}
      BY DEF AccessTypeOK, Requests
    <2>2. handler[h].pc \in {"claim", "late"} => handler[h].name \in Codes
      BY DEF Backed, Waited
    <2>3. \/ UNCHANGED voucher
          \/ /\ handler[h].pc \in {"claim", "late"}
             /\ voucher' = [voucher EXCEPT ![handler[h].name] = Claimed(@, handler[h].mac)]
      BY <1>4 DEF Claim, ClaimLate, QueryThrows
    <2> QED
      BY <1>1, <1>3, <2>1, <2>2, <2>3
  <1>5. \/ UNCHANGED voucher
        \/ \E c \in Codes : Insert(c)
        \/ \E h \in Handlers : Claim(h) \/ ClaimLate(h) \/ QueryThrows(h)
    BY DEF Next, Renew, Page, Load, AutoReconnect, CheckFails, Enter, ShowSuccess,
           ConnectWithCode, Dial, GiveUp, Drop, Receive, Auth, ReadAccount, FindPlan,
           Accept, Reject, LoseAnswer, Tick, vars, rows
  <1> QED
    BY <1>1, <1>2, <1>4, <1>5

-----------------------------------------------------------------------------
(* The page and the router.                                                 *)

LEMMA AccessNames ==
  NoName \notin Names /\ NoMac \notin Devices /\ Codes \cap Users = {} /\ Unlimited \notin Nat
  BY AccessAssumption DEF AccessAssumption

(* No handler works for a device that is not waiting.                       *)
LEMMA NobodyWorks ==
  ASSUME AccessInv, NEW d \in Devices, router[d].name = NoName,
         NEW h \in Handlers, Waited(handler[h])
  PROVE  handler[h].dev # d
  BY AccessNames DEF AccessInv, Backed, Waited

LEMMA AccessPages ==
  ASSUME AccessInv, UNCHANGED <<now, rows, router, session, handler>>,
         stored' \in [Phones -> Codes \cup {NoName}],
         page' \in [Phones -> {"away", "loaded", "shown"}], faults' \in Nat,
         \A d \in Phones : page'[d] # "away" => page[d] # "away" \/ router[d].name = NoName
  PROVE  AccessInv'
  <1>1. AccessTypeOK'
    BY DEF AccessInv, AccessTypeOK, rows
  <1> QED
    BY <1>1 DEF AccessInv, Waits, Backed, Waited, GrantedVoucher, GrantedAccount, Lasts, rows

LEMMA AccessRelay ==
  ASSUME AccessInv, NEW d \in Devices, NEW n \in Names, NEW good \in BOOLEAN,
         Relay(d, n, good), router[d].name = NoName,
         UNCHANGED <<now, rows, session, handler, faults>>,
         stored' \in [Phones -> Codes \cup {NoName}],
         page' \in [Phones -> {"away", "loaded", "shown"}],
         \A e \in Phones : page'[e] # "away" => page[e] # "away" /\ e # d
  PROVE  AccessInv'
  <1>0. router \in [Devices -> Logins] /\ now \in Nat
    BY DEF AccessInv, AccessTypeOK
  <1>1. PICK m \in {d, NoMac} : /\ ~MacMayBeMissing => m = d
                                /\ router' = [router EXCEPT ![d] =
                                     [name |-> n, since |-> now, mac |-> m, good |-> good]]
    BY DEF Relay
  <1>2. [name |-> n, since |-> now, mac |-> m, good |-> good] \in Logins
    BY <1>0 DEF Logins
  <1>3. router' \in [Devices -> Logins] /\ \A e \in Devices : e # d => router'[e] = router[e]
    BY <1>0, <1>1, <1>2
  <1>4. router'[d].since = now /\ router'[d].mac = m
    BY <1>0, <1>1
  <1>5. AccessTypeOK'
    BY <1>3 DEF AccessInv, AccessTypeOK, rows
  <1>6. \A e \in Devices : Waits(e)'
    BY <1>0, <1>1, <1>3, <1>4, AccessAssumption DEF AccessInv, Waits, AccessAssumption
  <1>7. ASSUME NEW h \in Handlers PROVE Backed(h)'
    <2>1. CASE ~Waited(handler[h])
      BY <2>1 DEF AccessInv, Backed
    <2>2. CASE Waited(handler[h])
      <3>1. handler[h].dev # d /\ handler[h].dev \in Devices /\ Backed(h)
        BY <2>2, NobodyWorks DEF AccessInv, Backed, Waited
      <3>2. router'[handler[h].dev] = router[handler[h].dev]
        BY <1>3, <3>1
      <3> QED
        BY <3>1, <3>2 DEF Backed, Waited, GrantedVoucher, GrantedAccount, rows
    <2> QED
      BY <2>1, <2>2
  <1>8. \A e \in Phones : page'[e] # "away" => router'[e].name = NoName
    BY <1>3 DEF AccessInv, Devices
  <1> QED
    BY <1>5, <1>6, <1>7, <1>8 DEF AccessInv, Lasts, rows

(* A login is over: nobody waits, nobody works for it.                      *)
LEMMA AccessSettled ==
  ASSUME AccessInv, NEW d \in Devices, Settled(d),
         UNCHANGED <<now, rows, stored, faults>>,
         session' \in [Devices -> Sessions], \A e \in Devices : Lasts(e)',
         page' \in [Phones -> {"away", "loaded", "shown"}],
         \A e \in Phones : page'[e] # page[e] => e = d
  PROVE  AccessInv'
  <1>0. router \in [Devices -> Logins] /\ handler \in [Handlers -> Requests]
    BY DEF AccessInv, AccessTypeOK
  <1>1. /\ router' \in [Devices -> Logins] /\ router'[d].name = NoName
        /\ \A e \in Devices : e # d => router'[e] = router[e]
    BY <1>0, RecordTypes DEF Settled
  <1>2. /\ handler' \in [Handlers -> Requests]
        /\ \A h \in Handlers :
              \/ handler'[h].pc = "idle"
              \/ handler'[h] = handler[h] /\ handler[h].dev # d
              \/ /\ handler[h].dev = d /\ handler[h].pc = "claim" /\ handler'[h].pc = "late"
                 /\ handler'[h].name = handler[h].name /\ handler'[h].mac = handler[h].mac
    <2>1. ASSUME NEW r \in Requests
          PROVE  /\ Late(r) \in Requests
                 /\ \/ Late(r).pc = "idle"
                    \/ /\ r.pc = "claim" /\ Late(r).pc = "late"
                       /\ Late(r).name = r.name /\ Late(r).mac = r.mac
      BY RecordTypes DEF Late, Requests
    <2> QED
      BY <1>0, <2>1 DEF Settled
  <1>3. AccessTypeOK'
    BY <1>1, <1>2 DEF AccessInv, AccessTypeOK, rows
  <1>4. \A e \in Devices : Waits(e)'
    BY <1>1 DEF AccessInv, Waits
  <1>5. ASSUME NEW h \in Handlers PROVE Backed(h)'
    <2>1. CASE handler'[h].pc = "idle"
      BY <2>1 DEF Backed, Waited
    <2>3. CASE /\ handler[h].dev = d /\ handler[h].pc = "claim" /\ handler'[h].pc = "late"
               /\ handler'[h].name = handler[h].name /\ handler'[h].mac = handler[h].mac
      <3>1. /\ handler[h].name \in Codes /\ router[d].name # NoName
            /\ router[d].mac = handler[h].mac
        BY <2>3, AccessNames DEF AccessInv, Backed, Waited, Names
      <3>2. handler[h].mac = NoMac => MacMayBeMissing
        BY <3>1, AccessNames DEF AccessInv, Waits
      <3> QED
        BY <2>3, <3>1, <3>2 DEF Backed, Waited
    <2>4. CASE handler'[h] = handler[h] /\ handler[h].dev # d /\ ~Waited(handler[h])
      BY <2>4 DEF AccessInv, Backed
    <2>2. CASE handler'[h] = handler[h] /\ handler[h].dev # d /\ Waited(handler[h])
      <3>1. handler'[h] = handler[h] /\ handler[h].dev # d /\ Backed(h)
        BY <1>2, <2>2 DEF AccessInv
      <3>2. handler[h].dev \in Devices /\ router'[handler[h].dev] = router[handler[h].dev]
        BY <1>1, <2>2, <3>1 DEF Backed, Waited
      <3> QED
        BY <3>1, <3>2 DEF Backed, Waited, GrantedVoucher, GrantedAccount, rows
    <2> QED
      BY <1>2, <2>1, <2>2, <2>3, <2>4
  <1>6. \A e \in Phones : page'[e] # "away" => router'[e].name = NoName
    BY <1>1 DEF AccessInv, Devices
  <1> QED
    BY <1>3, <1>4, <1>5, <1>6 DEF AccessInv, rows

LEMMA BounceType ==
  ASSUME AccessTypeOK, NEW d \in Devices, Bounce(d)
  PROVE  /\ page' \in [Phones -> {"away", "loaded", "shown"}] /\ stored' = stored
         /\ \A e \in Phones : page'[e] # page[e] => e = d
  BY DEF AccessTypeOK, Bounce

LEMMA AccessPhone ==
  ASSUME AccessInv, NEW d \in Phones,
         Page(d) \/ \E c \in Codes : Enter(d, c) \/ ShowSuccess(d, c)
  PROVE  AccessInv'
  <1>0. /\ stored \in [Phones -> Codes \cup {NoName}] /\ faults \in Nat
        /\ page \in [Phones -> {"away", "loaded", "shown"}] /\ d \in Devices
        /\ \A c \in Codes : c \in Names
    BY DEF AccessInv, AccessTypeOK, Devices, Names
  <1>1. CASE Load(d)
    BY <1>0, <1>1, AccessPages DEF Load, IsOffline
  <1>2. CASE CheckFails(d)
    BY <1>0, <1>2, AccessPages DEF CheckFails
  <1>3. CASE AutoReconnect(d)
    <2>1. /\ UNCHANGED <<now, rows, session, handler, faults>> /\ page[d] = "loaded"
          /\ router[d].name = NoName
      BY <1>3 DEF AutoReconnect, AccessInv
    <2>2. CASE stored[d] # NoName /\ Relay(d, stored[d], TRUE)
                 /\ page' = [page EXCEPT ![d] = "away"] /\ UNCHANGED stored
      BY <1>0, <2>1, <2>2, AccessRelay
    <2>3. CASE UNCHANGED router /\ page' = [page EXCEPT ![d] = "shown"]
                 /\ stored' \in {stored, [stored EXCEPT ![d] = NoName]}
      BY <1>0, <2>1, <2>3, AccessPages
    <2> QED
      BY <1>3, <2>2, <2>3 DEF AutoReconnect
  <1>4. ASSUME NEW c \in Codes, ConnectWithCode(d, c)
        PROVE  AccessInv'
    BY <1>0, <1>4, AccessRelay DEF ConnectWithCode, IsOffline
  <1> QED
    BY <1>1, <1>2, <1>3, <1>4 DEF Page, Enter, ShowSuccess

LEMMA AccessOther ==
  ASSUME AccessInv, NEW d \in Devices,
         GiveUp(d) \/ Drop(d) \/ (d \in Dialers /\ \E u \in Users : Dial(d, u))
  PROVE  AccessInv'
  <1>0. AccessTypeOK
    BY DEF AccessInv
  <1>1. CASE GiveUp(d)
    <2>1. \A e \in Devices : Lasts(e)'
      BY <1>1 DEF GiveUp, AccessInv, Lasts, rows
    <2>2. session' \in [Devices -> Sessions]
      BY <1>0, <1>1 DEF GiveUp, AccessTypeOK
    <2> QED
      BY <1>0, <1>1, <2>1, <2>2, BounceType, AccessSettled DEF GiveUp
  <1>2. CASE Drop(d)
    <2>1. /\ session' \in [Devices -> Sessions] /\ session'[d].name = NoName
          /\ \A e \in Devices : e # d => session'[e] = session[e]
      BY <1>0, <1>2, RecordTypes DEF Drop, AccessTypeOK
    <2>2. \A e \in Devices : Lasts(e)'
      <3>1. ASSUME NEW e \in Devices, e # d PROVE Lasts(e)'
        BY <1>2, <2>1, <3>1 DEF AccessInv, Lasts, Drop, rows
      <3>2. Lasts(d)'
        BY <2>1, AccessNames DEF Lasts, Names
      <3> QED
        BY <3>1, <3>2
    <2>3. AccessTypeOK'
      BY <1>0, <1>2, <2>1 DEF Drop, AccessTypeOK, rows, browser
    <2> QED
      BY <1>2, <2>2, <2>3 DEF AccessInv, Drop, rows, browser, Waits, Backed, Waited, GrantedVoucher,
                              GrantedAccount
  <1>3. ASSUME NEW u \in Users, d \in Dialers, Dial(d, u)
        PROVE  AccessInv'
    <2>1. u \in Names /\ \A e \in Phones : e # d
      BY <1>3, AccessAssumption DEF Names, AccessAssumption
    <2>2. PICK good \in BOOLEAN : Relay(d, u, good)
      BY <1>3 DEF Dial
    <2> QED
      BY <1>0, <1>3, <2>1, <2>2, AccessRelay DEF Dial, IsOffline, AccessTypeOK, browser
  <1> QED
    BY <1>1, <1>2, <1>3

-----------------------------------------------------------------------------
(* The rows change.                                                         *)

(* Vouchers that only move on keep whatever was granted on them.            *)
LEMMA AccessVouchers ==
  ASSUME AccessInv, voucher' \in [Codes -> VoucherRows], RedemptionStep,
         \A c \in Codes : voucher'[c].status # "used" => voucher'[c].mac = NoMac
  PROVE  /\ \A c \in Codes, d \in Devices :
               GrantedVoucher(c, d) =>
                  /\ voucher'[c].status = "used"
                  /\ ~MacMayBeMissing => voucher'[c].mac = d
                  /\ voucher'[c].redeemed = voucher[c].redeemed
         /\ \A d \in Devices : session[d].name \in Codes =>
               /\ voucher'[session[d].name].status = "used"
               /\ ~MacMayBeMissing => voucher'[session[d].name].mac = d
               /\ voucher'[session[d].name].redeemed = voucher[session[d].name].redeemed
  BY AccessNames DEF AccessInv, Lasts, GrantedVoucher, RedemptionStep

LEMMA AccessInsert ==
  ASSUME AccessInv, NEW c \in Codes, Insert(c)
  PROVE  AccessInv'
  <1>0. AccessTypeOK
    BY DEF AccessInv
  <1>1. PICK e \in {Unlimited, IF Shelf = Unlimited THEN Unlimited ELSE now + Shelf} :
           voucher' = [voucher EXCEPT ![c] = [NoVoucher EXCEPT !.status = "unused",
                                                               !.expires = e]]
    BY DEF Insert
  <1>2. e \in Times
    BY <1>0, AccessAssumption DEF AccessAssumption, Times, AccessTypeOK
  <1>3. LET v == [NoVoucher EXCEPT !.status = "unused", !.expires = e]
        IN  v \in VoucherRows /\ v.mac = NoMac
    BY <1>2 DEF NoVoucher, VoucherRows
  <1>4. /\ voucher' \in [Codes -> VoucherRows] /\ voucher'[c].mac = NoMac
        /\ \A b \in Codes : b # c => voucher'[b] = voucher[b]
    BY <1>0, <1>1, <1>3 DEF AccessTypeOK
  <1>5. voucher[c].status = "none"
    BY DEF Insert
  <1>6. AccessTypeOK'
    BY <1>0, <1>4 DEF Insert, AccessTypeOK, browser
  <1>7. \A b \in Codes : voucher[b].status = "used" => voucher'[b] = voucher[b]
    BY <1>4, <1>5
  <1>8. \A h \in Handlers : Backed(h)'
    BY <1>7 DEF AccessInv, Insert, Backed, Waited, GrantedVoucher, GrantedAccount
  <1>9. \A d \in Devices : Lasts(d)'
    BY <1>7 DEF AccessInv, Insert, Lasts
  <1> QED
    BY <1>4, <1>6, <1>8, <1>9 DEF AccessInv, Insert, Waits, browser

LEMMA AccessRenew ==
  ASSUME AccessInv, NEW u \in Users, Renew(u)
  PROVE  AccessInv'
  <1> DEFINE base == IF expires[u] = Unlimited THEN now ELSE Later(now, expires[u])
             more == IF Duration[u] = Unlimited THEN DefaultRenewal ELSE Duration[u]
  <1>0. AccessTypeOK /\ now \in Nat /\ u \in Names
    BY DEF AccessInv, AccessTypeOK, Names
  <1>1. expires[u] # Unlimited => expires[u] \in Nat
    BY <1>0 DEF AccessTypeOK, Times
  <1>2. /\ more \in Nat /\ (~NoTimeLimit(u) => more = Duration[u])
        /\ base \in Nat /\ now <= base
        /\ expires[u] # Unlimited => expires[u] <= base
    BY <1>0, <1>1, AccessAssumption DEF AccessAssumption, NoTimeLimit, Times, Later
  <1>3. expires' = [expires EXCEPT ![u] = base + more]
    BY DEF Renew
  <1> HIDE DEF base, more
  <1>4. /\ expires' \in [Users -> Times] /\ expires'[u] = base + more
        /\ \A w \in Users : w # u => expires'[w] = expires[w]
    BY <1>0, <1>2, <1>3 DEF AccessTypeOK, Times
  <1>5. UNCHANGED <<now, voucher, router, session, handler, browser, faults>>
    BY DEF Renew
  <1>6. AccessTypeOK'
    BY <1>0, <1>4, <1>5 DEF AccessTypeOK, browser
  <1>7. ASSUME NEW h \in Handlers PROVE Backed(h)'
    <2>1. CASE handler[h].pc \in {"plan", "accept"} /\ handler[h].name = u
      <3>1. /\ Backed(h) /\ handler[h].dev \in Devices
            /\ router[handler[h].dev].name = u /\ GrantedAccount(u, handler[h].dev)
        BY <2>1 DEF AccessInv, Backed, Waited
      <3>2. router[handler[h].dev].since <= now /\ router[handler[h].dev].since \in Nat
        BY <1>0, <3>1, AccessNames DEF AccessInv, Waits, AccessTypeOK, Logins
      <3>3. GrantedAccount(u, handler[h].dev)'
        BY <1>0, <1>2, <1>4, <1>5, <3>2 DEF GrantedAccount
      <3> QED
        BY <1>5, <2>1, <3>1, <3>3, AccessNames DEF Backed, Waited
    <2>2. CASE ~(handler[h].pc \in {"plan", "accept"} /\ handler[h].name = u)
      BY <1>4, <1>5, <2>2 DEF AccessInv, Backed, Waited, GrantedVoucher, GrantedAccount
    <2> QED
      BY <2>1, <2>2
  <1>8. ASSUME NEW d \in Devices PROVE Lasts(d)'
    <2>1. CASE session[d].name # u
      BY <1>4, <1>5, <2>1 DEF AccessInv, Lasts
    <2>2. CASE session[d].name = u /\ ~NoTimeLimit(u)
      <3>1. Duration[u] \in Nat /\ session[d].until \in Nat
              /\ session[d].until <= now + Duration[u]
        BY <1>0, <2>2, Durations DEF AccessInv, Lasts
      <3>2. session[d].until <= expires'[u] + Duration[u] + RadiusTimeout
        BY <1>0, <1>2, <1>4, <2>2, <3>1, AccessAssumption DEF AccessAssumption
      <3> QED
        BY <1>5, <2>2, <3>1, <3>2, AccessNames DEF Lasts, NoTimeLimit
    <2>3. CASE session[d].name = u /\ NoTimeLimit(u)
      BY <1>5, <2>3, AccessNames DEF Lasts, NoTimeLimit
    <2> QED
      BY <2>1, <2>2, <2>3
  <1> QED
    BY <1>5, <1>6, <1>7, <1>8 DEF AccessInv, Waits, browser

-----------------------------------------------------------------------------
(* The handlers.                                                            *)

LEMMA AccessHandler ==
  ASSUME AccessInv, NEW h \in Handlers, NEW r \in Requests,
         Become(h, r), UNCHANGED <<now, rows, router, session, browser>>, faults' \in Nat,
         Backed(h)'
  PROVE  AccessInv'
  <1>1. /\ handler' \in [Handlers -> Requests]
        /\ \A k \in Handlers : k # h => handler'[k] = handler[k]
    BY DEF AccessInv, AccessTypeOK, Become
  <1>2. AccessTypeOK'
    BY <1>1 DEF AccessInv, AccessTypeOK, rows, browser
  <1>3. \A k \in Handlers : Backed(k)'
    BY <1>1 DEF AccessInv, Backed, Waited, GrantedVoucher, GrantedAccount, rows
  <1> QED
    BY <1>2, <1>3 DEF AccessInv, Waits, Lasts, rows, browser

(* What a handler that goes on is like.                                     *)
LEMMA GoneTo ==
  ASSUME AccessTypeOK, NEW h \in Handlers,
         NEW pc \in {"idle", "claim", "account", "plan", "accept", "reject"}, Goto(h, pc)
  PROVE  /\ [handler[h] EXCEPT !.pc = pc] \in Requests
         /\ Become(h, [handler[h] EXCEPT !.pc = pc])
         /\ handler' \in [Handlers -> Requests]
         /\ handler'[h].pc = pc /\ handler'[h].dev = handler[h].dev
         /\ handler'[h].name = handler[h].name /\ handler'[h].mac = handler[h].mac
         /\ \A k \in Handlers : k # h => handler'[k] = handler[k]
  BY DEF AccessTypeOK, Goto, Become, Requests

LEMMA AccessReceive ==
  ASSUME AccessInv, NEW h \in Handlers, NEW d \in Devices, Receive(h, d)
  PROVE  AccessInv'
  <1> DEFINE r == [pc |-> IF router[d].name \in Codes THEN "claim" ELSE "account",
                   dev |-> d, name |-> router[d].name, mac |-> router[d].mac,
                   good |-> router[d].good]
  <1>0. /\ router[d] \in Logins /\ router[d].name # NoName /\ handler \in [Handlers -> Requests]
        /\ faults \in Nat
    BY DEF AccessInv, AccessTypeOK, Receive
  <1>1. r \in Requests
    BY <1>0 DEF Requests, Logins
  <1>2. Become(h, r) /\ UNCHANGED <<now, rows, router, session, browser, faults>>
    BY DEF Receive
  <1>3. handler'[h] = r /\ router' = router
    BY <1>0, <1>2 DEF Become
  <1>4. router[d].name \in Names /\ (router[d].name \notin Codes => router[d].name \in Users)
    BY <1>0 DEF Logins, Names
  <1>5. Backed(h)'
    BY <1>3, <1>4 DEF Backed, Waited
  <1> QED
    BY <1>0, <1>1, <1>2, <1>5, AccessHandler

(* The claim's row is granted to the claimant.                              *)
LEMMA AccessClaimed ==
  ASSUME AccessInv, NEW h \in Handlers, handler[h].pc = "claim",
         Claimable(handler[h].name, handler[h].mac),
         voucher' = [voucher EXCEPT ![handler[h].name] = Claimed(@, handler[h].mac)],
         NEW pc \in {"plan", "reject"}, Goto(h, pc),
         UNCHANGED <<now, expires, router, session, browser>>, faults' \in Nat,
         RedemptionStep
  PROVE  AccessInv'
  <1>0. /\ AccessTypeOK /\ Backed(h) /\ handler[h].dev \in Devices
        /\ handler[h].mac \in Devices \cup {NoMac}
    BY DEF AccessInv, Backed, Waited, AccessTypeOK, Requests
  <1>1. PICK c \in Codes, d \in Devices, m \in Devices \cup {NoMac} :
           handler[h].name = c /\ handler[h].dev = d /\ handler[h].mac = m
    BY <1>0 DEF Backed, Waited
  <1>2. /\ voucher[c] \in VoucherRows /\ Claimed(voucher[c], m) \in VoucherRows
        /\ voucher'[c] = Claimed(voucher[c], m)
        /\ \A b \in Codes : b # c => voucher'[b] = voucher[b]
        /\ voucher' \in [Codes -> VoucherRows]
    BY <1>0, <1>1, ClaimedType DEF AccessTypeOK
  <1>3. /\ voucher'[c].status = "used"
        /\ voucher[c].status = "used" => voucher'[c].redeemed = voucher[c].redeemed
        /\ voucher[c].mac # NoMac => voucher'[c].mac = voucher[c].mac
        /\ voucher[c].mac = NoMac => voucher'[c].mac = m
        /\ voucher[c].status # "used" => voucher'[c].redeemed = now
    BY <1>2, RowMoves
  <1>4. \A b \in Codes : voucher'[b].status # "used" => voucher'[b].mac = NoMac
    BY <1>2, <1>3 DEF AccessInv
  <1>5. /\ handler'[h].pc = pc /\ handler'[h].dev = d /\ handler'[h].name = c
        /\ handler'[h].mac = m /\ handler' \in [Handlers -> Requests]
        /\ \A k \in Handlers : k # h => handler'[k] = handler[k]
    BY <1>0, <1>1, GoneTo
  <1>6. AccessTypeOK'
    BY <1>0, <1>2, <1>5 DEF AccessTypeOK, browser
  <1>7. /\ router[d].name = c /\ router[d].mac = m /\ c \in Names
        /\ router[d].since \in Nat /\ router[d].since <= now /\ now \in Nat
        /\ ~MacMayBeMissing => m = d
    BY <1>0, <1>1, AccessNames DEF AccessInv, Backed, Waited, Waits, AccessTypeOK, Logins, Names
  <1>8. GrantedVoucher(c, d)'
    <2>1. ~MacMayBeMissing => voucher'[c].mac = d
      BY <1>1, <1>3, <1>7, AccessNames DEF AccessInv, Claimable
    <2>2. ~NoTimeLimit(c) => router[d].since < voucher'[c].redeemed + Duration[c]
      <3>1. SUFFICES ASSUME ~NoTimeLimit(c)
                     PROVE  router[d].since < voucher'[c].redeemed + Duration[c]
        OBVIOUS
      <3>2. Duration[c] \in Nat \ {0} /\ Duration[c] # Unlimited
        BY <1>7, <3>1, Durations
      <3>3. voucher[c].redeemed \in Nat
        BY <1>2 DEF VoucherRows
      <3>4. CASE voucher[c].status = "used"
        <4>1. voucher[c].redeemed + Duration[c] > now
          BY <1>1, <3>2, <3>4 DEF Claimable, NotOver
        <4> QED
          BY <1>3, <1>7, <3>2, <3>3, <3>4, <4>1
      <3>5. CASE voucher[c].status # "used"
        BY <1>3, <1>7, <3>2, <3>5
      <3> QED
        BY <3>4, <3>5
    <2> QED
      BY <1>3, <2>1, <2>2 DEF GrantedVoucher, NoTimeLimit
  <1>9. ASSUME NEW k \in Handlers PROVE Backed(k)'
    <2>1. CASE k = h
      BY <1>5, <1>7, <1>8, <2>1, AccessNames DEF Backed, Waited
    <2>2. CASE k # h
      BY <1>2, <1>4, <1>5, <2>2, AccessVouchers
      DEF AccessInv, Backed, Waited, GrantedVoucher, GrantedAccount
    <2> QED
      BY <2>1, <2>2
  <1>10. \A e \in Devices : Lasts(e)'
    BY <1>2, <1>4, AccessVouchers DEF AccessInv, Lasts
  <1> QED
    BY <1>4, <1>6, <1>9, <1>10 DEF AccessInv, Waits, browser

(* A late claim keeps whatever was granted.                                 *)
LEMMA AccessClaimedLate ==
  ASSUME AccessInv, NEW h \in Handlers, ClaimLate(h), RedemptionStep
  PROVE  AccessInv'
  <1>0. /\ AccessTypeOK /\ handler[h].mac \in Devices \cup {NoMac}
    BY DEF AccessInv, AccessTypeOK, Requests
  <1>1. PICK c \in Codes, m \in Devices \cup {NoMac} :
           handler[h].name = c /\ handler[h].mac = m
    BY <1>0 DEF ClaimLate, AccessInv, Backed
  <1>2. /\ UNCHANGED <<now, expires, router, session, browser, faults>>
        /\ handler' = [handler EXCEPT ![h] = Idle]
        /\ voucher' = [voucher EXCEPT ![c] = Claimed(@, m)] \/ voucher' = voucher
    BY <1>1 DEF ClaimLate, Become
  <1>3. voucher[c] \in VoucherRows /\ Claimed(voucher[c], m) \in VoucherRows
    BY <1>0, ClaimedType DEF AccessTypeOK
  <1>4. /\ voucher' \in [Codes -> VoucherRows]
        /\ \A b \in Codes : b # c => voucher'[b] = voucher[b]
        /\ voucher'[c] = Claimed(voucher[c], m) \/ voucher'[c] = voucher[c]
    BY <1>0, <1>2, <1>3 DEF AccessTypeOK
  <1>5. \A b \in Codes : voucher'[b].status # "used" => voucher'[b].mac = NoMac
    BY <1>3, <1>4, RowMoves DEF AccessInv
  <1>6. /\ handler' \in [Handlers -> Requests] /\ handler'[h].pc = "idle"
        /\ \A k \in Handlers : k # h => handler'[k] = handler[k]
    BY <1>0, <1>2, RecordTypes DEF AccessTypeOK
  <1>7. AccessTypeOK'
    BY <1>0, <1>2, <1>4, <1>6 DEF AccessTypeOK, browser
  <1>8. ASSUME NEW k \in Handlers PROVE Backed(k)'
    <2>1. CASE k = h
      BY <1>6, <2>1 DEF Backed, Waited
    <2>2. CASE k # h
      BY <1>2, <1>4, <1>5, <1>6, <2>2, AccessVouchers
      DEF AccessInv, Backed, Waited, GrantedVoucher, GrantedAccount
    <2> QED
      BY <2>1, <2>2
  <1>9. \A e \in Devices : Lasts(e)'
    BY <1>2, <1>4, <1>5, AccessVouchers DEF AccessInv, Lasts
  <1> QED
    BY <1>2, <1>5, <1>7, <1>8, <1>9 DEF AccessInv, Waits, browser

(* A handler that goes on with no row changed.                              *)
LEMMA AccessOnward ==
  ASSUME AccessInv, NEW h \in Handlers, Waited(handler[h]),
         NEW pc \in {"plan", "accept", "reject"}, Goto(h, pc),
         UNCHANGED <<now, rows, router, session, browser>>, faults' \in Nat,
         pc # "reject" =>
            /\ handler[h].name \in Codes => GrantedVoucher(handler[h].name, handler[h].dev)
            /\ handler[h].name \in Users => GrantedAccount(handler[h].name, handler[h].dev)
  PROVE  AccessInv'
  <1>1. AccessTypeOK /\ Backed(h)
    BY DEF AccessInv
  <1>2. /\ [handler[h] EXCEPT !.pc = pc] \in Requests
        /\ Become(h, [handler[h] EXCEPT !.pc = pc])
        /\ handler'[h].pc = pc /\ handler'[h].dev = handler[h].dev
        /\ handler'[h].name = handler[h].name /\ handler'[h].mac = handler[h].mac
    BY <1>1, GoneTo
  <1>3. Backed(h)'
    BY <1>1, <1>2 DEF Backed, Waited, GrantedVoucher, GrantedAccount, rows
  <1> QED
    BY <1>2, <1>3, AccessHandler

LEMMA AccessAuth ==
  ASSUME AccessInv, RedemptionStep, NEW h \in Handlers,
         \/ Claim(h) \/ ClaimLate(h) \/ ReadAccount(h) \/ FindPlan(h)
         \/ QueryThrows(h) \/ LoseAnswer(h)
  PROVE  AccessInv'
  <1>0. AccessTypeOK /\ Backed(h) /\ faults \in Nat
    BY DEF AccessInv, AccessTypeOK
  <1>1. CASE Claim(h)
    <2>1. CASE Claimable(handler[h].name, handler[h].mac)
      BY <1>0, <1>1, <2>1, AccessClaimed DEF Claim
    <2>2. CASE ~Claimable(handler[h].name, handler[h].mac)
      BY <1>0, <1>1, <2>2, AccessOnward DEF Claim, Waited, rows
    <2> QED
      BY <2>1, <2>2
  <1>2. CASE ReadAccount(h)
    <2>1. /\ handler[h].pc = "account" /\ UNCHANGED <<now, rows, router, session, browser, faults>>
      BY <1>2 DEF ReadAccount
    <2>2. CASE Goto(h, "reject")
      BY <1>0, <2>1, <2>2, AccessOnward DEF Waited
    <2>3. CASE /\ Goto(h, "plan")
               /\ expires[handler[h].name] # Unlimited => expires[handler[h].name] >= now
      <3>1. /\ handler[h].name \in Users /\ handler[h].name \notin Codes
            /\ handler[h].dev \in Devices /\ router[handler[h].dev].name = handler[h].name
        BY <1>0, <2>1, AccessNames DEF Backed, Waited
      <3>2. router[handler[h].dev].since <= now /\ router[handler[h].dev].since \in Nat
              /\ now \in Nat
        BY <1>0, <3>1, AccessNames DEF AccessInv, Waits, AccessTypeOK, Logins, Names
      <3>3. expires[handler[h].name] # Unlimited => expires[handler[h].name] \in Nat
        BY <1>0, <3>1 DEF AccessTypeOK, Times
      <3>4. GrantedAccount(handler[h].name, handler[h].dev)
        BY <2>3, <3>2, <3>3 DEF GrantedAccount
      <3> QED
        BY <1>0, <2>1, <2>3, <3>1, <3>4, AccessOnward DEF Waited
    <2> QED
      BY <1>2, <2>2, <2>3 DEF ReadAccount
  <1>3. CASE FindPlan(h)
    BY <1>0, <1>3, AccessOnward DEF FindPlan, Backed, Waited
  <1>4. CASE QueryThrows(h)
    <2>1. /\ Waited(handler[h]) /\ Goto(h, "reject") /\ faults' \in Nat
          /\ UNCHANGED <<now, expires, router, session, browser>>
      BY <1>0, <1>4 DEF QueryThrows, Waited
    <2>2. CASE UNCHANGED voucher
      BY <1>0, <2>1, <2>2, AccessOnward DEF rows
    <2>3. CASE /\ handler[h].pc = "claim" /\ Claimable(handler[h].name, handler[h].mac)
               /\ voucher' = [voucher EXCEPT ![handler[h].name] = Claimed(@, handler[h].mac)]
      BY <2>1, <2>3, AccessClaimed
    <2> QED
      BY <1>4, <2>2, <2>3 DEF QueryThrows
  <1>5. CASE LoseAnswer(h)
    <2>1. Become(h, Idle) /\ UNCHANGED <<now, rows, router, session, browser, faults>>
      BY <1>5 DEF LoseAnswer
    <2>2. handler'[h] = Idle
      BY <1>0, <2>1 DEF Become, AccessTypeOK
    <2>3. Backed(h)'
      BY <2>2, RecordTypes DEF Backed, Waited
    <2> QED
      BY <1>0, <2>1, <2>3, RecordTypes, AccessHandler
  <1> QED
    BY <1>1, <1>2, <1>3, <1>4, <1>5, AccessClaimedLate

(* The answers.                                                             *)
LEMMA AccessAccept ==
  ASSUME AccessInv, NEW h \in Handlers, Accept(h)
  PROVE  AccessInv'
  <1>0. AccessTypeOK /\ Backed(h) /\ handler[h].pc = "accept"
    BY DEF AccessInv, Accept
  <1>1. PICK d \in Devices, n \in Names : handler[h].dev = d /\ handler[h].name = n
    BY <1>0 DEF Backed, Waited
  <1>2. PICK u : u = IF NoTimeLimit(n) THEN Unlimited ELSE now + Duration[n]
    OBVIOUS
  <1>3. /\ session' = [session EXCEPT ![d] = [name |-> n, until |-> u]]
        /\ Settled(d) /\ UNCHANGED <<now, rows, browser, faults>>
    BY <1>1, <1>2 DEF Accept
  <1>4. now \in Nat /\ (~NoTimeLimit(n) => Duration[n] \in Nat \ {0})
    BY <1>0, Durations DEF AccessTypeOK
  <1>5. u \in Times
    BY <1>2, <1>4 DEF Times
  <1>6. /\ session' \in [Devices -> Sessions]
        /\ session'[d].name = n /\ session'[d].until = u
        /\ \A e \in Devices : e # d => session'[e] = session[e]
    BY <1>0, <1>3, <1>5 DEF AccessTypeOK, Sessions
  <1>7. /\ router[d].since \in Nat /\ now <= router[d].since + RadiusTimeout
        /\ router[d].since <= now /\ RadiusTimeout \in Nat
        /\ n \in Codes => GrantedVoucher(n, d)
        /\ n \in Users => GrantedAccount(n, d)
    BY <1>0, <1>1, AccessNames, AccessAssumption
    DEF Backed, Waited, AccessInv, Waits, AccessTypeOK, Logins, AccessAssumption
  <1>8. Lasts(d)'
    <2>1. ASSUME n \in Codes, ~NoTimeLimit(n)
          PROVE  u \in Nat /\ u < voucher[n].redeemed + 2 * Duration[n] + RadiusTimeout
      <3>1. voucher[n].redeemed \in Nat /\ router[d].since < voucher[n].redeemed + Duration[n]
        BY <1>0, <1>7, <2>1 DEF AccessTypeOK, VoucherRows, GrantedVoucher
      <3> QED
        BY <1>2, <1>4, <1>7, <2>1, <3>1
    <2>2. ASSUME n \in Users, ~NoTimeLimit(n)
          PROVE  /\ u \in Nat /\ u <= now + Duration[n]
                 /\ expires[n] # Unlimited => u <= expires[n] + Duration[n] + RadiusTimeout
      <3>1. expires[n] # Unlimited => expires[n] \in Nat /\ router[d].since <= expires[n]
        BY <1>0, <1>7, <2>2 DEF AccessTypeOK, Times, GrantedAccount
      <3> QED
        BY <1>2, <1>4, <1>7, <2>2, <3>1
    <2>3. n \in Codes => voucher[n].status = "used" /\ (~MacMayBeMissing => voucher[n].mac = d)
      BY <1>7 DEF GrantedVoucher
    <2>4. UNCHANGED <<now, voucher, expires>>
      BY <1>3 DEF rows
    <2> QED
      BY <1>6, <2>1, <2>2, <2>3, <2>4 DEF Lasts, NoTimeLimit
  <1>9. \A e \in Devices : Lasts(e)'
    BY <1>3, <1>6, <1>8 DEF AccessInv, Lasts, rows
  <1> QED
    BY <1>0, <1>3, <1>6, <1>9, AccessSettled DEF AccessTypeOK, browser

LEMMA AccessReject ==
  ASSUME AccessInv, NEW h \in Handlers, Reject(h)
  PROVE  AccessInv'
  <1>0. AccessTypeOK /\ Backed(h) /\ handler[h].pc = "reject"
    BY DEF AccessInv, Reject
  <1>1. PICK d \in Devices : handler[h].dev = d
    BY <1>0 DEF Backed, Waited
  <1>2. Settled(d) /\ Bounce(d) /\ UNCHANGED <<now, rows, session, faults>>
    BY <1>1 DEF Reject
  <1>3. \A e \in Devices : Lasts(e)'
    BY <1>2 DEF AccessInv, Lasts, rows
  <1>4. session' \in [Devices -> Sessions]
    BY <1>0, <1>2 DEF AccessTypeOK
  <1> QED
    BY <1>0, <1>2, <1>3, <1>4, BounceType, AccessSettled

LEMMA AccessTick ==
  ASSUME AccessInv, Tick
  PROVE  AccessInv'
  <1>0. AccessTypeOK /\ now \in Nat /\ now' = now + 1 /\ RadiusTimeout \in Nat
    BY AccessAssumption DEF AccessInv, AccessTypeOK, Tick, AccessAssumption
  <1>1. UNCHANGED <<rows, router, handler, browser, faults>>
    BY DEF Tick
  <1>2. \A d \in Devices : session'[d] = session[d] \/ session'[d] = Offline
    BY DEF Tick
  <1>3. session' \in [Devices -> Sessions]
    BY <1>0, RecordTypes DEF Tick, AccessTypeOK
  <1>4. AccessTypeOK'
    BY <1>0, <1>1, <1>3 DEF AccessTypeOK, rows, browser
  <1>5. ASSUME NEW d \in Devices PROVE Waits(d)'
    <2>1. router[d].name # NoName => now < router[d].since + RadiusTimeout
      BY DEF Tick
    <2>2. router[d].since \in Nat
      BY <1>0 DEF AccessTypeOK, Logins
    <2> QED
      BY <1>0, <1>1, <2>1, <2>2 DEF AccessInv, Waits
  <1>6. ASSUME NEW d \in Devices PROVE Lasts(d)'
    <2>1. CASE session'[d] = Offline
      BY <2>1, RecordTypes, AccessNames DEF Lasts, Names
    <2>2. CASE session'[d] = session[d]
      <3>1. Lasts(d)
        BY DEF AccessInv
      <3>2. ASSUME session[d].name \in Users, ~NoTimeLimit(session[d].name)
            PROVE  session[d].until <= now' + Duration[session[d].name]
        <4>1. Duration[session[d].name] \in Nat /\ session[d].until \in Nat
                /\ session[d].until <= now + Duration[session[d].name]
          BY <3>1, <3>2, Durations DEF Lasts, Names
        <4> QED
          BY <1>0, <4>1
      <3> QED
        BY <1>1, <2>2, <3>1, <3>2 DEF Lasts, NoTimeLimit, rows
    <2> QED
      BY <1>2, <2>1, <2>2
  <1>7. \A h \in Handlers : Backed(h)'
    BY <1>1 DEF AccessInv, Backed, Waited, GrantedVoucher, GrantedAccount, rows
  <1> QED
    BY <1>1, <1>4, <1>5, <1>6, <1>7 DEF AccessInv, rows, browser

LEMMA AccessNext == AccessInv /\ [Next]_vars => AccessInv'
  <1> SUFFICES ASSUME AccessInv, [Next]_vars PROVE AccessInv'
    OBVIOUS
  <1>1. RedemptionStep
    BY RedemptionNext DEF AccessInv
  <1>2. CASE UNCHANGED vars
    BY <1>2 DEF AccessInv, AccessTypeOK, Waits, Backed, Waited, GrantedVoucher, GrantedAccount,
                Lasts, vars, rows, browser
  <1>3. Phones \subseteq Devices /\ Dialers \subseteq Devices
    BY DEF Devices
  <1> QED
    BY <1>1, <1>2, <1>3, AccessInsert, AccessRenew, AccessPhone, AccessOther, AccessReceive,
       AccessAuth, AccessAccept, AccessReject, AccessTick DEF Next, Auth

-----------------------------------------------------------------------------
(* Every variable keeps its range, for any number of codes, accounts,       *)
(* devices and handlers.                                                    *)
THEOREM AccessTypeCorrect == Spec => []AccessTypeOK
  <1>1. AccessInv => AccessTypeOK
    BY DEF AccessInv
  <1> QED
    BY <1>1, AccessInit, AccessNext, PTL DEF Spec

(* A code opens the network to one device, however requests are             *)
(* retransmitted or raced (db.js:18-31).                                    *)
THEOREM OneDeviceOnly == Spec => []OneDevicePerVoucher
  <1>1. AccessInv => OneDevicePerVoucher
    BY DEF AccessInv, Lasts, OneDevicePerVoucher, Devices
  <1> QED
    BY <1>1, AccessInit, AccessNext, PTL DEF Spec

(* A code is good for its paid time, and for a last grant of it again.      *)
THEOREM PaidTimeIsBounded == Spec => []PaidTimeAtMostTwice
  <1>1. AccessInv => PaidTimeAtMostTwice
    BY DEF AccessInv, Lasts, PaidTimeAtMostTwice, Devices
  <1> QED
    BY <1>1, AccessInit, AccessNext, PTL DEF Spec

(* A PPPoE session ends at most one plan after the account's expiry.        *)
THEOREM PppoeIsBounded == Spec => []PppoeEndsSoon
  <1>1. AccessInv => PppoeEndsSoon
    BY DEF AccessInv, Lasts, PppoeEndsSoon, Devices
  <1> QED
    BY <1>1, AccessInit, AccessNext, PTL DEF Spec

(* What radius-service would grant, check-voucher does not turn away        *)
(* (portal-api/index.ts:222-235, db.js:57-62).                              *)
THEOREM RulesAgree == Spec => []NeverTurnedAway
  <1>1. AccessInv => NeverTurnedAway
    <2> SUFFICES ASSUME AccessInv, NEW c \in Codes, NEW m \in Devices \cup {NoMac},
                        Claimable(c, m)
                 PROVE  Valid(c)
      BY DEF NeverTurnedAway
    <2>1. voucher[c].expires \in Times /\ now \in Nat /\ c \in Names
      BY DEF AccessInv, AccessTypeOK, VoucherRows, Names
    <2>2. CASE voucher[c].status = "unused"
      BY <2>1, <2>2 DEF Claimable, Valid, Times
    <2>3. CASE voucher[c].status # "unused"
      BY <2>1, <2>3, Durations DEF Claimable, Valid, NotOver
    <2> QED
      BY <2>2, <2>3
  <1> QED
    BY <1>1, AccessInit, AccessNext, PTL DEF Spec

(* The paid window and the device of a code are fixed by its first          *)
(* redemption (claimVoucher).                                               *)
THEOREM FirstRedemptionCounts == Spec => [][RedemptionStep]_vars
  <1>1. AccessInv /\ [Next]_vars => [RedemptionStep]_vars
    BY RedemptionNext DEF AccessInv
  <1> QED
    BY <1>1, AccessInit, AccessNext, PTL DEF Spec

-----------------------------------------------------------------------------
(* A code is a lease of one device: the steps are those of Lease.           *)

(* Who is online neither waits for a login nor looks at the portal.         *)
Lone ==
    \A d \in Devices : session[d].name # NoName =>
        /\ router[d].name = NoName
        /\ d \in Phones => page[d] = "away"

LEMMA LoneInit == Init => Lone
  BY RecordTypes DEF Init, Lone

LEMMA LoneNext == AccessInv /\ Lone /\ [Next]_vars => Lone'
  <1> SUFFICES ASSUME AccessInv, Lone, [Next]_vars PROVE Lone'
    OBVIOUS
  <1>0. AccessTypeOK
    BY DEF AccessInv
  <1>1. CASE UNCHANGED <<router, session, page>>
    BY <1>1 DEF Lone
  <1>2. ASSUME NEW d \in Phones, Page(d) \/ \E c \in Codes : Enter(d, c) \/ ShowSuccess(d, c)
        PROVE  Lone'
    <2>1. session[d].name = NoName /\ session' = session
      BY <1>2, <1>0 DEF Page, Load, AutoReconnect, CheckFails, Enter, ShowSuccess, ConnectWithCode,
                  IsOffline, Lone, Devices, rows, AccessTypeOK
    <2>2. \A e \in Devices : e # d => /\ router'[e] = router[e]
                                      /\ e \in Phones => page'[e] = page[e]
      BY <1>0, <1>2 DEF Page, Load, AutoReconnect, CheckFails, Enter, ShowSuccess,
                        ConnectWithCode, Relay, AccessTypeOK
    <2> QED
      BY <2>1, <2>2 DEF Lone
  <1>3. ASSUME NEW d \in Dialers, NEW u \in Users, Dial(d, u) PROVE Lone'
    <2>1. session[d].name = NoName /\ UNCHANGED <<session, page>>
      BY <1>3 DEF Dial, IsOffline, browser
    <2>2. \A e \in Devices : e # d => router'[e] = router[e]
      BY <1>0, <1>3 DEF Dial, Relay, AccessTypeOK
    <2> QED
      BY <2>1, <2>2 DEF Lone
  <1>4. ASSUME NEW d \in Devices, Settled(d), Bounce(d), UNCHANGED session,
               router[d].name # NoName
        PROVE  Lone'
    <2>1. session[d].name = NoName
      BY <1>4 DEF Lone
    <2>2. \A e \in Devices : e # d => /\ router'[e] = router[e]
                                      /\ e \in Phones => page'[e] = page[e]
      BY <1>0, <1>4 DEF Settled, Bounce, AccessTypeOK
    <2> QED
      BY <1>4, <2>1, <2>2 DEF Lone
  <1>5. ASSUME NEW d \in Devices, Drop(d) PROVE Lone'
    <2>1. session'[d].name = NoName /\ \A e \in Devices : e # d => session'[e] = session[e]
      BY <1>0, <1>5, RecordTypes DEF Drop, AccessTypeOK
    <2> QED
      BY <1>5, <2>1 DEF Drop, Lone, browser
  <1>6. ASSUME NEW h \in Handlers, Accept(h) PROVE Lone'
    <2>1. PICK d \in Devices : handler[h].dev = d /\ router[d].name # NoName
      BY <1>6, AccessNames DEF AccessInv, Backed, Waited, Accept
    <2>2. /\ router' = [router EXCEPT ![d] = NoLogin]
          /\ UNCHANGED page /\ \A e \in Devices : e # d => session'[e] = session[e]
      BY <1>0, <1>6, <2>1 DEF Accept, Settled, AccessTypeOK, browser
    <2>3. /\ router'[d].name = NoName
          /\ \A e \in Devices : e # d => router'[e] = router[e]
      BY <1>0, <2>2, RecordTypes DEF AccessTypeOK
    <2>4. d \in Phones => page[d] = "away"
      BY <2>1 DEF AccessInv
    <2> QED
      BY <2>2, <2>3, <2>4 DEF Lone
  <1>7. CASE Tick
    <2>1. \A d \in Devices : session'[d] = session[d] \/ session'[d].name = NoName
      BY <1>7, RecordTypes DEF Tick
    <2> QED
      BY <1>7, <2>1 DEF Tick, Lone, browser
  <1>8. ASSUME NEW h \in Handlers, Reject(h) PROVE Lone'
    <2>1. PICK d \in Devices : handler[h].dev = d /\ router[d].name # NoName
      BY <1>8, AccessNames DEF AccessInv, Backed, Waited, Reject
    <2> QED
      BY <1>4, <1>8, <2>1 DEF Reject
  <1>9. ASSUME NEW d \in Devices, GiveUp(d) PROVE Lone'
    BY <1>4, <1>9 DEF GiveUp
  <1>10. \/ UNCHANGED <<router, session, page>>
         \/ \E d \in Phones : Page(d) \/ \E c \in Codes : Enter(d, c) \/ ShowSuccess(d, c)
         \/ \E d \in Dialers, u \in Users : Dial(d, u)
         \/ \E d \in Devices : GiveUp(d) \/ Drop(d)
         \/ \E h \in Handlers : Accept(h) \/ Reject(h)
         \/ Tick
    BY DEF Next, Insert, Renew, Receive, Auth, Claim, ClaimLate, ReadAccount, FindPlan, QueryThrows,
           LoseAnswer, vars, browser
  <1> QED
    BY <1>1, <1>2, <1>3, <1>5, <1>6, <1>7, <1>8, <1>9, <1>10

LEMMA LeaseInit == Init => Promise!Init
  <1> SUFFICES ASSUME Init PROVE Promise!Init
    OBVIOUS
  <1>1. \A d \in Devices : OnCodes[d] = Offline
    BY DEF Init, OnCodes
  <1>2. OnCodes = [d \in Devices |-> Offline]
    BY <1>1 DEF OnCodes
  <1> QED
    BY <1>2 DEF Init, Promise!Init, Promise!NotIssued, Promise!Away, NoVoucher, Offline

(* A claim begins a lease, finds it a holder or changes nothing.            *)
LEMMA ClaimIsOfLease ==
  ASSUME AccessInv, NEW c \in Codes, NEW mac \in Devices \cup {NoMac},
         mac = NoMac => MacMayBeMissing, Claimable(c, mac),
         voucher' = [voucher EXCEPT ![c] = Claimed(@, mac)], UNCHANGED <<now, session>>
  PROVE  [Promise!Next]_<<now, voucher, OnCodes>>
  <1>1. PICK v \in VoucherRows : v = voucher[c]
    BY DEF AccessInv, AccessTypeOK
  <1>2. OnCodes' = OnCodes
    BY DEF OnCodes
  <1>3. voucher \in [Codes -> VoucherRows]
    BY DEF AccessInv, AccessTypeOK
  <1>4. CASE v.status = "unused"
    <2>1. v.mac = NoMac
      BY <1>1, <1>4 DEF AccessInv
    <2>2. Claimed(v, mac) = [v EXCEPT !.status = "used", !.redeemed = now, !.mac = mac]
      BY <1>4, <2>1 DEF Claimed, VoucherRows
    <2>3. v.expires # Unlimited => now < v.expires
      BY <1>1, <1>3, <1>4 DEF Claimable, VoucherRows, AccessInv, AccessTypeOK, Times
    <2>4. Promise!Begin(c, mac)
      BY <1>1, <1>2, <1>4, <2>2, <2>3 DEF Promise!Begin
    <2> QED
      BY <2>4 DEF Promise!Next
  <1>5. CASE v.status = "used" /\ v.mac = NoMac
    <2>1. Claimed(v, mac) = [v EXCEPT !.mac = mac]
      BY <1>5 DEF Claimed, VoucherRows
    <2>2. voucher' = [voucher EXCEPT ![c].mac = mac]
      BY <1>1, <2>1
    <2>3. Duration[c] # Unlimited => now < voucher[c].redeemed + Duration[c]
      <3>1. NotOver(c)
        BY <1>1, <1>5 DEF Claimable
      <3>2. /\ now \in Nat /\ voucher[c].redeemed \in Nat
            /\ Duration[c] # Unlimited => Duration[c] \in Nat
        BY <1>3, AccessAssumption
        DEF AccessInv, AccessTypeOK, VoucherRows, AccessAssumption, Names, Times
      <3> QED
        BY <3>1, <3>2 DEF NotOver
    <2>4. Promise!Hold(c, mac)
      BY <1>1, <1>2, <1>5, <2>2, <2>3 DEF Promise!Hold
    <2> QED
      BY <2>4 DEF Promise!Next
  <1>6. CASE v.status = "used" /\ v.mac # NoMac
    <2>1. Claimed(v, mac) = v
      BY <1>6 DEF Claimed, VoucherRows
    <2>2. voucher' = voucher
      BY <1>1, <1>3, <2>1
    <2> QED
      BY <1>2, <2>2
  <1> QED
    BY <1>1, <1>4, <1>5, <1>6 DEF Claimable

LEMMA AcceptIsOfLease ==
  ASSUME AccessInv, Lone, NEW h \in Handlers, Accept(h)
  PROVE  [Promise!Next]_<<now, voucher, OnCodes>>
  <1>0. AccessTypeOK /\ Backed(h) /\ handler[h].pc = "accept"
    BY DEF AccessInv, Accept
  <1>1. PICK d \in Devices, n \in Names :
           handler[h].dev = d /\ handler[h].name = n /\ router[d].name = n
    BY <1>0 DEF Backed, Waited
  <1>2. session[d].name = NoName
    BY <1>1, AccessNames DEF Lone
  <1>3. PICK s : s = [name |-> n, until |-> IF NoTimeLimit(n) THEN Unlimited
                                            ELSE now + Duration[n]]
    OBVIOUS
  <1>4. session' = [session EXCEPT ![d] = s] /\ UNCHANGED <<now, voucher>> /\ s.name = n
    BY <1>1, <1>3 DEF Accept, rows
  <1>5. /\ session'[d] = s
        /\ \A e \in Devices : e # d => session'[e] = session[e]
    BY <1>0, <1>4 DEF AccessTypeOK
  <1>6. OnCodes[d] = Offline
    BY <1>2, AccessNames DEF OnCodes, Names
  <1>7. CASE n \in Codes
    <2>1. OnCodes'[d] = s /\ \A e \in Devices : e # d => OnCodes'[e] = OnCodes[e]
      BY <1>4, <1>5, <1>7 DEF OnCodes
    <2>2. OnCodes' = [OnCodes EXCEPT ![d] = s]
      BY <2>1 DEF OnCodes
    <2>3. /\ voucher[n].status = "used"
          /\ MacMayBeMissing \/ voucher[n].mac = d
      BY <1>0, <1>1, <1>7 DEF Backed, Waited, GrantedVoucher
    <2>4. ASSUME ~NoTimeLimit(n)
          PROVE  now < voucher[n].redeemed + Duration[n] + RadiusTimeout
      <3>1. router[d].since < voucher[n].redeemed + Duration[n]
        BY <1>0, <1>1, <1>7, <2>4 DEF Backed, Waited, GrantedVoucher
      <3>2. now <= router[d].since + RadiusTimeout
        BY <1>1, AccessNames DEF AccessInv, Waits
      <3>3. /\ now \in Nat /\ router[d].since \in Nat /\ voucher[n].redeemed \in Nat
            /\ Duration[n] \in Nat /\ RadiusTimeout \in Nat
        BY <1>0, <1>7, <2>4, Durations, AccessAssumption
        DEF AccessTypeOK, Logins, VoucherRows, AccessAssumption
      <3> QED
        BY <3>1, <3>2, <3>3
    <2>5. Promise!Limited(n) <=> ~NoTimeLimit(n)
      BY DEF Promise!Limited, NoTimeLimit
    <2>6. OnCodes[d] = Promise!Away
      BY <1>6 DEF Promise!Away, Offline
    <2>7. s = [name |-> n, until |-> IF Promise!Limited(n) THEN now + Duration[n]
                                     ELSE Unlimited]
      BY <1>3, <2>5
    <2>8. Promise!Enter(d, n)
      BY <1>4, <2>2, <2>3, <2>4, <2>5, <2>6, <2>7 DEF Promise!Enter
    <2> QED
      BY <1>7, <2>8 DEF Promise!Next
  <1>8. CASE n \notin Codes
    <2>1. \A e \in Devices : OnCodes'[e] = OnCodes[e]
      BY <1>4, <1>5, <1>6, <1>8 DEF OnCodes
    <2>2. OnCodes' = OnCodes
      BY <2>1 DEF OnCodes
    <2> QED
      BY <1>4, <2>2
  <1> QED
    BY <1>7, <1>8

LEMMA LeaseNext == AccessInv /\ Lone /\ [Next]_vars => [Promise!Next]_<<now, voucher, OnCodes>>
  <1> SUFFICES ASSUME AccessInv, Lone, [Next]_vars
               PROVE  [Promise!Next]_<<now, voucher, OnCodes>>
    OBVIOUS
  <1>0. AccessTypeOK
    BY DEF AccessInv
  <1>1. CASE UNCHANGED <<now, voucher, session>>
    BY <1>1 DEF OnCodes
  <1>2. ASSUME NEW c \in Codes, Insert(c)
        PROVE  [Promise!Next]_<<now, voucher, OnCodes>>
    <2>1. PICK e \in {Unlimited, IF Shelf = Unlimited THEN Unlimited ELSE now + Shelf} :
             voucher' = [voucher EXCEPT ![c] = [NoVoucher EXCEPT !.status = "unused",
                                                                 !.expires = e]]
      BY <1>2 DEF Insert
    <2>2. e \in {Unlimited} \cup {now + s : s \in {Shelf} \ {Unlimited}}
      OBVIOUS
    <2>3. voucher[c].status = "none" /\ now' = now /\ OnCodes' = OnCodes
      BY <1>2 DEF Insert, OnCodes
    <2>4. Promise!NotIssued = NoVoucher
      BY DEF Promise!NotIssued, NoVoucher
    <2>5. Promise!Issue(c)
      BY <2>1, <2>2, <2>3, <2>4 DEF Promise!Issue
    <2> QED
      BY <2>5 DEF Promise!Next
  <1>3. ASSUME NEW h \in Handlers, Claim(h) \/ ClaimLate(h) \/ QueryThrows(h)
        PROVE  [Promise!Next]_<<now, voucher, OnCodes>>
    <2>1. UNCHANGED <<now, session>>
      BY <1>3 DEF Claim, ClaimLate, QueryThrows
    <2>2. CASE /\ handler[h].pc = "claim" /\ Claimable(handler[h].name, handler[h].mac)
               /\ voucher' = [voucher EXCEPT ![handler[h].name] = Claimed(@, handler[h].mac)]
      <3>1. PICK d \in Devices : /\ handler[h].dev = d /\ handler[h].name \in Codes
                                 /\ router[d].name # NoName /\ router[d].mac = handler[h].mac
        BY <2>2, AccessNames DEF AccessInv, Backed, Waited
      <3>2. handler[h].mac \in Devices \cup {NoMac}
        BY <1>0 DEF AccessTypeOK, Requests
      <3>3. handler[h].mac = NoMac => MacMayBeMissing
        BY <3>1, AccessNames DEF AccessInv, Waits
      <3> QED
        BY <2>1, <2>2, <3>1, <3>2, <3>3, ClaimIsOfLease
    <2>3. CASE UNCHANGED voucher
      BY <1>1, <2>1, <2>3
    <2>4. CASE /\ handler[h].pc = "late" /\ Claimable(handler[h].name, handler[h].mac)
               /\ voucher' = [voucher EXCEPT ![handler[h].name] = Claimed(@, handler[h].mac)]
      <3>1. handler[h].name \in Codes /\ (handler[h].mac = NoMac => MacMayBeMissing)
        BY <2>4 DEF AccessInv, Backed
      <3>2. handler[h].mac \in Devices \cup {NoMac}
        BY <1>0 DEF AccessTypeOK, Requests
      <3> QED
        BY <2>1, <2>4, <3>1, <3>2, ClaimIsOfLease
    <2> QED
      BY <1>3, <2>2, <2>3, <2>4 DEF Claim, ClaimLate, QueryThrows
  <1>4. ASSUME NEW d \in Devices, Drop(d)
        PROVE  [Promise!Next]_<<now, voucher, OnCodes>>
    <2>1. /\ session'[d] = Offline /\ UNCHANGED <<now, voucher>>
          /\ \A e \in Devices : e # d => session'[e] = session[e]
      BY <1>0, <1>4 DEF Drop, AccessTypeOK, rows
    <2>2. /\ OnCodes'[d] = Offline
          /\ \A e \in Devices : e # d => OnCodes'[e] = OnCodes[e]
      BY <2>1 DEF OnCodes
    <2>3. OnCodes' = [OnCodes EXCEPT ![d] = Offline]
      BY <2>2 DEF OnCodes
    <2>4. CASE OnCodes[d] = Offline
      <3>1. \A e \in Devices : OnCodes'[e] = OnCodes[e]
        BY <2>2, <2>4
      <3>2. OnCodes' = OnCodes
        BY <3>1 DEF OnCodes
      <3> QED
        BY <2>1, <3>2
    <2>5. CASE OnCodes[d] # Offline
      <3>1. Promise!Away = Offline
        BY DEF Promise!Away, Offline
      <3>2. Promise!Leave(d)
        BY <2>1, <2>3, <2>5, <3>1 DEF Promise!Leave
      <3> QED
        BY <3>2 DEF Promise!Next
    <2> QED
      BY <2>4, <2>5
  <1>5. CASE Tick
    <2>1. now' = now + 1 /\ voucher' = voucher /\ now \in Nat
      BY <1>0, <1>5 DEF Tick, rows, AccessTypeOK
    <2>2. session' = [d \in Devices |->
                        IF session[d].until = now' THEN Offline ELSE session[d]]
      BY <1>5 DEF Tick
    <2>3. Offline.until = Unlimited /\ Unlimited # now' /\ Offline.name = NoName
      BY <2>1, AccessNames DEF Offline
    <2>4. ASSUME NEW d \in Devices
          PROVE  OnCodes'[d] = IF OnCodes[d].until = now' THEN Offline ELSE OnCodes[d]
      BY <2>2, <2>3 DEF OnCodes
    <2>5. OnCodes' = [d \in Devices |->
                        IF OnCodes[d].until = now' THEN Offline ELSE OnCodes[d]]
      BY <2>4 DEF OnCodes
    <2>6. Promise!Away = Offline
      BY DEF Promise!Away, Offline
    <2>7. Promise!Tick
      BY <2>1, <2>5, <2>6 DEF Promise!Tick
    <2> QED
      BY <2>7 DEF Promise!Next
  <1>6. \/ UNCHANGED <<now, voucher, session>>
        \/ \E c \in Codes : Insert(c)
        \/ \E h \in Handlers : Claim(h) \/ ClaimLate(h) \/ QueryThrows(h) \/ Accept(h)
        \/ \E d \in Devices : Drop(d)
        \/ Tick
    BY DEF Next, Renew, Page, Load, AutoReconnect, CheckFails, Enter, ShowSuccess,
           ConnectWithCode, Dial, GiveUp, Receive, Auth, ReadAccount, FindPlan,
           Reject, LoseAnswer, vars, rows
  <1> QED
    BY <1>1, <1>2, <1>3, <1>4, <1>5, <1>6, AcceptIsOfLease

(* A code is a lease of one device: the page, the retransmitted logins and  *)
(* the overlapping handlers implement Lease.                                *)
THEOREM KeepsTheLease == Spec => LeaseKept
  <1>1. AccessInv /\ Lone /\ [Next]_vars => [Promise!Next]_(Promise!lvars)
    BY LeaseNext DEF Promise!lvars
  <1> QED
    BY <1>1, AccessInit, AccessNext, LoneInit, LoneNext, LeaseInit, PTL
    DEF Spec, LeaseKept, Promise!Spec
=============================================================================
