# Verification of Echo billing

Echo billing sells internet access on MikroTik routers: hotspot vouchers and
PPPoE subscriptions, paid through Pesapal, authorised by a RADIUS service,
run from an admin console. This directory holds TLA+ models of it, the TLC
configurations that check them on small instances, and TLAPS proofs.

`PROJECT.json` lists, for every definition, the lines of `src/` it stands for,
and the runs, mutants, hazards, findings and theorems. In the modules a
definition whose comment says "for mutation" is a plausible bug in the code
next to it, which a run must catch.

## 1. The system

| component | state it keeps | operations | where | module |
|---|---|---|---|---|
| Purchase | `transactions`, `customers`, Pesapal's order | `initiatePurchase`: upsert, insert, order, tracking id | `supabase/functions/_shared/purchase.ts`, `pesapal.ts` | Fulfillment |
| Fulfilment | `transactions`, `vouchers`, `pppoe_accounts`, receipts | `reconcileTransaction`, run by the webhook, `/status`, `/resume`, `/return` and the sweep | `_shared/fulfillment.ts`, `portal-api`, `pesapal-ipn`, `reconcile-pending` | Fulfillment, Payment |
| Pesapal client | a token per isolate, the credentials and `pesapal_ipn_id` of the organization | token, IPN registration, order, status query, change of the credentials | `_shared/pesapal.ts`, `_shared/http.ts`, `settings/payments/page.tsx` | PesapalClient |
| Captive portal page | intervals, what the buy panel shows, scheduled logins | buy, poll, recover, log in | `apps/captive-portal/src/main.js` | Portal |
| RADIUS authentication | `vouchers`, `pppoe_accounts`, the page's stored code | claim, reconnect, PPPoE login, automatic reconnect | `radius-service/src/{db,radius-auth}.js`, `main.js` | Access |
| RADIUS accounting | `active_sessions`, `session_history` | Start, Interim-Update, Stop | `radius-service/src/{db,radius-acct}.js` | Accounting |
| Devices | `mikrotik_devices`, the router's own identity | register, issue an identity, fetch, heartbeat, sweep, delete | `provisioning-*`, `heartbeat`, migrations 0003, 0004, 0010 | Provisioning |
| Devices page | the table, the setup panel, the panel of allowed addresses, a dialog, an interval | every click, request and poll | `apps/admin/.../devices/page.tsx` | DevicePage |
| Router script | the router's configuration, its bindings, the file of the last pull | set up again over an older set-up, self-check, schedulers | `_shared/router-template.ts` | RouterSetup |
| IP allowlist | `ip_allowlist`, the router's bindings | add, remove; pull and replace | `devices/page.tsx`, `ip-bindings-sync` | DevicePage, RouterSetup |
| WireGuard hub | its peer list | bootstrap, the periodic peer sync | `radius-service/src/wireguard.js` | Provisioning |
| Team | `organizations`, `admin_users`, the auth users, `audit_log` | sign up, add, remove, change a role | `org-bootstrap`, `admin-*`, migration 0002 | Team |
| Console: payments | the live table, two dialogs, the policies of the tables | load, refund, compensate with a voucher | `transactions/page.tsx`, migrations 0001, 0004, 0005, 0007 | Refunds |
| Console: the rest | one row per form | plans, vouchers, subscribers, themes, settings, charts | `apps/admin` | not modelled (section 7) |
| Notifications, SMS, email | `notifications`, provider calls | a trigger per outcome, one receipt per payment | migrations 0004, 0005, `_shared/` | in Refunds, in Fulfillment |

How they interact. The page calls `portal-api` over HTTP and the router by a
form; the router asks `radius-service` over UDP, inside a WireGuard tunnel
that `radius-service` keeps open for the devices in the database. The edge
functions and `radius-service` share one Postgres and nothing else: they meet
in `vouchers` (issued by the fulfilment, claimed by RADIUS, looked at by
`check-voucher`), `pppoe_accounts.expires_at` and `mikrotik_devices`. The
console reads and writes the same tables under row-level security and calls
functions for what it may not do itself; a router fetches its script, sends
heartbeats and pulls its allowlist with a token. Pesapal calls a webhook, or
does not. Two cron jobs sweep, the payments every minute and the devices every
five.

What is hard, and what makes each part correct:

- **Fulfilment.** Five entry points run one function over one row, with an
  await between any two calls, on isolates that may be cut off. A payment must
  be settled once, bring one voucher and one receipt, extend a subscription by
  no more than was paid, and not be forgotten when no customer and no webhook
  returns.
- **Pesapal client.** A cache that knows neither whose token it holds nor that
  the credentials changed, requests that take up to their timeout, two first
  purchases that register at once. A token must outlive the requests it is used
  for, and an order must name an id that Pesapal knows.
- **Portal page.** Polls overlap; answers are late, lost, reordered, and meant
  for an interval or a page that is gone. Success and a login must belong to a
  settled payment that this page was told to follow. Whose phone is typed into
  the recovery form, nobody checks.
- **Authentication.** Requests are retransmitted, handlers overlap, the rule
  for a valid code is kept in two places, a browser resubmits a code by
  itself. A code must serve one device and a bounded time.
- **Accounting.** The acknowledgement precedes the work, so what fails is not
  repeated; a Stop may be overtaken. No session may vanish or count twice.
- **Provisioning and hub.** An address is picked in one request and stored in
  another, results are not looked at, lists are stale when applied. A router
  must not be taken for another.
- **Router script.** It is imported over whatever an earlier run left, of the
  same device, of an older identity, of another device; the power may go and a
  fetch may fail at each section. A run that ends must leave no trace of
  another identity, and the allowlist must arrive.
- **Devices page.** One panel serves every device, and answers are applied
  to what the page shows when they come. What is copied must be of the device
  it stands under, and a linked router is not cut off without a warning.
- **Team.** A check and the write it protects are two requests; an account and
  its row live in two systems. An organization must keep an owner and nothing
  may be left behind.
- **Refunds.** A function of the database runs with the rights of its caller:
  some statements then fail and undo the rest, others change nothing and say
  nothing.

## 2. The modules

Every await in the code is a boundary between two actions; everything between
two awaits is one action, with all it changes. SQL statements, and functions
in the database, are one action each. Errors that the code catches, and those
it does not look at, are alternatives of the action or actions of their own.

**`Fulfillment`** has one slot per concurrent invocation (`call[w]`), bound to
an entry point by the constant `Entry`. `InsertTxn`, `SubmitOrder`,
`SaveTracking` are the steps of `initiatePurchase`; `IpnStart`, `StatusStart`,
`ResumeStart`, `ReturnStart`, `SweepStart` read the row as their handlers do;
`Query`, `Claim`, `Reject`, `Wait`, `IssueVoucher`, `LinkVoucher`,
`ReadAccount`, `WriteAccount`, `Dispatch`, `Respond` are the steps of
`reconcileTransaction`, and `SendReceipt` the background task. `Crash`,
`QueryFails`, `IssueFails` and `LoseReceipt` are what may fail, and `Flip` is
Pesapal's false "Failed". The row's columns are functions of the transaction,
`ext` is Pesapal's own truth.

**`Payment`** is what fulfilment promises, with no invocations in it: opened
once, settled once, completed only if paid, granted one voucher.
`Fulfillment!PromiseKept` is the refinement.

**`Portal`** extends `Fulfillment` with the page (`polls`, `panel`, `timer`,
`online`) and a network of answers. Its `Poll` and `Recover` start an
invocation of `Fulfillment`, `Answer` sends its response, `ReceiveStatus` and
`ReceiveResume` are the page's callbacks, `Login` the form it submits. A page is
named after the phone that its customer buys with, but `Recover` takes any
phone, because the form does and `/resume` authenticates nothing; the history
variable `asked` has the payments that the page was told to follow since it was
loaded. Each interval has an id of its own: two may follow one payment, and an
answer clears only the interval that asked for it.

**`PesapalClient`** opens up what `Fulfillment` takes as one call: the cache of
each isolate (`CachedToken`, `RequestToken`, `IssueToken`, `StoreToken`), the
lazy registration (`RegisterIpn`, `PersistIpn`), which may be answered without
an id, `SubmitOrder`, `GetTransactionStatus`, a request that is refused or
aborted by its timeout, and `SaveSettings`, which replaces the credentials
meanwhile. Time is counted in
timeouts of a request. All ages count down and stop at zero, so that the clock
needs no bound.

**`Access`** holds vouchers from their issue on: what `claimVoucher`'s WHERE
clause accepts (`Claimable`), what `check-voucher` accepts (`Valid`), the
handler's awaits (`Claim`, `ReadAccount`, `FindPlan`, `Accept`, `Reject`), the
router that retransmits and gives up, the sessions it opens, the page's stored
code and its automatic reconnect. A handler whose router has stopped waiting
still claims what it was asked to (`ClaimLate`).

**`Lease`** is what a code promises, with no requests in it: it is issued, its
lease begins with the first redemption (`Begin`), is held by one device from the
first redemption that names one (`Hold`), and lets that device in (`Enter`)
until it is over. A step `Enter` says in one place what the router, the handler
and the database have to get right between them. `Access!LeaseKept` is the
refinement: `voucher` is the lease, `OnCodes` who is online with a code.

**`Accounting`** has the sessions on the router, the packets, the handlers
(`device`, `type`, `upsert`, `stop`) and the two tables. The history variables
`recorded` and `orderly` say which sessions ever had a row, and which were
neither disturbed nor overtaken.

**`Provisioning`** joins the console's requests, `provisioning-script`
(`ReadDevice`, `NextAddress`, `StoreIdentity`), the router (`RunScript`,
`Heartbeat`), the sweep and the hub (`ListPeers`, `ApplyPeers`, `Restart`). The
history variable `overlapped` says whether two calls were ever between picking
an address and storing it, and whether they picked the same one.

**`RouterSetup`** is what happens on the router. `Sections` are the script's in
their order and `Section` runs the next: it adds what is missing
(`AddIfMissing`), sets a value (`SetTunnel`, `SetRadius`, ...), keeps what it
finds (`AddPeer`), or fetches (`FetchFiles`, `FirstBeat`), until `SelfCheck`
prints its verdict. `Import` starts any script ever shown, `PowerCut` ends what
runs, and the two jobs that pull the allowlist may overlap (`FetchList`,
`StoreFile`, `ImportBindings`): each writes the one `file` and imports what it
then holds. `Issue`, `DeleteDevice`, `Redeploy` and `EditList` are what
happens at the console and the hub.

**`DevicePage`** is the page of one admin. A click sends a request (`Generate`,
`OpenIpList`, `AddIp`, `DeleteDevice`, ...), `Serve` is the database's or the
function's answer, `Deliver` the callback that applies it to whatever is shown
by then, `Copied` the end of a write to the clipboard, `Poll` the interval that
waits for a router. A request may fail before its effect or after it
(`RequestFails`), and `provisioning-script` answers with an identity that was
not stored when the update fails (`StoreIdentity`). `Around` is everything the
page does not do: routers that check in or fall silent, another admin. `mixed`
remembers which panel an earlier call may still write to, `told` who was warned
of.

**`Team`** has the sign-up page per would-be account and one slot per call of an
`admin-*` function: `LookUpTarget`, `CountOwners`, `DeleteRow`, `DeleteTarget`,
`StoreRole`, `Audit`, `CreateUser`, `InsertAdmin`, `Rollback`. The references
between the tables are part of it: a row that `audit_log` or `vouchers` refers
to cannot be deleted (`RowCanGo`), and an account takes its row along.

**`Membership`** is what the team page promises, with neither calls nor
accounts: one organization is founded, people join it once and leave it for
good, and a change leaves an owner unless changes overlap. `Team!MembershipKept`
is the refinement.

**`Refunds`** is the payments page: the live table that a realtime event loads
again, the two dialogs, and the functions they call (`RefundTransaction`,
`CompensateTransaction`) under the `Policies` that the migrations give an
administrator.

`FulfillmentProofs` (with those of `Portal`), `PesapalClientProofs`,
`AccessProofs`, `AccountingProofs`, `ProvisioningProofs`, `RouterSetupProofs`,
`DevicePageProofs` and `TeamProofs` hold the theorems (section 5). The modules
`MC...` give the constants of a module names for TLC; the values are in the
`.cfg` files.

## 3. The runs

| run | what it asks | instance and bounds |
|---|---|---|
| MCRace | Is each payment settled once, with one voucher and one receipt, is none left behind but by a fault, is no renewal unpaid, does a false "Failed" that is taken back in time cost nothing, and is every behaviour one of `Payment`? | one hotspot and one PPPoE payment of one customer; webhook, poll and sweep; one crash, lost write or false "Failed"; clock 0..1 with a grace of 0 |
| MCSweepLive | Is a paid payment completed when only the cron is left? Does a claim that is not cut off deliver? | one payment; sweep, return page and recovery form; two faults of the kinds timeout, crash, lost write; clock 0..2 |
| MCPortal | Do success and logins belong to settled payments that the page was told to follow? Does a customer who keeps trying get online? | a page that Pesapal's callback has just loaded, of a customer who paid or failed to, beside one who has a code already; one poll and one recovery at a time, any phone in the form, two intervals per page, two answers under way, lost and reordered, one request to Pesapal that times out |
| MCPesapal | Does a token outlive its requests, do replaced credentials die out, does an order name a registered id? | two invocations in one isolate, a sandbox and a live account, one change, two registrations, one fault (a refusal, or a registration answered without an id); the request timeout is 1 tick, the buffer 2, the assumed life 3, the real one 4 (in the code 15 s, 30 s, 4 minutes and "several": the proofs cover all values in that order) |
| MCAccess | One device per code; how much time at most; does check-voucher agree with RADIUS; is every behaviour one of `Lease`? | one code on two phones, one PPPoE client, two handlers, one database error, plans of two and one units, clock 0..3 |
| MCAccounting | Does no recorded session vanish or count twice, and is the archive permanent? | one session, three handlers, one resent packet, one fault, counters that wrap |
| MCProvisioning | Do addresses differ, is a router never taken for another? | two devices, two calls, one router, one sync, two addresses, three keys, one fault |
| MCHub | Does the hub end up with the rows' peers, is a silent device noticed? | two devices, one call, two overlapping syncs, two keys, one fault |
| MCRouterSetup | Does a run of the script leave nothing of another identity, does one end at last, does the list arrive? | two devices, one of them edited and deleted, one address, two identities, two hubs, two jobs that share a file, one power cut or failed request, a router with or without defaults |
| MCDevicePage | Is what a panel shows of one device, is a cut-off announced, is a new link noticed? | two devices, one of them new, two requests, three clicks, one write to the clipboard at a time, two changes around the page, two keys, one request that fails, loses its answer or does not store |
| MCTeam | An owner, no leftovers, every removal on record, and is every behaviour one of `Membership`? | three accounts, two of them signing up at once, two calls, one fault |
| MCRefund | Is the voucher issued that the dialog promises? *It is not.* | two payments, two loads, one fault |

**The finding.** MCRefund ends in a counterexample. The dialog of the payments
page says that it "issues a free voucher for the same plan"
(`transactions/page.tsx:332-334`). The function behind it
(`0007_audit_log_wireup.sql:97`) runs with the rights of its caller and inserts
into `vouchers`, `notifications` and `audit_log`; no policy lets a member insert
into the last two (`0004:32-38`, `0001:328`), so each call raises and the
voucher is undone. For the same reason no refund can succeed.

Five other statements of the repository that the code does not keep have no run
of their own. Each is an alternative that the passing runs contain:

- the isolate ends between the claim and the voucher: completed, nothing
  granted, and no entry point looks again, although
  `reconcile-pending/index.ts:1-3` promises a net for every trigger that did
  not run to completion (`CompletedGetsVoucher` starts after the last fault);
- a row recorded as failed is never asked about again, although
  `fulfillment.ts:97-100` says that the sweep "keeps checking regardless"
  (`PaidIsCompleted` speaks of pending rows);
- two payments fulfilled at once extend an account by one plan
  (`fulfillment.ts:63-77`), although `functions/README.md:7` says of a confirmed
  payment that it is fulfilled (`NeverMoreThanPaid` is an upper bound only);
- two calls of `provisioning-script` may hand out one address, although
  migration `0003:3-7` has moved the choice "into a locked, atomic function":
  the lock ends before the address is stored (`AddressesDiffer` has a premise);
- `radius-service/README.md:99-100` says that the peer sync is additive and
  leaves the peer of a deleted device. `wireguard.js:62-78` removes it, which is
  what `ApplyPeers` does and `HubSettles` relies on: the note is out of date.

**Why these bounds.** Each hazard needs few parties: a race over one row needs
two invocations, a third shows that nothing changes behind their backs; a
second payment of the same customer shares the account and a second customer
must not get the first one's code. One fault of a kind meets every other step,
because it may happen at each of them. The clock needs the values before, at
and after a limit. `NeverMoreThanPaid` needs two payments and a tick between
the read and the write. In `Accounting` three handlers let a late
Interim-Update, a Stop and a resent Stop overlap. In `Provisioning` the third
key lets a router run with an identity two generations old, and the address
range is one that fills up. `MCPortal` starts from a state that `Portal` reaches,
when the interesting part begins: the other payment is settled, so that each
page can be told to follow what is not its customer's; two intervals are enough
for an answer to come for the wrong one, two answers for one to overtake. In
`RouterSetup` the second device and the second
identity are the two ways to find someone else's settings on a router, and the
second hub is the one whose key changed. In `DevicePage` two requests are
enough for one to overtake the other, and three clicks open a panel, send and
turn to another device. In `PesapalClient` a second account is what the
cache can confuse with the first. In `Team` the third account makes it possible
that two owners act on each other or on a third. What the bounds cut off is
repetition: the fourth retransmission, the third fault. The theorems have no
bounds at all.

**Deadlock** is checked in MCPesapal and MCRefund, where something can always
go on. In the other models the outside may stop (customers stop buying,
sessions end, clicks, account ids and keys of the instance run out), and the
sources have no lock that could be held for ever.

**Symmetry** is used in safety runs only: interchangeable codes, invocations,
handler slots, phones, devices, accounts.

## 4. Fairness

- `Fulfillment!FairSpec`: a started invocation goes on, queued background work
  runs (`waitUntil`), pg_cron starts the sweep. Nothing makes a customer buy,
  pay, poll or return, nor Pesapal call the webhook. `CronKeepsUp` says that a
  clock unit does not pass while a due sweep is not done: the unit stands for
  more than the minute between two sweeps, and the window the sweep looks back
  is two hours. Crashes are bounded, which is the usual assumption that not
  every run is cut off.
- `Portal!Persistent` is about a customer who keeps typing their own phone into
  the recovery form over a network that sometimes delivers, and does not reload
  before every answer: strong fairness on these, and `InvocationsEnd`, weak
  fairness on the platform. MCPortal assumes it of the payer only. It is the
  premise of `RecoveryConnects`, not a claim about customers.
- `Provisioning!FairSpec`: `setInterval` keeps syncing, pg_cron keeps sweeping,
  time passes, a started query ends.
- `RouterSetup!FairSpec`: `RouterIsOn` is weak fairness on the import and on the
  steps of a pull (fetch, file, import), which RouterOS runs by itself. `Paste`,
  strongly fair, is an admin who wants the router set up and pastes a script
  again until one has run to its end.
- `DevicePage!FairSpec`: requests are answered or fail and answers are applied;
  the interval fires again and again, also when polls fail in between. Nothing
  makes the admin click.
- Access, Accounting, Team, PesapalClient and Refunds state safety only.

## 5. What is proved

Every safety property, action property and refinement of a passing run is also
a theorem: for any numbers of payments, codes, customers, devices, sessions,
invocations, clock values and faults, under the named assumptions on the
constants alone. Theorems that state no property of a run are the type and
inductive invariants, that `Portal` is `Fulfillment` with pages
(`PagesAddNothing`), those that a property of a run implies
(`OneVoucherPerPayment`: `PromiseKept`; `FirstRedemptionCounts`: `LeaseKept`;
`RemovedNeverReturns`: `MembershipKept`), and two that are half of a liveness
property (`HubConverges`, `ListsConverge`), which TLC checked before they were
proved.

**`FulfillmentProofs`** (`DataAssumption`, `TimeAssumption`, `FaultAssumption`)

| theorem | says |
|---|---|
| `TypeCorrect`, `Invariance` | `TypeOK`, and `IInv` in every reachable state |
| `OneVoucherPerPayment`, `OnlyPaidVouchers`, `LinksAreRight` | a payment has at most one voucher, only if paid, and its link is right |
| `OneReceiptPerPayment`, `ReceiptsNameTheirVouchers` | one receipt, and it names the code that was inserted |
| `TakenBackInTime` | `FalseNegativesHeal`: a false "Failed" that is taken back in time costs nothing |
| `OutcomesAreFinal`, `LinksAreFinal` | an outcome and a link are never replaced |
| `RenewalsArePaid` | an account is never further ahead than its completed payments bought |
| `FaultsCostOneEach` | `EveryFaultCostsOne`: each fault leaves one completed payment at most without its linked voucher or its receipt, and nothing else does |
| `KeepsThePromise` | `Fulfillment` implements `Payment` |

*The argument.* "At most one voucher" does not survive a step by itself: in a
state where two invocations are about to insert one for the same row, it holds
and the next two steps break it. `IInv` adds why that cannot be reached. The
claim is an UPDATE on a pending row, so of the invocations that pass the early
return one wins; from then to its receipt it *holds* the payment (`Holds`).
`HoldersWon` says that a held row is completed, has one holder and no receipt
yet; `HoldersAreFirst` says that a holder about to insert finds no voucher, and
one about to link holds the code it has just inserted; `AnswersAreTrue` carries
what Pesapal said over the await to where it is used; `CompletedIsPaid`,
`ReceiptsAreCompleted`, `NotBoughtIsAbsent` and `PastIsPast` tie rows, Pesapal,
receipts and the clock together. Preservation by each action is a lemma, grouped
into the steps that leave the database alone (`InvEnter`, `InvRelease`,
`CallOnward`) and those that do not (`InvClaim`, `InvReject`, `InvIssue`,
`InvLink`, `InvAccount`, `InvDispatch`). The action properties and the
refinement follow from `IInv` and one step: a claim is `Payment`'s `Complete`,
an insert its `Grant`, all else one of `Open`, `Pay`, `Fail` or a stutter.

Three theorems need more. That a receipt names its voucher: `CodesAgree` follows
the code through the holder, the queued job and the sent receipt. That renewals
are paid is a bound on a sum over overlapping read-compute-write windows:
`RenewInv` compares an account's expiry with the completed payments *without*
those whose renewal is still in flight (`Done`), and the value an invocation has
computed with those and its own. A write then leaves one payment more done,
and cannot leave the account more than one plan further ahead. It also says that
the sets it counts are finite, which cardinalities need. That a fault costs one
payment: `Forgotten` is the set of the completed payments that no invocation is
on its way to finish. `Costs` says of a step that either nobody joins the set,
or one payment does and the step is a fault. The claim puts its winner in charge
of what it completes (`ClaimCosts`), a step onward keeps it in charge until the
link, the job or the sent receipt takes its place (`OnwardCosts`), and what a
cut-off invocation loses sight of is what it held (`FaultCosts`): one payment,
also of a sweep, whose other rows are still pending.

For **`Portal`**, in the same module (`PortalAssumption` as well)

| theorem | says |
|---|---|
| `PagesAddNothing` | `PortalSpec` implies `Spec`: seen without its pages, the composition is `Fulfillment`, and all of the above holds of it |
| `PagesKeepThePromise` | the composition implements `Payment` |
| `PaidLogins`, `PaidSuccess` | `LoginsArePaid`, `SuccessIsPaid`: a page logs in, and shows success, only for completed and paid payments that it was told to follow since it was loaded |

*The argument.* Every step of the composition is a step of `Fulfillment` or
leaves its variables alone (`PortalIsFulfillment`, which needs the page's types:
a poll asks for a payment), so `IInv` carries over. An
answer was true when it was given, by `LinkedToItsVoucher` and
`VouchersArePaid`; outcomes and issued codes are for good (`ForGood`), so what a
late answer says of them still holds (`OutOfDateAtWorst`), however many others
it was overtaken by. `OwnCalls` says that a call that answers a page keeps to a
payment that this page has asked about since it was loaded (`asked`): who left or
reloaded a page hears nothing of what it asked for.

**`PesapalClientProofs`** (`PesapalAssumption`)

| theorem | says |
|---|---|
| `PesapalTypeCorrect` | `PesapalTypeOK` |
| `TokensOutliveRequests` | `NeverExpiresMidFlight` |
| `ReplacedCredentialsDieOut` | `OldCredentialsDieOut` |
| `OrdersNameTheirIpn` | `OrdersAreAnnounced` |

*The argument.* `PesapalInv` relates the ages: a cached token lives for the
buffer longer than the cache hands it out (`CacheOK`), one in use outlives its
request by another timeout (`InTime`), and whoever read the old credentials asks
for a token within a timeout (`Punctual`). What an order names is registered or
stands for an answer without an id (`Nameless`). The properties hold for any timeouts
with `2 * Timeout <= Buffer` and `DefaultLife + Timeout <= Life`, which is what
the constants of `pesapal.ts` have to be chosen for.

**`AccessProofs`** (`AccessAssumption`)

| theorem | says |
|---|---|
| `AccessTypeCorrect` | `AccessTypeOK` |
| `OneDeviceOnly` | `OneDevicePerVoucher` |
| `PaidTimeIsBounded`, `PppoeIsBounded` | `PaidTimeAtMostTwice`, `PppoeEndsSoon` |
| `RulesAgree` | `NeverTurnedAway` |
| `FirstRedemptionCounts` | the time and the device of a redemption are never replaced (`RedemptionStep`) |
| `KeepsTheLease` | `LeaseKept`: `Access` implements `Lease` |

*The argument.* `AccessInv` follows a login through the handler: one that is
about to be accepted is backed by a row that was good no earlier than the router
sent it (`Backed`; a handler that claims late backs nobody), a router waits for
a limited time (`Waits`), so what a session was opened with (`Lasts`) is at most
the router's timeout behind the row. The refinement maps a claim to `Begin`,
`Hold` or a stutter, by what the row was before, and the router's acceptance to
`Enter`, which `Backed` and `Waits` allow: the login was backed by a row whose
device is the caller's, no longer ago than the router waits. It needs one more
invariant, `Lone`: who is online neither waits for an answer nor looks at the
portal, so an acceptance opens the network to somebody who was off it. The
instance of the run has routers that always send a MAC address, so there `Hold`
never happens; the theorem covers both values of `MacMayBeMissing`.

**`AccountingProofs`** (`AccountingAssumption`)

| theorem | says |
|---|---|
| `AccountingTypeCorrect` | `AccountingTypeOK` |
| `RecordedStay`, `DeletedDevicesAreGone` | `NeverInNeither`, `DeletedIsGone` |
| `TrailIsPermanent` | `HistoryIsPermanent` |
| `OrderlyIsExactAlways` | `OrderlyIsExact` |
| `UseIsCountedOnce` | `UseIsNotInflated` |

*The argument.* The first two are inductive together; the third is a fact about
one step, since `MoveRow` only appends. `UseInv` says that no packet claims more
octets than went through when it was built, and for an orderly session that
one packet at a time is under way (`Alone`) and the last is its Stop
(`Stopping`). The sum that the customers page makes is a fold over the archive,
and what a fold returns for every sequence is a fact by induction over data,
which the provers cannot do. It is not needed: an orderly session is archived
once at most, so `ReportedOfOne` unfolds the fold over one row, by showing that
a function that unfolds as it does exists.

**`ProvisioningProofs`** (`ProvisioningAssumption`)

| theorem | says |
|---|---|
| `ProvisioningTypeCorrect` | `ProvisioningTypeOK` |
| `AddressesAreApart` | `AddressesDiffer` |
| `RoutersAreKnown` | `NeverMistaken` |
| `HubConverges` | the safety half of `HubSettles` (`HubStep`) |

*The argument.* An address is one more than the largest stored, a maximum that
the library's theorem on well-founded minima gives for a set of any size.
`Apart` says that stored addresses and those about to be stored differ, as long
as no two calls picked the same one. `InTurn` says that what a lone call is
about to store is above everything stored. Hence addresses only grow, and
`HandedOut` can say of every identity a router may still run: while its key is
known to a row, the hub or a list under way, its address is not above its own
device's and is nobody else's (`Fits`).

`HubStep` is about the steps that change no row and fail in nothing. The syncs
that hold an outdated list only get fewer, any other sync that applies its list
settles the hub, and a settled hub stays so once no outdated list is under way.
That keys are the rows' own (`KeysApart`) is what makes a list determine the
peers. What is left of `HubSettles` for TLC is that such a sync runs.

**`RouterSetupProofs`** (`SetupAssumption`)

| theorem | says |
|---|---|
| `SetupTypeCorrect` | `SetupTypeOK` |
| `AlwaysEndsAsFresh` | `EndsAsFresh` |
| `ListsConverge` | the safety half of `ListArrives` (`ListStep`) |

*The argument.* `SoFar` says what a run that is past its k-th section has left
on the router, and no later section of the run, and nothing else on the router,
undoes it. `OneHub` explains the peer (while there was one hub, there is one key
to know), `Served` the DHCP server (there is one unless a run was cut off
before it), and `PullsInTurn` that the setup's own pull is a section among the
others. Hence the setup pulls with the token that it has just put on the router
(`PullsForItsDevice`), which `ListStep` needs: on a router that pulls for a
device whose list stays, the answers of another list still to be written only get
fewer; once there is none and the file is the device's (`FileIsOf`), it stays so,
every import brings that list, and nothing replaces it afterwards.

**`DevicePageProofs`** (`DevicePageAssumption`)

| theorem | says |
|---|---|
| `DevicePageTypes` | every variable in its range, every answer of the kind its handler reads |
| `PanelsKeepToOneDevice` | `PanelsAreOfOneDevice` |
| `LinkedAreWarnedOf` | `CutOffIsAnnounced` |

*The argument.* What a panel shows is applied by an answer, so the invariants
are about the answers to come. `SetupInv`: "Generating" is shown only while one
is; unless the setup panel is mixed up there is one request of its kind, for the
device that the panel is open for, what is on it is of that device once the
request for a new identity is answered, and what is being copied is of it too.
`ListInv`: of the panel of addresses there may be several requests, all for the
device it is open for. `Warned`: a request goes on past a linked router only if
its admin confirmed, and the dialog that confirms is shown only with the
warning.

**`TeamProofs`** (`TeamAssumption`)

| theorem | says |
|---|---|
| `TeamTypeCorrect` | `TeamTypeOK`, with the references between the tables |
| `KeepsTheMembership` | `MembershipKept`: `Team` implements `Membership` |
| `RemovedNeverReturns` | who left stays away (`RemovedStaysRemoved`) |
| `AnOwnerRemains` | `OwnerRemains`: one organization, and an owner as long as changes do not overlap |
| `NoAccountIsOrphaned`, `RemovalsAreRecorded` | `NoOrphanAccounts`, `RemovalsAreOnRecord` |

*The argument.* That a removed teammate stays removed rests on two kinds of
accounts being kept apart: those that `NewAccounts` says are still under way to
their row (none was ever a member, and no two calls add the same one), and those
of `OldAccounts`, which alone a call that has looked its target up can change or
remove. That an owner remains needs the window between the count and the write:
`OwnersAreLeft` says that every call about to take an owner away has another
one to leave behind, unless changes overlapped; one write at a time cannot break
it for another, because a second call in the window is what `raced` records.
`AccountsAreMinded` and `RemovalsAreMinded` follow each account without a row and
each removal to the call that will finish it; the second needs that the
caller still has the row that the audit entry must name.

The refinement maps the deletion of a row to `Remove`, the role update to
`ChangeRole`, the inserts to `Found` and `Join`; the rest is not visible. A
deletion of an account is not either, because it takes away only accounts whose
row is gone (`DeletionsAreHidden`). `Membership` asks of a change that an owner
is left *after* it: that is `OwnersAreLeft`, read for the call that has just
written.

**Only model-checked.** The liveness properties (`PaidIsCompleted`,
`CompletedGetsVoucher`, `RecoveryConnects`, `HubSettles`, `SilentIsNoticed`,
`SetUpEnds`, `ListArrives`, `LinkIsNoticed`), because the prover treats neither
fairness nor ENABLED; of two of them the safety half is proved. And the finding,
which is a counterexample.

## 6. What the properties say where the code promises less

Some properties carry a premise, each for a reason in the code:

- `AddressesDiffer`: unless two calls picked the same address before either
  stored it.
- `NeverMistaken`: unless two calls were at that point at once at all. The later
  of them may store the lower address, and a router that still runs the identity
  before it keeps an address that is then free for the next device.
- `OwnerRemains`, `RemovalsAreOnRecord`: as long as two team changes do not
  overlap. When they do, two owners can remove each other, because the count
  and the write are separate requests.
- `NoOrphanAccounts`, `RemovalsAreOnRecord`: unless a call is cut off or a
  deletion fails, since those results are not looked at.
- `OrderlyIsExact` and the sums in `UseIsNotInflated`: for sessions whose
  packets arrive once and in order; a resent Stop is archived twice.
- `FalseNegativesHeal`: when Pesapal takes its "Failed" back within the grace, or
  before anybody gave the row up. A "Failed" that outlasts the grace costs the
  payment, although the prompt may still be open, and so does one that was
  fetched inside the grace and is accepted after it: what "keeps checking
  regardless" (`fulfillment.ts:97-100`) promises ends with the row's "failed".
- `ReceiptNamesItsVoucher`: of codes that were stored. After a failed insert the
  receipt names a code that does not exist.
- `NeverMoreThanPaid`: from above only. Overlapping renewals lose one.
- `LoginsArePaid`, `SuccessIsPaid`: for payments that the page asked about, not
  for the customer's own. Whoever types a phone is shown the code of its latest
  payment and logs in with it; that a code serves one device is `Access`.
- `OneDevicePerVoucher`: when the router sends MAC addresses, as the setup
  script configures it.
- `PaidIsCompleted`: for rows whose tracking id was stored, inside the window.
- `NeverExpiresMidFlight`: not for the order behind a registration of the IPN
  URL, which a database write of any length precedes.
- `OldCredentialsDieOut`: after `Afterlife`, the time for which a token of
  theirs may still be in a cache; until then calls with new credentials carry
  it.
- `OrdersAreAnnounced`: the id is of the order's own account while the
  credentials are left alone. The id that is stored outlives a change of them.
  A registration answered without an id (`pesapal.ts:93-96` looks at the status
  only) sends its own order out without one.
- The timeouts of `PesapalClient` reach to the headers of an answer; reading the
  body has no limit in the code (`http.ts:12`), and is taken as part of it.
- `EndsAsFresh`: the peer is only added, so that of a redeployed hub stays away;
  the DHCP server is missing if a run was cut off between the bridge address and
  it, since the address is taken as the sign of it.
- `PanelsAreOfOneDevice`: not while an answer to an earlier click, or a write to
  the clipboard, may still come, nor after an identity could not be generated
  (`mixed`). A one-liner can then stand under another device's name.
- `ListArrives`: in the end. A pull whose query failed empties the bindings until
  the next.
- `NeverInNeither`: from the first packet that was stored.
- `CutOffIsAnnounced`: unless the router checked in after the function had
  looked at its status.

Hazards that no property is about, besides those that `PROJECT.json` lists with a
note only:

- the tracking id is stored by a second write whose error is not looked at
  (`purchase.ts:93`): without it no entry point can settle the payment;
- the page stops at "completed", which is set before the code is linked
  (`main.js:186`), and then shows a dash; the recovery form helps;
- a stored code that is bound to another phone is sent round and round between
  page and router (`main.js:328`);
- a heartbeat of the identity before a regeneration links the device again
  (`heartbeat/index.ts:31`);
- a teammate who ever made a voucher or changed a role cannot be removed
  (`admin-remove-user/index.ts:51`; the references in migration 0001 have no
  `on delete`);
- only owners may update the organization (`0001:299`), and an update that no
  policy lets through is no error: staff who save credentials change nothing.

## 7. What is not modelled

- Layout and wording; CHAP, MD5, bcrypt and key generation (a login is "good" or
  not, a key is its number); the RADIUS rate limit and plan speeds.
- The texts of RouterOS commands and the firewall rules: a section of the script
  is what it adds, sets or leaves.
- The console's other pages are forms that store one row and charts that
  read many: no state of their own beyond the form, no second request that
  depends on a first. Its shell is the auth library's session.
- Accounts made directly with the auth service instead of on the sign-up page
  (`NoOrphanAccounts` is about the page and the team functions).
- SMS and email providers, beyond whether a receipt was sent; the bell's and the
  notification page's "read" marks, one update each.
- The caches of `/theme` and `/plans` in the page, which only save a request.
- The landing page, shared styles and drawings, the read-only diagnosis script.

`PROJECT.json` gives the reason part by part.

## 8. The plan

Done: the core (`Fulfillment`, `Payment`), the parts that share its tables
(`Portal`, `Access`), the independent ones (`Accounting`, `Provisioning`,
`Team`), then the router, the Pesapal client and the console
(`RouterSetup`, `PesapalClient`, `DevicePage`, `Refunds`), the abstract
specifications `Payment`, `Lease` and `Membership`, and the proofs of every
safety property and refinement.

What is left, in this order:

1. the safety halves of the other liveness properties, as for the hub and the
   allowlist: what a sweep that reaches a payment leaves of it, what brings a
   customer who keeps trying nearer to the network;
2. of `Refunds`, that no call of the two functions changes anything for an
   administrator, whatever the loads and events interleave;
3. the page's stored code (`Access`) and its polling (`Portal`) in one module,
   with a customer who returns to the hotspot while a payment is open;
4. the notification triggers of the devices, one notification per outage.
