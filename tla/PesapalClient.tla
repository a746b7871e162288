--------------------------- MODULE PesapalClient ---------------------------
(***************************************************************************)
(* The Pesapal client of the functions.  A purchase asks for a token, lets *)
(* the IPN URL be registered if the organization has no IPN id yet, and    *)
(* submits its order; a status check asks for a token and queries.  Tokens *)
(* are cached in the isolate, by organization only, until a while before   *)
(* they expire.  Admins may change the credentials at any time.            *)
(*                                                                         *)
(* An account stands for an environment with a key and a secret.  Time is  *)
(* counted in ticks of the timeout of a request; every age counts down, so *)
(* the clock has no bound.  Steps of the function itself take no time, the *)
(* database may take any.  A response is read as soon as it is there: the  *)
(* timeout covers a request up to the headers of its answer (http.ts:12),  *)
(* and the body is assumed to follow them at once.                         *)
(*                                                                         *)
(* Sources: _shared/pesapal.ts, _shared/http.ts, _shared/purchase.ts,      *)
(* _shared/fulfillment.ts, settings/payments/page.tsx.                     *)
(***************************************************************************)
EXTENDS Naturals, FiniteSets, FiniteSetsExt

CONSTANTS
    Accounts, NoAccount,
    Live,           \* accounts of the live environment, the others are sandbox
    Isolates,       \* warm instances of the functions
    Calls,          \* invocations under way at a time
    Life,           \* ticks a token is good for
    DefaultLife,    \* what is assumed when Pesapal names no expiry date
    Buffer,         \* TOKEN_SAFETY_BUFFER_MS
    Timeout,        \* of a request
    MaxIpns,        \* bound on the registrations
    MaxChanges,     \* bound on the changes of the credentials
    MaxFaults       \* bound on failing requests and queries, and answers without an id

ASSUME PesapalAssumption ==
    /\ NoAccount \notin Accounts /\ Live \subseteq Accounts
    /\ {Life, DefaultLife, Buffer, Timeout, MaxIpns, MaxChanges, MaxFaults} \subseteq Nat
    /\ Timeout > 0 /\ 2 * Timeout <= Buffer /\ Buffer <= DefaultLife
    /\ DefaultLife + Timeout <= Life

VARIABLES
    org,        \* the organization's account and pesapal_ipn_id
    cache,      \* tokenCache of each isolate
    call,       \* invocations of the functions
    registered, \* IPN ids at Pesapal
    order,      \* the order that Pesapal accepted last
    since,      \* history variable: ticks since the old credentials were last in use
    changes, faults

pesapal == <<registered, order>>
bounds == <<since, changes, faults>>
vars == <<org, cache, call, pesapal, bounds>>

NoIpn == [account |-> NoAccount, no |-> 0]
Nameless(a) == [account |-> a, no |-> 0]    \* a registration answered without an id
NoToken == [account |-> NoAccount, life |-> 0]
Cold == [token |-> NoToken, left |-> 0]
Kinds == {"purchase", "status"}
Idle == [pc |-> "idle", kind |-> "none", at |-> CHOOSE i \in Isolates : TRUE,
         account |-> NoAccount, ipn |-> NoIpn, first |-> FALSE,
         token |-> NoToken, due |-> 0, late |-> FALSE]

(* How long a replaced account's token can still be handed out; `late' marks  *)
(* an invocation that was handed its token after that.                        *)
Afterlife == Life - Buffer + Timeout

Init ==
    /\ org \in [account : Accounts \cup {NoAccount}, ipn : {NoIpn}]
    /\ cache = [i \in Isolates |-> Cold]
    /\ call = [c \in Calls |-> Idle]
    /\ registered = {} /\ order = [account |-> NoAccount, ipn |-> NoIpn]
    /\ since = Afterlife + 1 /\ changes = 0 /\ faults = 0

Fault == faults < MaxFaults /\ faults' = faults + 1 /\ UNCHANGED <<since, changes>>
Moves(c, pc) == call' = [call EXCEPT ![c].pc = pc]
Ends(c) == call' = [call EXCEPT ![c] = Idle]

-----------------------------------------------------------------------------
(* settings/payments: the three fields are saved together; the IPN id is    *)
(* none of them.                                                            *)
SaveSettings(a) ==
    /\ changes < MaxChanges /\ changes' = changes + 1
    /\ a # org.account /\ org' = [org EXCEPT !.account = a]
    /\ since' = 0
    /\ UNCHANGED <<cache, call, pesapal, faults>>

-----------------------------------------------------------------------------
(* An invocation reads the organization once and goes on with that copy.    *)
Start(c, kind, i) ==
    /\ call[c] = Idle
    /\ call' = [call EXCEPT ![c] = [Idle EXCEPT !.pc = "token", !.kind = kind, !.at = i,
                                    !.account = org.account, !.ipn = org.ipn]]
    /\ UNCHANGED <<org, cache, pesapal, bounds>>

(* baseUrl: the environment of the copy, whatever the token's.              *)
Environment(a) == a \in Live

(* What follows once there is a token.                                      *)
AfterToken(c) == IF call[c].kind = "status" THEN "query"
            ELSE IF call[c].ipn = NoIpn THEN "register" ELSE "order"
Proceeds(c, token) ==
    call' = [call EXCEPT ![c].pc = AfterToken(c), ![c].token = token,
                         ![c].due = Timeout,
                         ![c].late = since > Afterlife]

NotConfigured(c) ==
    /\ call[c].pc = "token" /\ call[c].account = NoAccount /\ Ends(c)
    /\ UNCHANGED <<org, cache, pesapal, bounds>>

\* Mutants: without the safety buffer, and without any look at the expiry.
UsableToTheEnd(i) == cache[i].token.life > 0
UsableForever(i) == cache[i] # Cold
Usable(i) == cache[i].left > 0

CachedToken(c) ==
    /\ call[c].pc = "token" /\ call[c].account # NoAccount
    /\ Usable(call[c].at)
    /\ Proceeds(c, cache[call[c].at].token)
    /\ UNCHANGED <<org, cache, pesapal, bounds>>

RequestToken(c) ==
    /\ call[c].pc = "token" /\ call[c].account # NoAccount
    /\ ~Usable(call[c].at)
    /\ call' = [call EXCEPT ![c].pc = "auth", ![c].due = Timeout]
    /\ UNCHANGED <<org, cache, pesapal, bounds>>

(* Pesapal issues a token ...                                               *)
IssueToken(c) ==
    /\ call[c].pc = "auth"
    /\ call' = [call EXCEPT ![c].pc = "issued",
                            ![c].token = [account |-> call[c].account, life |-> Life]]
    /\ UNCHANGED <<org, cache, pesapal, bounds>>

Minus(n, k) == IF n > k THEN n - k ELSE 0

(* ... which is cached until a while before the expiry it names, or before  *)
(* the assumed one.                                                         *)
StoreToken(c) ==
    /\ call[c].pc = "issued"
    /\ \E expiry \in {call[c].token.life, DefaultLife} :
           cache' = [cache EXCEPT ![call[c].at] =
                        [token |-> call[c].token, left |-> Minus(expiry, Buffer)]]
    /\ Proceeds(c, call[c].token)
    /\ UNCHANGED <<org, pesapal, bounds>>

(* Pesapal looks at the token, in the environment the request went to.      *)
Accepted(c) ==
    /\ call[c].token.life > 0
    /\ Environment(call[c].token.account) = Environment(call[c].account)

(* ensureIpnRegistered: the id belongs to the token's account.  Only the    *)
(* status of the answer is looked at, not whether there is an id in it.     *)
RegisterIpn(c) ==
    LET owner == call[c].token.account
        id == [account |-> owner, no |-> Cardinality(registered) + 1] IN
    /\ call[c].pc = "register" /\ Accepted(c)
    /\ \/ /\ id.no <= MaxIpns /\ registered' = registered \cup {id}
          /\ call' = [call EXCEPT ![c].pc = "registered", ![c].ipn = id]
          /\ UNCHANGED bounds
       \/ /\ Fault /\ UNCHANGED registered
          /\ call' = [call EXCEPT ![c].pc = "registered", ![c].ipn = Nameless(owner)]
    /\ UNCHANGED <<org, cache, order>>

(* The id is stored, a failing update is not looked at, and the order sent. *)
(* Without an id the column is set to null if the answer says null, or left *)
(* alone if it says nothing.                                                *)
PersistIpn(c) ==
    /\ call[c].pc = "registered"
    /\ \/ /\ call[c].ipn.no > 0
          /\ org' = [org EXCEPT !.ipn = call[c].ipn] /\ UNCHANGED bounds
       \/ /\ call[c].ipn.no = 0
          /\ org' \in {org, [org EXCEPT !.ipn = NoIpn]} /\ UNCHANGED bounds
       \/ Fault /\ UNCHANGED org
    /\ call' = [call EXCEPT ![c].pc = "order", ![c].first = TRUE, ![c].due = Timeout]
    /\ UNCHANGED <<cache, pesapal>>

(* submitOrder: the order is the token's account's.                         *)
SubmitOrder(c) ==
    /\ call[c].pc = "order" /\ Accepted(c)
    /\ order' = [account |-> call[c].token.account, ipn |-> call[c].ipn]
    /\ Ends(c)
    /\ UNCHANGED <<org, cache, registered, bounds>>

GetTransactionStatus(c) ==
    /\ call[c].pc = "query" /\ Accepted(c) /\ Ends(c)
    /\ UNCHANGED <<org, cache, pesapal, bounds>>

InFlight(c) == call[c].pc \in {"auth", "issued", "register", "order", "query"}
Authorized(c) == call[c].pc \in {"register", "order", "query"}

\* Mutant: the answer of a failing registration is not looked at.
ThrowsUnlessIpn(c) == IF call[c].pc = "register" THEN Moves(c, "order") ELSE Ends(c)

(* A request that Pesapal refuses, that fails, or that is aborted by the    *)
(* timeout throws, and so ends the invocation's business with Pesapal.      *)
Throws(c) == Ends(c)

Refused(c) ==
    /\ Authorized(c) /\ ~Accepted(c) /\ Throws(c)
    /\ UNCHANGED <<org, cache, pesapal, bounds>>

Aborted(c) ==
    /\ InFlight(c) /\ Throws(c)
    /\ \/ Fault
       \/ call[c].due = 0 /\ UNCHANGED bounds
    /\ UNCHANGED <<org, cache, pesapal>>

(* The isolate is recycled and its cache with it.                           *)
Recycle(i) ==
    /\ cache[i] # Cold /\ cache' = [cache EXCEPT ![i] = Cold]
    /\ \A c \in Calls : call[c] = Idle \/ call[c].at # i
    /\ UNCHANGED <<org, call, pesapal, bounds>>

(* An invocation with a copy of the old credentials has yet to use them.    *)
Outdated(c) == call[c].pc = "token" /\ call[c].account # org.account

Older(token) == [token EXCEPT !.life = Minus(@, 1)]

Tick ==
    /\ \A c \in Calls : InFlight(c) => call[c].due > 0
    /\ call' = [c \in Calls |-> [call[c] EXCEPT !.due = Minus(@, 1), !.token = Older(@)]]
    /\ cache' = [i \in Isolates |->
           [token |-> Older(cache[i].token), left |-> Minus(cache[i].left, 1)]]
    /\ since' = IF \E c \in Calls : Outdated(c) THEN 0 ELSE Min({since + 1, Afterlife + 1})
    /\ UNCHANGED <<org, pesapal, changes, faults>>

-----------------------------------------------------------------------------
Step(c) ==
    \/ NotConfigured(c) \/ CachedToken(c) \/ RequestToken(c) \/ IssueToken(c) \/ StoreToken(c)
    \/ RegisterIpn(c) \/ PersistIpn(c) \/ SubmitOrder(c) \/ GetTransactionStatus(c)
    \/ Refused(c) \/ Aborted(c)

Next ==
    \/ \E a \in Accounts : SaveSettings(a)
    \/ \E c \in Calls : Step(c) \/ \E kind \in Kinds, i \in Isolates : Start(c, kind, i)
    \/ \E i \in Isolates : Recycle(i)
    \/ Tick

Spec == Init /\ [][Next]_vars

-----------------------------------------------------------------------------
(* Properties. *)

(* A token never expires while a request with it is under way, as the       *)
(* comment on the safety buffer says: two requests in a row, each as slow   *)
(* as its timeout lets it be, still fit in.  The one exception is the order *)
(* behind a registration, with a database write of any length in between    *)
(* (requestToken, TOKEN_SAFETY_BUFFER_MS).                                  *)
NeverExpiresMidFlight ==
    \A c \in Calls : Authorized(c) /\ ~call[c].first => call[c].token.life > 0

(* Once the credentials were replaced and the invocations that had read the *)
(* old ones have used them, an invocation is handed a token of another      *)
(* account than its own only for as long as a token could still be cached:  *)
(* the cache does not know whose token it holds, and a request with the old *)
(* credentials may just have been under way (tokenCache).                   *)
OldCredentialsDieOut ==
    \A c \in Calls :
        Authorized(c) /\ call[c].late => call[c].token.account = call[c].account

(* An order names an id that Pesapal gave out for the IPN URL, and while    *)
(* the credentials are left alone one of the order's own account, however   *)
(* many first purchases register at once and whichever id is stored last.   *)
(* It goes out without an id only behind its own registration that Pesapal  *)
(* answered with success and no id: a registration that failed, an id that  *)
(* was not stored or one that a null overwrote never has that effect        *)
(* (ensureIpnRegistered, submitOrder).                                      *)
OrdersAreAnnounced ==
    order.account # NoAccount =>
        /\ order.ipn \in registered \/ \E a \in Accounts : order.ipn = Nameless(a)
        /\ changes = 0 => order.ipn.account = order.account
=============================================================================
