------------------------ MODULE PesapalClientProofs ------------------------
(* Theorems about PesapalClient, for every value of its constants. *)
EXTENDS PesapalClient, FiniteSetTheorems, TLAPS

AnyAccount == Accounts \cup {NoAccount}
Ipns == [account : AnyAccount, no : Nat]
Tokens == [account : AnyAccount, life : Nat]
Entries == [token : Tokens, left : Nat]
Invocations ==
    [pc : {"idle", "token", "auth", "issued", "register", "registered", "order", "query"},
     kind : Kinds \cup {"none"}, at : Isolates \cup {Idle.at}, account : AnyAccount,
     ipn : Ipns, first : BOOLEAN, token : Tokens, due : Nat, late : BOOLEAN]

PesapalTypeOK ==
    /\ org \in [account : AnyAccount, ipn : Ipns]
    /\ cache \in [Isolates -> Entries] /\ call \in [Calls -> Invocations]
    /\ registered \subseteq Ipns /\ IsFiniteSet(registered)
    /\ order \in [account : AnyAccount, ipn : Ipns]
    /\ since \in Nat /\ changes \in Nat /\ faults \in Nat

(* A token that the cache still hands out outlives what the cache says by   *)
(* the buffer, and if it is an old account's, it is not handed out for long.*)
CacheOK(k) ==
    /\ k.left <= Life - Buffer
    /\ k.left > 0 =>
          /\ k.token.life >= k.left + Buffer
          /\ k.token.account \in Accounts
          /\ k.token.account # org.account => since + k.left <= Afterlife
          /\ changes = 0 => k.token.account = org.account

Requesting(r) == r.pc \in {"register", "order", "query"}

(* A token just issued is as old as its request at most; one in use         *)
(* outlives its request.                                                    *)
InTime(r) ==
    /\ r.due <= Timeout
    /\ r.pc = "issued" =>
          r.token.life <= Life /\ r.token.life + Timeout >= Life + r.due
    /\ Requesting(r) /\ ~r.first => r.token.life >= Timeout + r.due

(* An invocation with old credentials asks for its token soon, ...          *)
Punctual(r) ==
    /\ r.pc # "idle" => r.at \in Isolates
    /\ r.pc = "token" /\ r.account # org.account => since = 0
    /\ r.pc \in {"auth", "issued"} /\ r.account # org.account => since + r.due <= Timeout
    /\ r.pc = "issued" => r.token.account = r.account
    /\ (Requesting(r) \/ r.pc = "registered") /\ r.late => r.token.account = r.account

(* ... and names an id that is registered, or its own registration that was *)
(* answered without one; its own account's as long as there was no other.   *)
Named(id) == id \in registered \/ \E a \in Accounts : id = Nameless(a)

Announces(r) ==
    /\ r.ipn # NoIpn => Named(r.ipn)
    /\ r.pc \in {"registered", "order"} => r.ipn # NoIpn
    /\ r.pc = "auth" => r.account \in Accounts
    /\ Requesting(r) \/ r.pc \in {"issued", "registered"} => r.token.account \in Accounts
    /\ changes = 0 =>
          /\ r.pc # "idle" => r.account = org.account
          /\ Requesting(r) \/ r.pc \in {"issued", "registered"} =>
                r.token.account = org.account
          /\ r.ipn # NoIpn => r.ipn.account = org.account

OrgOK ==
    org.ipn # NoIpn =>
        org.ipn \in registered /\ (changes = 0 => org.ipn.account = org.account)

PesapalInv ==
    /\ PesapalTypeOK
    /\ \A i \in Isolates : CacheOK(cache[i])
    /\ \A c \in Calls : InTime(call[c]) /\ Punctual(call[c]) /\ Announces(call[c])
    /\ OrgOK /\ OrdersAreAnnounced

LEMMA Lengths ==
  /\ Life \in Nat /\ DefaultLife \in Nat /\ Buffer \in Nat /\ Timeout \in Nat
  /\ Timeout > 0 /\ 2 * Timeout <= Buffer /\ Buffer <= DefaultLife
  /\ DefaultLife + Timeout <= Life
  /\ Afterlife \in Nat /\ Afterlife = Life - Buffer + Timeout
  BY PesapalAssumption DEF PesapalAssumption, Afterlife

LEMMA PesapalRecords ==
  /\ NoIpn \in Ipns /\ NoToken \in Tokens /\ Cold \in Entries /\ Idle \in Invocations
  /\ Idle.pc = "idle" /\ Idle.ipn = NoIpn /\ Idle.due = 0
  /\ Cold.left = 0 /\ NoIpn.account = NoAccount /\ NoIpn.no = 0
  BY DEF NoIpn, NoToken, Cold, Idle, Ipns, Tokens, Entries, Invocations, AnyAccount, Kinds

LEMMA IdleIsFine == InTime(Idle) /\ Punctual(Idle) /\ Announces(Idle)
  BY PesapalRecords, Lengths DEF InTime, Punctual, Announces, Named, Requesting

LEMMA PesapalInit == Init => PesapalInv
  <1> SUFFICES ASSUME Init PROVE PesapalInv
    OBVIOUS
  <1>1. PesapalTypeOK
    BY PesapalRecords, Lengths, FS_EmptySet DEF Init, PesapalTypeOK, AnyAccount
  <1>2. \A i \in Isolates : CacheOK(cache[i])
    BY PesapalRecords, Lengths DEF Init, CacheOK
  <1>3. \A c \in Calls : InTime(call[c]) /\ Punctual(call[c]) /\ Announces(call[c])
    BY IdleIsFine DEF Init
  <1>4. OrgOK /\ OrdersAreAnnounced
    BY DEF Init, OrgOK, OrdersAreAnnounced
  <1> QED
    BY <1>1, <1>2, <1>3, <1>4 DEF PesapalInv

(* An invocation goes on; only its own state and perhaps the order change.  *)
LEMMA Goes ==
  ASSUME PesapalInv, NEW c \in Calls, NEW r \in Invocations,
         call' = [call EXCEPT ![c] = r],
         UNCHANGED <<org, registered, since, changes>>,
         cache' \in [Isolates -> Entries], \A i \in Isolates : CacheOK(cache'[i]),
         InTime(r), Punctual(r), Announces(r), faults' \in Nat,
         order' \in [account : AnyAccount, ipn : Ipns], OrdersAreAnnounced'
  PROVE  PesapalInv'
  <1>1. call' \in [Calls -> Invocations] /\ call'[c] = r
          /\ \A b \in Calls : b # c => call'[b] = call[b]
    BY DEF PesapalInv, PesapalTypeOK
  <1>2. PesapalTypeOK'
    BY <1>1 DEF PesapalInv, PesapalTypeOK
  <1>3. \A b \in Calls : InTime(call[b])' /\ Punctual(call[b])' /\ Announces(call[b])'
    <2>1. ASSUME NEW b \in Calls PROVE InTime(call[b])'
      BY <1>1 DEF PesapalInv, InTime, Requesting
    <2>2. ASSUME NEW b \in Calls PROVE Punctual(call[b])'
      BY <1>1 DEF PesapalInv, Punctual, Requesting
    <2>3. ASSUME NEW b \in Calls PROVE Announces(call[b])'
      BY <1>1 DEF PesapalInv, Announces, Named, Requesting
    <2> QED
      BY <2>1, <2>2, <2>3
  <1>4. \A i \in Isolates : CacheOK(cache[i])'
    BY DEF PesapalInv, CacheOK
  <1> QED
    BY <1>2, <1>3, <1>4 DEF PesapalInv, OrgOK

LEMMA Ended ==
  ASSUME PesapalInv, NEW c \in Calls, Ends(c),
         UNCHANGED <<org, cache, registered, since, changes>>, faults' \in Nat,
         order' \in [account : AnyAccount, ipn : Ipns], OrdersAreAnnounced'
  PROVE  PesapalInv'
  BY PesapalRecords, IdleIsFine, Goes DEF Ends, PesapalInv, PesapalTypeOK

(* What is known of an invocation. *)
LEMMA Known ==
  ASSUME PesapalInv, NEW c \in Calls
  PROVE  /\ call[c] \in Invocations /\ InTime(call[c]) /\ Punctual(call[c])
         /\ Announces(call[c])
         /\ call[c].token \in Tokens /\ call[c].token.life \in Nat /\ call[c].due \in Nat
         /\ call[c].account \in AnyAccount /\ call[c].ipn \in Ipns
         /\ cache \in [Isolates -> Entries] /\ \A i \in Isolates : CacheOK(cache[i])
         /\ order \in [account : AnyAccount, ipn : Ipns] /\ faults \in Nat /\ since \in Nat
         /\ org.account \in AnyAccount /\ org.ipn \in Ipns
  <1>1. call[c] \in Invocations
    BY DEF PesapalInv, PesapalTypeOK
  <1>2. /\ call[c].token \in Tokens /\ call[c].due \in Nat
        /\ call[c].account \in AnyAccount /\ call[c].ipn \in Ipns
    BY <1>1 DEF Invocations
  <1> QED
    BY <1>1, <1>2 DEF PesapalInv, PesapalTypeOK, Tokens

(* With a token that will do, the request is sent.                          *)
LEMMA Proceeded ==
  ASSUME PesapalInv, NEW c \in Calls, call[c].pc \in {"token", "issued"},
         NEW token \in Tokens, Proceeds(c, token),
         token.life >= 2 * Timeout, token.account \in Accounts,
         since > Afterlife => token.account = call[c].account,
         changes = 0 => token.account = org.account,
         cache' \in [Isolates -> Entries], \A i \in Isolates : CacheOK(cache'[i]),
         UNCHANGED <<org, pesapal, since, changes, faults>>
  PROVE  PesapalInv'
  <1> DEFINE r == [call[c] EXCEPT !.pc = AfterToken(c), !.token = token, !.due = Timeout,
                                  !.late = since > Afterlife]
  <1>1. call' = [call EXCEPT ![c] = r]
    BY DEF Proceeds
  <1>2. /\ call[c] \in Invocations /\ InTime(call[c]) /\ Punctual(call[c])
        /\ Announces(call[c]) /\ since \in Nat
        /\ order \in [account : AnyAccount, ipn : Ipns] /\ faults \in Nat
    BY Known
  <1>3. AfterToken(c) \in {"query", "register", "order"}
          /\ (AfterToken(c) = "order" => call[c].ipn # NoIpn)
    BY DEF AfterToken
  <1>4. /\ r.pc = AfterToken(c) /\ r.token = token /\ r.due = Timeout
        /\ r.late = (since > Afterlife) /\ r.account = call[c].account
        /\ r.ipn = call[c].ipn /\ r.at = call[c].at /\ r.first = call[c].first
    BY <1>2 DEF Invocations
  <1>5. r \in Invocations
    <2>1. (since > Afterlife) \in BOOLEAN
      BY <1>2, Lengths, SMT
    <2>2. PICK late \in BOOLEAN : late = (since > Afterlife)
      BY <2>1, Zenon
    <2>3. PICK pc \in {"query", "register", "order"} : pc = AfterToken(c)
      BY <1>3
    <2>4. [call[c] EXCEPT !.pc = pc, !.token = token, !.due = Timeout, !.late = late]
             \in Invocations
      BY <1>2, Lengths DEF Invocations
    <2> QED
      BY <2>2, <2>3, <2>4
  <1> HIDE DEF r
  <1>6. InTime(r)
    <2>1. token.life \in Nat
      BY DEF Tokens
    <2> QED
      BY <1>3, <1>4, <2>1, Lengths DEF InTime, Requesting
  <1>7. Punctual(r)
    BY <1>2, <1>3, <1>4 DEF Punctual
  <1>8. Announces(r)
    <2>1. r.ipn # NoIpn => Named(r.ipn)
      BY <1>2, <1>4 DEF Announces
    <2> QED
      BY <1>2, <1>3, <1>4, <2>1 DEF Announces
  <1> QED
    BY <1>1, <1>2, <1>5, <1>6, <1>7, <1>8, Goes DEF PesapalInv, pesapal, OrdersAreAnnounced

LEMMA PesapalCached ==
  ASSUME PesapalInv, NEW c \in Calls, CachedToken(c)
  PROVE  PesapalInv'
  <1>1. /\ call[c].pc = "token" /\ Usable(call[c].at)
        /\ Proceeds(c, cache[call[c].at].token)
        /\ UNCHANGED <<org, cache, pesapal, since, changes, faults>>
    BY DEF CachedToken, bounds
  <1>2. PICK i \in Isolates : call[c].at = i
    BY <1>1, Known DEF Punctual
  <1>3. /\ cache[i] \in Entries /\ CacheOK(cache[i]) /\ since \in Nat
        /\ cache \in [Isolates -> Entries] /\ \A j \in Isolates : CacheOK(cache[j])
    BY Known
  <1>4. cache[i].token \in Tokens /\ cache[i].token.life \in Nat /\ cache[i].left \in Nat
          /\ cache[i].left > 0
    BY <1>1, <1>2, <1>3 DEF Entries, Tokens, Usable
  <1>5. cache[i].token.life >= 2 * Timeout /\ cache[i].token.account \in Accounts
    BY <1>3, <1>4, Lengths DEF CacheOK
  <1>6. since > Afterlife => cache[i].token.account = call[c].account
    <2>1. since > Afterlife => cache[i].token.account = org.account
      BY <1>3, <1>4, Lengths DEF CacheOK
    <2>2. since > Afterlife => call[c].account = org.account
      BY <1>1, <1>3, Known, Lengths DEF Punctual
    <2> QED
      BY <2>1, <2>2
  <1>7. changes = 0 => cache[i].token.account = org.account
    BY <1>3, <1>4 DEF CacheOK
  <1>8. cache' \in [Isolates -> Entries] /\ \A j \in Isolates : CacheOK(cache'[j])
    BY <1>1, <1>3
  <1> QED
    BY <1>1, <1>2, <1>4, <1>5, <1>6, <1>7, <1>8, Proceeded

LEMMA PesapalStored ==
  ASSUME PesapalInv, NEW c \in Calls, StoreToken(c)
  PROVE  PesapalInv'
  <1>1. /\ call[c].pc = "issued" /\ Proceeds(c, call[c].token)
        /\ UNCHANGED <<org, pesapal, since, changes, faults>>
    BY DEF StoreToken, bounds
  <1>2. PICK i \in Isolates : call[c].at = i
    BY <1>1, Known DEF Punctual
  <1>3. PICK token \in Tokens : token = call[c].token
    BY Known
  <1>4. PICK expiry \in {token.life, DefaultLife} :
           cache' = [cache EXCEPT ![i] = [token |-> token, left |-> Minus(expiry, Buffer)]]
    BY <1>2, <1>3 DEF StoreToken
  <1>5. /\ token.life \in Nat /\ since \in Nat /\ call[c].due \in Nat
        /\ token.life <= Life /\ token.life + Timeout >= Life + call[c].due
        /\ call[c].due <= Timeout
    BY <1>1, <1>3, Known DEF InTime
  <1>6. /\ expiry \in Nat /\ expiry <= token.life /\ expiry >= Buffer
        /\ token.life >= 2 * Timeout
    BY <1>5, Lengths
  <1>7. Minus(expiry, Buffer) \in Nat /\ Minus(expiry, Buffer) + Buffer = expiry
    BY <1>6, Lengths DEF Minus
  <1>8. /\ token.account = call[c].account
        /\ token.account # org.account => since + call[c].due <= Timeout
        /\ changes = 0 => token.account = org.account
        /\ token.account \in Accounts
    BY <1>1, <1>3, Known DEF Punctual, Announces
  <1>9. CacheOK([token |-> token, left |-> Minus(expiry, Buffer)])
    BY <1>5, <1>6, <1>7, <1>8, Lengths DEF CacheOK
  <1>10. cache' \in [Isolates -> Entries] /\ \A j \in Isolates : CacheOK(cache'[j])
    BY <1>4, <1>7, <1>9, Known DEF Entries
  <1> QED
    BY <1>1, <1>3, <1>6, <1>8, <1>10, Proceeded

LEMMA PesapalStarts ==
  ASSUME PesapalInv, NEW c \in Calls, NEW kind \in Kinds, NEW i \in Isolates,
         Start(c, kind, i)
  PROVE  PesapalInv'
  <1> DEFINE r == [Idle EXCEPT !.pc = "token", !.kind = kind, !.at = i,
                               !.account = org.account, !.ipn = org.ipn]
  <1>1. call' = [call EXCEPT ![c] = r]
          /\ UNCHANGED <<org, cache, registered, order, since, changes, faults>>
    BY DEF Start, pesapal, bounds
  <1>2. r \in Invocations
    BY PesapalRecords, Known DEF Invocations
  <1>3. /\ r.pc = "token" /\ r.at = i /\ r.account = org.account /\ r.ipn = org.ipn
        /\ r.due = 0
    BY PesapalRecords DEF Invocations
  <1> HIDE DEF r
  <1>4. InTime(r) /\ Punctual(r)
    BY <1>3, Lengths DEF InTime, Punctual, Requesting
  <1>5. Announces(r)
    BY <1>3 DEF Announces, Named, Requesting, PesapalInv, OrgOK
  <1> QED
    BY <1>1, <1>2, <1>4, <1>5, Known, Goes DEF PesapalInv, OrdersAreAnnounced

LEMMA PesapalAsks ==
  ASSUME PesapalInv, NEW c \in Calls, RequestToken(c) \/ IssueToken(c)
  PROVE  PesapalInv'
  <1>0. call[c] \in Invocations /\ since \in Nat
    BY Known
  <1>1. CASE RequestToken(c)
    <2> DEFINE r == [call[c] EXCEPT !.pc = "auth", !.due = Timeout]
    <2>1. /\ call[c].pc = "token" /\ call' = [call EXCEPT ![c] = r]
          /\ UNCHANGED <<org, cache, registered, order, since, changes, faults>>
      BY <1>1 DEF RequestToken, pesapal, bounds
    <2>2. r \in Invocations
      BY <1>0, Lengths DEF Invocations
    <2>3. /\ r.pc = "auth" /\ r.at = call[c].at /\ r.account = call[c].account
          /\ r.ipn = call[c].ipn /\ r.due = Timeout
      BY <1>0 DEF Invocations
    <2> HIDE DEF r
    <2>4. r.account \in Accounts
      BY <1>1, <2>3, Known DEF RequestToken, AnyAccount
    <2>5. InTime(r) /\ Punctual(r)
      BY <2>1, <2>3, Known, Lengths DEF InTime, Punctual, Requesting
    <2>6. Announces(r)
      BY <2>1, <2>3, <2>4, Known DEF Announces, Requesting
    <2> QED
      BY <2>1, <2>2, <2>5, <2>6, Known, Goes DEF PesapalInv, OrdersAreAnnounced
  <1>2. CASE IssueToken(c)
    <2> DEFINE t == [account |-> call[c].account, life |-> Life]
               r == [call[c] EXCEPT !.pc = "issued", !.token = t]
    <2>1. /\ call[c].pc = "auth" /\ call' = [call EXCEPT ![c] = r]
          /\ UNCHANGED <<org, cache, registered, order, since, changes, faults>>
      BY <1>2 DEF IssueToken, pesapal, bounds
    <2>2. t \in Tokens
      BY Known, Lengths DEF Tokens
    <2>3. r \in Invocations
      BY <1>0, <2>2 DEF Invocations
    <2>4. /\ r.pc = "issued" /\ r.at = call[c].at /\ r.account = call[c].account
          /\ r.ipn = call[c].ipn /\ r.due = call[c].due
          /\ r.token.life = Life /\ r.token.account = call[c].account
      BY <1>0 DEF Invocations
    <2> HIDE DEF r, t
    <2>5. InTime(r)
      BY <2>4, Known, Lengths DEF InTime, Requesting
    <2>6. Punctual(r) /\ Announces(r)
      BY <2>1, <2>4, Known DEF Punctual, Announces, Named, Requesting
    <2> QED
      BY <2>1, <2>3, <2>5, <2>6, Known, Goes DEF PesapalInv, OrdersAreAnnounced
  <1> QED
    BY <1>1, <1>2

(* A registration adds an id of the token's account, if it brings one.      *)
LEMMA PesapalRegisters ==
  ASSUME PesapalInv, NEW c \in Calls, RegisterIpn(c)
  PROVE  PesapalInv'
  <1>1. PICK owner \in Accounts : owner = call[c].token.account
    BY Known DEF RegisterIpn, Announces, Requesting
  <1>2. PICK n \in Nat : n = Cardinality(registered) + 1 /\ n > 0
    BY FS_CardinalityType DEF PesapalInv, PesapalTypeOK
  <1>3. PICK id \in Ipns :
           /\ id.account = owner /\ id # NoIpn
           /\ \/ id.no = n /\ registered' = registered \cup {id}
              \/ id = Nameless(owner) /\ registered' = registered
           /\ call' = [call EXCEPT ![c].pc = "registered", ![c].ipn = id]
    <2>1. [account |-> owner, no |-> n] \in Ipns /\ Nameless(owner) \in Ipns
      BY <1>1, <1>2 DEF Ipns, Nameless, AnyAccount
    <2>2. [account |-> owner, no |-> n] # NoIpn /\ Nameless(owner) # NoIpn
      BY <1>2, PesapalAssumption DEF PesapalAssumption, NoIpn, Nameless
    <2> QED
      BY <1>1, <1>2, <2>1, <2>2 DEF RegisterIpn, Nameless
  <1>4. /\ call[c].pc = "register" /\ UNCHANGED <<org, cache, order, since, changes>>
        /\ faults' = faults \/ faults' = faults + 1
    BY DEF RegisterIpn, bounds, Fault
  <1>5. call[c] \in Invocations
    BY Known
  <1> PICK r \in Invocations : r = [call[c] EXCEPT !.pc = "registered", !.ipn = id]
    BY <1>5 DEF Invocations
  <1>6. /\ r.pc = "registered" /\ r.at = call[c].at /\ r.account = call[c].account
        /\ r.ipn = id /\ r.due = call[c].due /\ r.token = call[c].token
        /\ r.late = call[c].late
    BY <1>5 DEF Invocations
  <1>7. /\ registered \subseteq registered' /\ registered' \subseteq Ipns
        /\ IsFiniteSet(registered') /\ faults' \in Nat
    BY <1>3, <1>4, FS_AddElement, Known DEF PesapalInv, PesapalTypeOK
  <1>8. Named(id)'
    BY <1>3 DEF Named
  <1>9. InTime(r)
    BY <1>6, Known DEF InTime, Requesting
  <1>10. Punctual(r)
    BY <1>4, <1>6, Known DEF Punctual, Requesting
  <1>11. Announces(r)'
    <2>1. /\ changes = 0 => call[c].token.account = org.account
          /\ changes = 0 => call[c].account = org.account
      BY <1>4, Known DEF Announces, Requesting
    <2> QED
      BY <1>1, <1>3, <1>4, <1>6, <1>8, <2>1 DEF Announces, Requesting
  <1>12. call' \in [Calls -> Invocations] /\ call'[c] = r
           /\ \A b \in Calls : b # c => call'[b] = call[b]
    <2>1. call' = [call EXCEPT ![c] = r]
      BY <1>3
    <2> QED
      BY <2>1 DEF PesapalInv, PesapalTypeOK
  <1>13. PesapalTypeOK'
    BY <1>4, <1>7, <1>12 DEF PesapalInv, PesapalTypeOK
  <1>14. \A b \in Calls : InTime(call[b])' /\ Punctual(call[b])' /\ Announces(call[b])'
    <2>1. ASSUME NEW b \in Calls PROVE InTime(call[b])'
      BY <1>9, <1>12 DEF PesapalInv, InTime, Requesting
    <2>2. ASSUME NEW b \in Calls PROVE Punctual(call[b])'
      BY <1>4, <1>10, <1>12 DEF PesapalInv, Punctual, Requesting
    <2>3. ASSUME NEW b \in Calls PROVE Announces(call[b])'
      <3>1. ASSUME NEW i PROVE Named(i) => Named(i)'
        BY <1>7 DEF Named
      <3>2. CASE b = c
        BY <1>11, <1>12, <3>2
      <3>3. CASE b # c
        <4>1. Announces(call[b]) /\ call'[b] = call[b]
          BY <1>12, <3>3 DEF PesapalInv
        <4>2. (call[b].ipn # NoIpn => Named(call[b].ipn))'
          BY <3>1, <4>1 DEF Announces
        <4> QED
          BY <1>4, <4>1, <4>2 DEF Announces, Requesting
      <3> QED
        BY <3>2, <3>3
    <2> QED
      BY <2>1, <2>2, <2>3
  <1>15. \A i \in Isolates : CacheOK(cache[i])'
    BY <1>4 DEF PesapalInv, CacheOK
  <1> QED
    BY <1>4, <1>7, <1>13, <1>14, <1>15 DEF PesapalInv, OrgOK, OrdersAreAnnounced

(* The organization is written by two actions: only its account counts for  *)
(* the invocations.                                                         *)
LEMMA PesapalPersists ==
  ASSUME PesapalInv, NEW c \in Calls, PersistIpn(c)
  PROVE  PesapalInv'
  <1> DEFINE r == [call[c] EXCEPT !.pc = "order", !.first = TRUE, !.due = Timeout]
  <1>1. /\ call[c].pc = "registered" /\ call' = [call EXCEPT ![c] = r]
        /\ UNCHANGED <<cache, registered, order, since, changes>>
        /\ \/ org' = [org EXCEPT !.ipn = call[c].ipn] /\ call[c].ipn.no > 0
           \/ org' = [org EXCEPT !.ipn = NoIpn] \/ org' = org
        /\ faults' = faults \/ faults' = faults + 1
    BY DEF PersistIpn, pesapal, bounds, Fault
  <1>2. call[c] \in Invocations
    BY Known
  <1>3. r \in Invocations
    BY <1>2, Lengths DEF Invocations
  <1>4. /\ r.pc = "order" /\ r.at = call[c].at /\ r.account = call[c].account
        /\ r.ipn = call[c].ipn /\ r.due = Timeout /\ r.token = call[c].token
        /\ r.late = call[c].late /\ r.first = TRUE
    BY <1>2 DEF Invocations
  <1> HIDE DEF r
  <1>5. /\ org' \in [account : AnyAccount, ipn : Ipns] /\ org'.account = org.account
        /\ \/ org'.ipn = call[c].ipn /\ call[c].ipn.no > 0
           \/ org'.ipn = NoIpn \/ org'.ipn = org.ipn
    BY <1>1, Known, PesapalRecords DEF PesapalInv, PesapalTypeOK
  <1>6. InTime(r)
    BY <1>4, Lengths DEF InTime, Requesting
  <1>7. Punctual(r)
    BY <1>1, <1>4, Known DEF Punctual, Requesting
  <1>8. Announces(r)
    BY <1>1, <1>4, Known DEF Announces, Named, Requesting
  <1>9. call' \in [Calls -> Invocations] /\ call'[c] = r
          /\ \A b \in Calls : b # c => call'[b] = call[b]
    BY <1>1, <1>3 DEF PesapalInv, PesapalTypeOK
  <1>10. faults' \in Nat
    BY <1>1, Known
  <1>11. PesapalTypeOK'
    BY <1>1, <1>5, <1>9, <1>10 DEF PesapalInv, PesapalTypeOK
  <1>12. \A b \in Calls : InTime(call[b])' /\ Punctual(call[b])' /\ Announces(call[b])'
    <2>1. ASSUME NEW b \in Calls PROVE InTime(call[b])'
      BY <1>6, <1>9 DEF PesapalInv, InTime, Requesting
    <2>2. ASSUME NEW b \in Calls PROVE Punctual(call[b])'
      BY <1>1, <1>5, <1>7, <1>9 DEF PesapalInv, Punctual, Requesting
    <2>3. ASSUME NEW b \in Calls PROVE Announces(call[b])'
      BY <1>1, <1>5, <1>8, <1>9 DEF PesapalInv, Announces, Named, Requesting
    <2> QED
      BY <2>1, <2>2, <2>3
  <1>13. \A i \in Isolates : CacheOK(cache[i])'
    BY <1>1, <1>5 DEF PesapalInv, CacheOK
  <1>14. OrgOK'
    <2>1. call[c].ipn.no > 0 => call[c].ipn \in registered /\ call[c].ipn # NoIpn
      <3>1. call[c].ipn # NoIpn /\ Named(call[c].ipn)
        BY <1>1, Known DEF Announces
      <3>2. ASSUME NEW a \in Accounts PROVE Nameless(a).no = 0
        BY DEF Nameless
      <3> QED
        BY <3>1, <3>2 DEF Named
    <2> QED
      BY <1>1, <1>5, <2>1, Known DEF PesapalInv, OrgOK, Announces
  <1> QED
    BY <1>1, <1>11, <1>12, <1>13, <1>14 DEF PesapalInv, OrdersAreAnnounced

LEMMA PesapalSaves ==
  ASSUME PesapalInv, NEW a \in Accounts, SaveSettings(a)
  PROVE  PesapalInv'
  <1>1. /\ org' = [org EXCEPT !.account = a] /\ since' = 0 /\ changes' = changes + 1
        /\ UNCHANGED <<cache, call, registered, order, faults>>
    BY DEF SaveSettings, pesapal
  <1>2. changes' \in Nat /\ changes' # 0 /\ since' \in Nat
    BY <1>1 DEF PesapalInv, PesapalTypeOK
  <1>3. org' \in [account : AnyAccount, ipn : Ipns] /\ org'.ipn = org.ipn
    BY <1>1 DEF PesapalInv, PesapalTypeOK, AnyAccount
  <1>4. PesapalTypeOK'
    BY <1>1, <1>2, <1>3 DEF PesapalInv, PesapalTypeOK
  <1>5. ASSUME NEW i \in Isolates PROVE CacheOK(cache[i])'
    <2>1. CacheOK(cache[i]) /\ cache[i].left \in Nat
      BY DEF PesapalInv, PesapalTypeOK, Entries
    <2> QED
      BY <1>1, <1>2, <2>1, Lengths DEF CacheOK
  <1>6. ASSUME NEW c \in Calls
        PROVE  InTime(call[c])' /\ Punctual(call[c])' /\ Announces(call[c])'
    <2>1. /\ InTime(call[c]) /\ Punctual(call[c]) /\ Announces(call[c])
          /\ call[c].due \in Nat
      BY Known
    <2>2. InTime(call[c])'
      BY <1>1, <2>1 DEF InTime, Requesting
    <2>3. Punctual(call[c])'
      BY <1>1, <2>1, Lengths DEF Punctual, Requesting, InTime
    <2>4. Announces(call[c])'
      BY <1>1, <1>2, <2>1 DEF Announces, Named, Requesting
    <2> QED
      BY <2>2, <2>3, <2>4
  <1>7. OrgOK' /\ OrdersAreAnnounced'
    BY <1>1, <1>2, <1>3 DEF PesapalInv, OrgOK, OrdersAreAnnounced
  <1> QED
    BY <1>4, <1>5, <1>6, <1>7 DEF PesapalInv

LEMMA PesapalRecycles ==
  ASSUME PesapalInv, NEW i \in Isolates, Recycle(i)
  PROVE  PesapalInv'
  <1>1. /\ cache' = [cache EXCEPT ![i] = Cold]
        /\ UNCHANGED <<org, call, registered, order, since, changes, faults>>
    BY DEF Recycle, pesapal, bounds
  <1>2. cache' \in [Isolates -> Entries]
    BY <1>1, PesapalRecords DEF PesapalInv, PesapalTypeOK
  <1>3. \A j \in Isolates : CacheOK(cache[j])'
    <2>1. CacheOK(Cold)
      BY PesapalRecords, Lengths DEF CacheOK
    <2>2. ASSUME NEW j \in Isolates PROVE cache'[j] = cache[j] \/ cache'[j] = Cold
      BY <1>1 DEF PesapalInv, PesapalTypeOK
    <2> QED
      BY <1>1, <2>1, <2>2 DEF PesapalInv, CacheOK
  <1>4. PesapalTypeOK' /\ OrgOK' /\ OrdersAreAnnounced'
    BY <1>1, <1>2 DEF PesapalInv, PesapalTypeOK, OrgOK, OrdersAreAnnounced
  <1>5. \A c \in Calls : InTime(call[c])' /\ Punctual(call[c])' /\ Announces(call[c])'
    BY <1>1 DEF PesapalInv, InTime, Punctual, Announces, Named, Requesting
  <1> QED
    BY <1>3, <1>4, <1>5 DEF PesapalInv

LEMMA PesapalEnds ==
  ASSUME PesapalInv, NEW c \in Calls,
         NotConfigured(c) \/ SubmitOrder(c) \/ GetTransactionStatus(c) \/ Refused(c) \/ Aborted(c)
  PROVE  PesapalInv'
  <1>1. CASE SubmitOrder(c)
    <2>1. /\ call[c].pc = "order" /\ Ends(c)
          /\ order' = [account |-> call[c].token.account, ipn |-> call[c].ipn]
          /\ UNCHANGED <<org, cache, registered, since, changes, faults>>
      BY <1>1 DEF SubmitOrder, bounds
    <2>2. /\ call[c].token.account \in AnyAccount /\ call[c].ipn \in Ipns
          /\ Named(call[c].ipn) /\ faults \in Nat
          /\ changes = 0 => call[c].ipn.account = call[c].token.account
      BY <2>1, Known DEF Announces, Requesting, Tokens
    <2>3. order' \in [account : AnyAccount, ipn : Ipns]
      BY <2>1, <2>2
    <2>4. OrdersAreAnnounced'
      BY <2>1, <2>2 DEF OrdersAreAnnounced, Named
    <2> QED
      BY <2>1, <2>2, <2>3, <2>4, Ended
  <1>2. CASE ~SubmitOrder(c)
    <2>1. /\ Ends(c) /\ UNCHANGED <<org, cache, registered, order, since, changes>>
          /\ faults' = faults \/ faults' = faults + 1
      BY <1>2 DEF NotConfigured, GetTransactionStatus, Refused, Aborted, Throws, Fault,
                  pesapal, bounds
    <2> QED
      BY <2>1, Known, Ended DEF PesapalInv, OrdersAreAnnounced
  <1> QED
    BY <1>1, <1>2

LEMMA LesserOfTwo ==
  ASSUME NEW a \in Nat, NEW b \in Nat
  PROVE  Min({a, b}) \in {a, b} /\ Min({a, b}) <= a
  <1>1. \E x \in {a, b} : \A y \in {a, b} : x <= y
    BY SMT
  <1> QED
    BY <1>1 DEF Min

(* A tick: everything that has a time left has one less, and the old        *)
(* credentials are a tick further away at most.                             *)
LEMMA PesapalTicks ==
  ASSUME PesapalInv, Tick
  PROVE  PesapalInv'
  <1>1. /\ since \in Nat /\ call \in [Calls -> Invocations]
        /\ cache \in [Isolates -> Entries]
        /\ UNCHANGED <<org, registered, order, changes, faults>>
    BY DEF PesapalInv, PesapalTypeOK, Tick, pesapal
  <1>2. /\ since' \in Nat /\ since' <= since + 1
        /\ (\E c \in Calls : Outdated(c)) => since' = 0
    <2>1. since + 1 \in Nat /\ Afterlife + 1 \in Nat
      BY <1>1, Lengths
    <2>2. PICK m \in Nat : m = Min({since + 1, Afterlife + 1}) /\ m <= since + 1
      BY <2>1, LesserOfTwo
    <2>3. since' = IF \E c \in Calls : Outdated(c) THEN 0 ELSE m
      BY <2>2 DEF Tick
    <2> QED
      BY <1>1, <2>2, <2>3
  <1>3. ASSUME NEW token \in Tokens
        PROVE  /\ Older(token) \in Tokens /\ Older(token).account = token.account
               /\ Older(token).life = Minus(token.life, 1)
    BY DEF Tokens, Older, Minus
  <1>4. ASSUME NEW n \in Nat
        PROVE  /\ Minus(n, 1) \in Nat /\ Minus(n, 1) <= n
               /\ n > 0 => Minus(n, 1) = n - 1
               /\ n = 0 => Minus(n, 1) = 0
    BY DEF Minus
  <1>5. ASSUME NEW i \in Isolates PROVE cache'[i] \in Entries /\ CacheOK(cache[i])'
    <2>1. /\ CacheOK(cache[i]) /\ cache[i].left \in Nat /\ cache[i].token \in Tokens
          /\ cache[i].token.life \in Nat
      BY <1>1 DEF PesapalInv, Entries, Tokens
    <2>2. cache'[i] = [token |-> Older(cache[i].token), left |-> Minus(cache[i].left, 1)]
      BY DEF Tick
    <2>3. /\ cache'[i].left = Minus(cache[i].left, 1)
          /\ cache'[i].token.life = Minus(cache[i].token.life, 1)
          /\ cache'[i].token.account = cache[i].token.account
      BY <1>3, <2>1, <2>2
    <2>4. cache'[i] \in Entries
      BY <1>3, <1>4, <2>1, <2>2 DEF Entries
    <2>5. CASE cache[i].left > 1
      BY <1>1, <1>2, <1>4, <2>1, <2>3, <2>4, <2>5, Lengths DEF CacheOK
    <2>6. CASE ~(cache[i].left > 1)
      <3>1. cache'[i].left = 0
        BY <2>1, <2>3, <2>6 DEF Minus
      <3> QED
        BY <2>4, <3>1, Lengths DEF CacheOK
    <2> QED
      BY <2>4, <2>5, <2>6
  <1>6. ASSUME NEW c \in Calls
        PROVE  /\ call'[c] \in Invocations
               /\ InTime(call[c])' /\ Punctual(call[c])' /\ Announces(call[c])'
    <2> PICK r \in Invocations : r = call[c]
      BY <1>1
    <2>1. InTime(r) /\ Punctual(r) /\ Announces(r)
      BY DEF PesapalInv
    <2>2. r.due \in Nat /\ r.token \in Tokens /\ r.token.life \in Nat
      BY DEF Invocations, Tokens
    <2>3. r.pc \in {"auth", "issued", "register", "order", "query"} => r.due > 0
      BY DEF Tick, InFlight
    <2>4. r.pc = "token" /\ r.account # org.account => since' = 0
      BY <1>2 DEF Outdated
    <2> PICK n \in Nat : n = Minus(r.due, 1)
      BY <1>4, <2>2
    <2> PICK t \in Tokens : t = Older(r.token)
      BY <1>3, <2>2
    <2>5. call'[c] = [r EXCEPT !.due = n, !.token = t]
      BY <2>2 DEF Tick
    <2>6. call'[c] \in Invocations
      BY <2>5 DEF Invocations
    <2>7. /\ call'[c].pc = r.pc /\ call'[c].at = r.at /\ call'[c].account = r.account
          /\ call'[c].ipn = r.ipn /\ call'[c].first = r.first /\ call'[c].late = r.late
          /\ call'[c].due = n /\ call'[c].token = t
      BY <2>5 DEF Invocations
    <2>8. /\ t.account = r.token.account /\ t.life \in Nat /\ t.life <= r.token.life
          /\ r.token.life > 0 => t.life = r.token.life - 1
          /\ n <= r.due /\ (r.due > 0 => n = r.due - 1)
      BY <1>3, <1>4, <2>2
    <2>9. InTime(call[c])'
      BY <2>1, <2>2, <2>3, <2>7, <2>8, Lengths DEF InTime, Requesting
    <2>10. Punctual(call[c])'
      <3>1. since' = 0 => n <= Timeout
        BY <2>1, <2>2, <2>8, Lengths DEF InTime
      <3>2. r.pc \in {"auth", "issued"} /\ r.account # org.account
              => since' + n <= Timeout
        BY <1>1, <1>2, <2>1, <2>2, <2>3, <2>8, Lengths DEF Punctual
      <3> QED
        BY <1>1, <2>1, <2>4, <2>7, <2>8, <3>2 DEF Punctual, Requesting
    <2>11. Announces(call[c])'
      BY <1>1, <2>1, <2>7, <2>8 DEF Announces, Named, Requesting
    <2> QED
      BY <2>6, <2>9, <2>10, <2>11
  <1>7. cache' \in [Isolates -> Entries] /\ call' \in [Calls -> Invocations]
    BY <1>5, <1>6 DEF Tick
  <1>8. PesapalTypeOK' /\ OrgOK' /\ OrdersAreAnnounced'
    BY <1>1, <1>2, <1>7 DEF PesapalInv, PesapalTypeOK, OrgOK, OrdersAreAnnounced
  <1> QED
    BY <1>5, <1>6, <1>8 DEF PesapalInv

LEMMA PesapalNext == PesapalInv /\ [Next]_vars => PesapalInv'
  <1> SUFFICES ASSUME PesapalInv, [Next]_vars PROVE PesapalInv'
    OBVIOUS
  <1>1. ASSUME NEW a \in Accounts, SaveSettings(a) PROVE PesapalInv'
    BY <1>1, PesapalSaves
  <1>2. ASSUME NEW c \in Calls, Step(c) PROVE PesapalInv'
    BY <1>2, PesapalCached, PesapalAsks, PesapalStored, PesapalRegisters, PesapalPersists,
       PesapalEnds DEF Step
  <1>3. ASSUME NEW c \in Calls, NEW kind \in Kinds, NEW i \in Isolates, Start(c, kind, i)
        PROVE  PesapalInv'
    BY <1>3, PesapalStarts
  <1>4. ASSUME NEW i \in Isolates, Recycle(i) PROVE PesapalInv'
    BY <1>4, PesapalRecycles
  <1>5. CASE UNCHANGED vars
    BY <1>5 DEF vars, pesapal, bounds, PesapalInv, PesapalTypeOK, CacheOK, InTime, Punctual,
       Announces, Named, Requesting, OrgOK, OrdersAreAnnounced
  <1> QED
    BY <1>1, <1>2, <1>3, <1>4, <1>5, PesapalTicks DEF Next

LEMMA PesapalAlways == Spec => []PesapalInv
  BY PesapalInit, PesapalNext, PTL DEF Spec

(* The state of the client stays of its type, and the registrations finite. *)
THEOREM PesapalTypeCorrect == Spec => []PesapalTypeOK
  BY PesapalAlways, PTL DEF PesapalInv

(* No token expires under a request, but behind a registration; it rests on *)
(* the buffer being two timeouts and the lifetime a timeout more than what  *)
(* is assumed of it (requestToken, TOKEN_SAFETY_BUFFER_MS).                 *)
THEOREM TokensOutliveRequests == Spec => []NeverExpiresMidFlight
  <1>1. PesapalInv => NeverExpiresMidFlight
    <2> SUFFICES ASSUME PesapalInv, NEW c \in Calls, Authorized(c), ~call[c].first
                 PROVE  call[c].token.life > 0
      BY DEF NeverExpiresMidFlight
    <2> QED
      BY Known, Lengths DEF Authorized, Requesting, InTime
  <1> QED
    BY <1>1, PesapalAlways, PTL

(* Replaced credentials are in use for a bounded time only, although the    *)
(* cache does not know whose token it holds (tokenCache).                   *)
THEOREM ReplacedCredentialsDieOut == Spec => []OldCredentialsDieOut
  <1>1. PesapalInv => OldCredentialsDieOut
    BY Known DEF OldCredentialsDieOut, Authorized, Requesting, Punctual
  <1> QED
    BY <1>1, PesapalAlways, PTL

(* An order names a registered id, of its own account unless the            *)
(* credentials were changed, or stands behind its own registration that was *)
(* answered without an id (ensureIpnRegistered, submitOrder).               *)
THEOREM OrdersNameTheirIpn == Spec => []OrdersAreAnnounced
  BY PesapalAlways, PTL DEF PesapalInv
=============================================================================
