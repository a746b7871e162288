-------------------------- MODULE ProvisioningProofs --------------------------
(* Theorems about Provisioning, for every value of its constants. *)
EXTENDS Provisioning, WellFoundedInduction, TLAPS

(* A row has a key and an address, or neither; a deleted row has neither.   *)
RowsOK ==
    \A d \in Devices :
        /\ device[d].key # 0 <=> device[d].octet # 0
        /\ ~device[d].exists => device[d].key = 0

(* A device that exists or did.                                             *)
Made(d) == device[d].exists \/ device[d].status = "offline"

CallsOK ==
    \A c \in Calls :
        /\ call[c].pc # "idle" => call[c].dev \in Devices /\ Made(call[c].dev)
        /\ call[c].pc = "store" => call[c].octet >= 2

(* The keys that a row, the hub or a list under way knows are issued ones.  *)
Known(k) ==
    \/ k \in DOMAIN peers
    \/ \E w \in Syncs : \E p \in sync[w].list : p.key = k
    \/ \E d \in Devices : device[d].key = k

KeysOK == \A k \in Nat : Known(k) => k <= keys

(* No address is stored twice or about to be.                               *)
Apart ==
    overlapped # "same" =>
        /\ \A d, e \in Devices :
              d # e /\ Provisioned(d) /\ Provisioned(e) => device[d].octet # device[e].octet
        /\ \A c \in Calls, d \in Devices :
              call[c].pc = "store" /\ Provisioned(d) => device[d].octet # call[c].octet
        /\ \A b, c \in Calls :
              b # c /\ call[b].pc = "store" /\ call[c].pc = "store" =>
                  call[b].octet # call[c].octet

(* Calls that store in the order they picked store ever higher addresses.   *)
InTurn ==
    overlapped = "no" =>
        /\ \A b, c \in Calls : call[b].pc = "store" /\ call[c].pc = "store" => b = c
        /\ \A c \in Calls, d \in Devices :
              call[c].pc = "store" /\ Provisioned(d) => device[d].octet < call[c].octet

(* An identity that was handed out.  If its key was ever stored, its device *)
(* has no lower address since, and nobody else has its address.             *)
Fits(i) ==
    /\ i.octet <= device[i.dev].octet /\ Provisioned(i.dev)
    /\ \A e \in Devices \ {i.dev} : Provisioned(e) => device[e].octet # i.octet

HandedOut(i) ==
    /\ i.key <= keys
    /\ i.dev \in Devices =>
          /\ i.key # 0 /\ Made(i.dev)
          /\ overlapped = "no" /\ Known(i.key) /\ device[i.dev].exists => Fits(i)

ProvisioningInv ==
    /\ ProvisioningTypeOK /\ RowsOK /\ CallsOK /\ KeysOK /\ Apart /\ InTurn
    /\ \A r \in Routers : HandedOut(router[r])
    /\ \A d \in Devices : HandedOut(shown[d])

-----------------------------------------------------------------------------
LEMMA ProvisioningRecords ==
  /\ Unregistered \in Rows /\ NoScript \in Scripts /\ NoCall \in CallStates
  /\ NoSync \in SyncStates /\ NoSync.list = {}
  /\ NoCall.pc = "idle" /\ NoScript.key = 0 /\ NoScript.dev = NoDevice
  /\ NoDevice \notin Devices /\ MaxKeys \in Nat /\ MaxFaults \in Nat
  /\ Unregistered.key = 0 /\ Unregistered.octet = 0 /\ ~Unregistered.exists
  /\ Unregistered.status = "pending"
  BY ProvisioningAssumption DEF ProvisioningAssumption, Unregistered, NoScript, NoCall, NoSync,
     Rows, Scripts, CallStates, SyncStates, Octets

LEMMA ProvisioningInit == Init => ProvisioningInv
  <1> SUFFICES ASSUME Init PROVE ProvisioningInv
    OBVIOUS
  <1>1. ProvisioningTypeOK
    BY ProvisioningRecords DEF Init, ProvisioningTypeOK
  <1>2. RowsOK /\ CallsOK /\ Apart /\ InTurn
    BY ProvisioningRecords DEF Init, RowsOK, CallsOK, Apart, InTurn, Provisioned
  <1>3. KeysOK
    BY ProvisioningRecords DEF Init, KeysOK, Known
  <1>4. HandedOut(NoScript)
    BY ProvisioningRecords DEF Init, HandedOut
  <1> QED
    BY <1>1, <1>2, <1>3, <1>4 DEF Init, ProvisioningInv

(* A set of addresses has a highest one.                                    *)
LEMMA HighestExists ==
  ASSUME NEW L \in Nat, NEW S, S \subseteq 0 .. L, S # {}
  PROVE  Max(S) \in S /\ \A y \in S : y <= Max(S)
  <1> DEFINE T == {L - s : s \in S}
             R == OpToRel(<, Nat)
  <1>1. \A s \in S : s \in Nat /\ L - s \in Nat
    OBVIOUS
  <1>2. T \subseteq Nat /\ T # {}
    BY <1>1
  <1>3. PICK x \in T : \A y \in T : ~(<<y, x>> \in R)
    <2> HIDE DEF T
    <2>1. IsWellFoundedOn(R, Nat)
      BY NatLessThanWellFounded, Zenon
    <2> HIDE DEF R
    <2> QED
      BY <1>2, <2>1, WFMin, Zenon
  <1>4. \A y \in T : ~(y < x)
    BY <1>2, <1>3 DEF OpToRel
  <1>5. PICK m \in S : x = L - m
    OBVIOUS
  <1>6. ASSUME NEW y \in S PROVE y <= m
    <2>1. ~(L - y < L - m)
      BY <1>4, <1>5
    <2> QED
      BY <1>1, <2>1
  <1> QED
    BY <1>6 DEF Max

(* The next address is above all that are stored.                           *)
LEMMA NextIsAbove ==
  ASSUME ProvisioningTypeOK, RowsOK
  PROVE  /\ NextTunnelIp \in Nat /\ NextTunnelIp >= 2
         /\ \A d \in Devices : Provisioned(d) => device[d].octet < NextTunnelIp
  <1>1. Taken \subseteq 0 .. LastOctet /\ LastOctet \in Nat
          /\ \A o \in Taken : o >= 2
    <2>1. LastOctet \in Nat
      BY ProvisioningAssumption DEF ProvisioningAssumption
    <2>2. \A d \in Devices : device[d].octet \in Octets \cup {0}
      BY DEF ProvisioningTypeOK, Rows
    <2>3. Taken \subseteq Octets
      BY <2>2 DEF Taken
    <2> QED
      BY <2>1, <2>3 DEF Octets
  <1>2. \A d \in Devices : Provisioned(d) => device[d].octet \in Taken
    BY DEF Taken, Provisioned, RowsOK
  <1>3. CASE Taken = {}
    BY <1>2, <1>3 DEF NextTunnelIp
  <1>4. CASE Taken # {}
    <2>1. Max(Taken) \in Taken /\ \A o \in Taken : o <= Max(Taken)
      BY <1>1, <1>4, HighestExists
    <2>2. PICK m \in Taken : m = Max(Taken)
      BY <2>1
    <2>3. m \in Nat /\ m >= 2 /\ NextTunnelIp = m + 1 /\ \A o \in Taken : o \in Nat /\ o <= m
      BY <1>1, <1>4, <2>1, <2>2 DEF NextTunnelIp
    <2> QED
      BY <1>2, <2>3
  <1> QED
    BY <1>3, <1>4

(* An identity stays in order as long as rows that were made do not change  *)
(* their address and nothing unknown becomes known.                         *)
LEMMA StaysHandedOut ==
  ASSUME ProvisioningInv, NEW i \in Scripts, HandedOut(i),
         keys' = keys, overlapped' = "no" => overlapped = "no",
         \A k \in Nat \ {0} : Known(k)' => Known(k),
         \A d \in Devices :
            /\ Made(d) => Made(d)'
            /\ Made(d) /\ device'[d].exists => device[d].exists
            /\ Provisioned(d)' => Provisioned(d)
            /\ device'[d].exists /\ Provisioned(d) =>
                  Provisioned(d)' /\ device'[d].octet = device[d].octet
  PROVE  HandedOut(i)'
  <1>1. i.key \in Nat /\ i.octet \in Nat
    BY ProvisioningRecords DEF Scripts
  <1>2. i.key <= keys'
    BY DEF HandedOut
  <1>3. ASSUME i.dev \in Devices PROVE i.key # 0 /\ Made(i.dev)'
    BY <1>3 DEF HandedOut
  <1>4. ASSUME i.dev \in Devices, overlapped' = "no", Known(i.key)', device'[i.dev].exists
        PROVE  Fits(i)'
    <2>1. Fits(i)
      BY <1>1, <1>4 DEF HandedOut
    <2>2. Provisioned(i.dev)' /\ device'[i.dev].octet = device[i.dev].octet
      BY <1>4, <2>1 DEF Fits
    <2>3. ASSUME NEW e \in Devices \ {i.dev}, Provisioned(e)'
          PROVE  device'[e].octet # i.octet
      BY <2>1, <2>3 DEF Fits, Provisioned
    <2> QED
      BY <2>1, <2>2, <2>3 DEF Fits
  <1> QED
    BY <1>2, <1>3, <1>4 DEF HandedOut

(* The rest of the invariant, for a step that issues and stores nothing.    *)
LEMMA NothingStored ==
  ASSUME ProvisioningInv, ProvisioningTypeOK',
         keys' = keys, shown' = shown,
         overlapped' = overlapped,
         \A r \in Routers : router'[r] = router[r],
         \A c \in Calls :
            \/ call'[c] = call[c]
            \/ call'[c].pc = "idle"
            \/ call'[c].pc = "address" /\ \E d \in Devices : call'[c].dev = d /\ Made(d)',
         \A k \in Nat \ {0} : Known(k)' => Known(k),
         \A d \in Devices :
            /\ device'[d].key # 0 <=> device'[d].octet # 0
            /\ ~device'[d].exists => device'[d].key = 0
            /\ Made(d) => Made(d)'
            /\ Made(d) /\ device'[d].exists => device[d].exists
            /\ Provisioned(d)' => Provisioned(d) /\ device'[d].octet = device[d].octet
            /\ device'[d].exists /\ Provisioned(d) => Provisioned(d)'
  PROVE  ProvisioningInv'
  <1>1. RowsOK'
    BY DEF RowsOK
  <1>2. CallsOK'
    <2> SUFFICES ASSUME NEW c \in Calls
                 PROVE  /\ call'[c].pc # "idle" =>
                              \E d \in Devices : call'[c].dev = d /\ Made(d)'
                        /\ call'[c].pc = "store" => call'[c].octet >= 2
      BY DEF CallsOK, Made
    <2>1. /\ call[c].pc # "idle" => call[c].dev \in Devices /\ Made(call[c].dev)
          /\ call[c].pc = "store" => call[c].octet >= 2
      BY DEF ProvisioningInv, CallsOK
    <2>2. CASE call'[c] = call[c]
      BY <2>1, <2>2
    <2>3. CASE call'[c] # call[c]
      BY <2>3
    <2> QED
      BY <2>2, <2>3
  <1>3. KeysOK'
    <2>1. keys \in Nat
      BY ProvisioningAssumption DEF ProvisioningAssumption, ProvisioningInv, ProvisioningTypeOK
    <2> QED
      BY <2>1 DEF ProvisioningInv, KeysOK
  <1>4. Apart'
    <2> SUFFICES ASSUME overlapped # "same"
                 PROVE  /\ \A d, e \in Devices :
                              d # e /\ Provisioned(d)' /\ Provisioned(e)' =>
                                  device'[d].octet # device'[e].octet
                        /\ \A c \in Calls, d \in Devices :
                              call'[c].pc = "store" /\ Provisioned(d)' =>
                                  device'[d].octet # call'[c].octet
                        /\ \A b, c \in Calls :
                              b # c /\ call'[b].pc = "store" /\ call'[c].pc = "store" =>
                                  call'[b].octet # call'[c].octet
      BY DEF Apart
    <2>1. \A c \in Calls : call'[c].pc = "store" => call'[c] = call[c]
      OBVIOUS
    <2>2. Apart
      BY DEF ProvisioningInv
    <2>3. ASSUME NEW d \in Devices, NEW e \in Devices, d # e,
                 Provisioned(d)', Provisioned(e)'
          PROVE  device'[d].octet # device'[e].octet
      BY <2>2, <2>3 DEF Apart
    <2>4. ASSUME NEW c \in Calls, NEW d \in Devices, call'[c].pc = "store", Provisioned(d)'
          PROVE  device'[d].octet # call'[c].octet
      BY <2>1, <2>2, <2>4 DEF Apart
    <2>5. ASSUME NEW b \in Calls, NEW c \in Calls, b # c,
                 call'[b].pc = "store", call'[c].pc = "store"
          PROVE  call'[b].octet # call'[c].octet
      BY <2>1, <2>2, <2>5 DEF Apart
    <2> QED
      BY <2>3, <2>4, <2>5
  <1>5. InTurn'
    <2>1. \A c \in Calls : call'[c].pc = "store" => call'[c] = call[c]
      OBVIOUS
    <2>2. InTurn
      BY DEF ProvisioningInv
    <2> QED
      BY <2>1, <2>2 DEF InTurn
  <1>6. ASSUME NEW i \in Scripts, HandedOut(i) PROVE HandedOut(i)'
    BY <1>6, StaysHandedOut
  <1>7. /\ \A r \in Routers : router[r] \in Scripts /\ HandedOut(router[r])
        /\ \A d \in Devices : shown[d] \in Scripts /\ HandedOut(shown[d])
    BY DEF ProvisioningInv, ProvisioningTypeOK
  <1>8. \A r \in Routers : HandedOut(router[r])'
    <2>1. ASSUME NEW r \in Routers PROVE HandedOut(router[r])'
      <3> PICK i \in Scripts : i = router[r]
        BY <1>7
      <3>1. HandedOut(i)' /\ router'[r] = i
        BY <1>6, <1>7
      <3> QED
        BY <3>1 DEF HandedOut, Fits
    <2> QED
      BY <2>1
  <1>9. \A d \in Devices : HandedOut(shown[d])'
    <2>1. ASSUME NEW d \in Devices PROVE HandedOut(shown[d])'
      <3> PICK i \in Scripts : i = shown[d]
        BY <1>7
      <3>1. HandedOut(i)' /\ shown'[d] = i
        BY <1>6, <1>7
      <3> QED
        BY <3>1 DEF HandedOut, Fits
    <2> QED
      BY <2>1
  <1> QED
    BY <1>1, <1>2, <1>3, <1>4, <1>5, <1>8, <1>9 DEF ProvisioningInv

(* Steps that leave the rows and the hub alone make nothing known.          *)
LEMMA NothingKnown ==
  ASSUME UNCHANGED <<device, hub>>
  PROVE  \A k : Known(k)' <=> Known(k)
  BY DEF Known, hub

-----------------------------------------------------------------------------
(* The actions. *)

LEMMA InvCreate ==
  ASSUME ProvisioningInv, NEW d \in Devices, CreateDevice(d)
  PROVE  ProvisioningInv'
  <1> USE DEF CreateDevice, page, hub
  <1>1. /\ device' = [device EXCEPT ![d].exists = TRUE] /\ device \in [Devices -> Rows]
        /\ device[d] = Unregistered
    BY DEF ProvisioningInv, ProvisioningTypeOK
  <1> PICK made \in Rows : made = [Unregistered EXCEPT !.exists = TRUE]
    BY ProvisioningRecords DEF Rows
  <1>7. made.exists /\ made.key = 0 /\ made.octet = 0
    BY ProvisioningRecords DEF Rows
  <1>2. /\ device' \in [Devices -> Rows] /\ device'[d] = made
        /\ \A e \in Devices \ {d} : device'[e] = device[e]
    BY <1>1
  <1>3. ProvisioningTypeOK'
    BY <1>2 DEF ProvisioningInv, ProvisioningTypeOK
  <1>4. ~device[d].exists /\ device[d].key = 0 /\ ~Made(d)
    BY <1>1, ProvisioningRecords DEF Made
  <1>5. \A k \in Nat \ {0} : Known(k)' => Known(k)
    BY <1>7, <1>2 DEF Known
  <1>6. RowsOK
    BY DEF ProvisioningInv
  <1> QED
    BY <1>7, <1>2, <1>3, <1>4, <1>5, <1>6, NothingStored DEF RowsOK, Made, Provisioned

LEMMA InvDelete ==
  ASSUME ProvisioningInv, NEW d \in Devices, DeleteDevice(d)
  PROVE  ProvisioningInv'
  <1> USE DEF DeleteDevice, page, hub
  <1> PICK gone \in Rows : gone = [Unregistered EXCEPT !.status = "offline"]
    BY ProvisioningRecords DEF Rows
  <1>1. ~gone.exists /\ gone.key = 0 /\ gone.octet = 0 /\ gone.status = "offline"
    BY ProvisioningRecords DEF Rows
  <1>2. /\ device' = [device EXCEPT ![d] = gone] /\ device \in [Devices -> Rows]
        /\ quiet' = [quiet EXCEPT ![d] = FALSE] /\ device[d].exists
    BY DEF ProvisioningInv, ProvisioningTypeOK
  <1>3. /\ device' \in [Devices -> Rows] /\ device'[d] = gone
        /\ \A e \in Devices \ {d} : device'[e] = device[e]
    BY <1>2
  <1>4. ProvisioningTypeOK'
    BY <1>2, <1>3 DEF ProvisioningInv, ProvisioningTypeOK
  <1>5. \A k \in Nat \ {0} : Known(k)' => Known(k)
    BY <1>1, <1>3 DEF Known
  <1>6. RowsOK
    BY DEF ProvisioningInv
  <1> QED
    BY <1>1, <1>2, <1>3, <1>4, <1>5, <1>6, NothingStored DEF RowsOK, Made, Provisioned

(* The status of a row changes, but not to that of one never made.          *)
LEMMA InvStatus ==
  ASSUME ProvisioningInv, ProvisioningTypeOK', UNCHANGED <<page, router, hub, overlapped>>,
         \A d \in Devices :
            /\ device'[d].exists = device[d].exists
            /\ device'[d].key = device[d].key /\ device'[d].octet = device[d].octet
            /\ ~device[d].exists => device'[d].status = device[d].status
  PROVE  ProvisioningInv'
  <1>1. \A k \in Nat \ {0} : Known(k)' => Known(k)
    BY DEF Known, hub
  <1>2. RowsOK
    BY DEF ProvisioningInv
  <1> QED
    BY <1>1, <1>2, NothingStored DEF RowsOK, Made, Provisioned, page

LEMMA InvBeats ==
  ASSUME ProvisioningInv,
         \/ \E r \in Routers : Heartbeat(r) \/ StoreHeartbeat(r)
         \/ \E d \in Devices : TenMinutes(d)
         \/ Sweep
  PROVE  ProvisioningInv'
  <1>1. ProvisioningTypeOK
    BY DEF ProvisioningInv
  <1>2. ASSUME NEW r \in Routers, Heartbeat(r) PROVE ProvisioningInv'
    <2>1. ProvisioningTypeOK'
      BY <1>1, <1>2 DEF Heartbeat, rows, page, hub, ProvisioningTypeOK
    <2> QED
      BY <1>2, <2>1, InvStatus DEF Heartbeat, rows
  <1>3. ASSUME NEW r \in Routers, StoreHeartbeat(r) PROVE ProvisioningInv'
    <2> PICK d \in Devices : d = beat[r]
      BY <1>1, <1>3 DEF StoreHeartbeat, ProvisioningTypeOK
    <2>1. /\ beat' = [beat EXCEPT ![r] = NoDevice]
          /\ UNCHANGED <<page, router, hub, overlapped, faults>>
          /\ \/ /\ device[d].exists /\ device' = [device EXCEPT ![d].status = "linked"]
                /\ quiet' = [quiet EXCEPT ![d] = FALSE]
             \/ UNCHANGED <<device, quiet>>
      BY <1>3 DEF StoreHeartbeat, Linked, rows
    <2>2. /\ device' \in [Devices -> Rows]
          /\ \A e \in Devices :
                /\ device'[e].exists = device[e].exists
                /\ device'[e].key = device[e].key /\ device'[e].octet = device[e].octet
                /\ ~device[e].exists => device'[e].status = device[e].status
      <3>1. device \in [Devices -> Rows]
        BY <1>1 DEF ProvisioningTypeOK
      <3> PICK linked \in Rows : linked = [device[d] EXCEPT !.status = "linked"]
        BY <3>1 DEF Rows
      <3>2. /\ linked.exists = device[d].exists /\ linked.key = device[d].key
            /\ linked.octet = device[d].octet
        BY <3>1 DEF Rows
      <3>3. CASE UNCHANGED device
        BY <3>1, <3>3
      <3>4. CASE device[d].exists /\ device' = [device EXCEPT ![d].status = "linked"]
        <4>1. /\ device' \in [Devices -> Rows] /\ device'[d] = linked
              /\ \A e \in Devices \ {d} : device'[e] = device[e]
          BY <3>1, <3>4
        <4> QED
          BY <3>2, <3>4, <4>1
      <3> QED
        BY <2>1, <3>3, <3>4
    <2>3. ProvisioningTypeOK'
      BY <1>1, <2>1, <2>2 DEF ProvisioningTypeOK, page, hub
    <2> QED
      BY <2>1, <2>2, <2>3, InvStatus
  <1>4. ASSUME NEW d \in Devices, TenMinutes(d) PROVE ProvisioningInv'
    <2>1. ProvisioningTypeOK'
      BY <1>1, <1>4 DEF TenMinutes, page, hub, ProvisioningTypeOK
    <2> QED
      BY <1>4, <2>1, InvStatus DEF TenMinutes
  <1>5. CASE Sweep
    <2>1. /\ device' = [d \in Devices |-> IF Stale(d) THEN [device[d] EXCEPT !.status = "offline"]
                                          ELSE device[d]]
          /\ quiet' = [d \in Devices |-> quiet[d] /\ ~Stale(d)]
          /\ UNCHANGED <<page, router, beat, hub, overlapped, faults>>
      BY <1>5 DEF Sweep
    <2>2. ASSUME NEW e \in Devices
          PROVE  /\ device'[e] \in Rows /\ device'[e].exists = device[e].exists
                 /\ device'[e].key = device[e].key /\ device'[e].octet = device[e].octet
                 /\ ~device[e].exists => device'[e].status = device[e].status
      <3>1. device[e] \in Rows
        BY <1>1 DEF ProvisioningTypeOK
      <3>2. CASE Stale(e)
        BY <2>1, <3>1, <3>2 DEF Rows, Stale
      <3>3. CASE ~Stale(e)
        BY <2>1, <3>1, <3>3
      <3> QED
        BY <3>2, <3>3
    <2>3. device' \in [Devices -> Rows] /\ quiet' \in [Devices -> BOOLEAN]
      <3>1. quiet' \in [Devices -> BOOLEAN]
        BY <2>1, Zenon
      <3> QED
        BY <2>1, <2>2, <3>1
    <2>4. ProvisioningTypeOK'
      BY <1>1, <2>1, <2>3 DEF ProvisioningTypeOK, page, hub
    <2> QED
      BY <2>1, <2>2, <2>4, InvStatus
  <1> QED
    BY <1>2, <1>3, <1>4, <1>5

LEMMA InvCalls ==
  ASSUME ProvisioningInv, NEW c \in Calls,
         (\E d \in Devices, confirm \in BOOLEAN : ReadDevice(c, d, confirm)) \/ CallFails(c)
  PROVE  ProvisioningInv'
  <1>1. /\ call \in [Calls -> CallStates] /\ RowsOK
        /\ \A k \in Nat \ {0} : Known(k)' => Known(k)
    BY NothingKnown DEF ProvisioningInv, ProvisioningTypeOK, ReadDevice, CallFails, rows, hub
  <1>2. ASSUME NEW d \in Devices, NEW confirm \in BOOLEAN, ReadDevice(c, d, confirm)
        PROVE  ProvisioningInv'
    <2>1. /\ call' = [call EXCEPT ![c] = [pc |-> "address", dev |-> d, octet |-> 0]]
          /\ UNCHANGED <<device, quiet, keys, shown, router, beat, peers, sync, overlapped, faults>>
          /\ Made(d)
      BY <1>2 DEF ReadDevice, rows, hub, Made
    <2>2. [pc |-> "address", dev |-> d, octet |-> 0] \in CallStates
      BY DEF CallStates
    <2>3. ProvisioningTypeOK'
      BY <1>1, <2>1, <2>2 DEF ProvisioningInv, ProvisioningTypeOK
    <2>4. \A b \in Calls :
             \/ call'[b] = call[b]
             \/ call'[b].pc = "address" /\ call'[b].dev = d
      BY <1>1, <2>1
    <2>5. Made(d)'
      BY <2>1 DEF Made
    <2> QED
      BY <1>1, <2>1, <2>3, <2>4, <2>5, NothingStored DEF RowsOK, Made, Provisioned
  <1>3. CASE CallFails(c)
    <2>1. /\ call' = [call EXCEPT ![c] = NoCall] /\ faults' \in 0 .. MaxFaults
          /\ UNCHANGED <<device, quiet, keys, shown, router, beat, peers, sync, overlapped>>
      BY <1>3, ProvisioningRecords
         DEF CallFails, Fault, rows, hub, ProvisioningInv, ProvisioningTypeOK
    <2>2. ProvisioningTypeOK'
      BY <1>1, <2>1, ProvisioningRecords DEF ProvisioningInv, ProvisioningTypeOK
    <2>3. \A b \in Calls : call'[b] = call[b] \/ call'[b].pc = "idle"
      BY <1>1, <2>1, ProvisioningRecords
    <2> QED
      BY <1>1, <2>1, <2>2, <2>3, NothingStored DEF RowsOK, Made, Provisioned
  <1> QED
    BY <1>2, <1>3

(* A router gets the identity of a row, or one that was shown.              *)
LEMMA InvRun ==
  ASSUME ProvisioningInv, NEW r \in Routers, NEW d \in Devices, RunScript(r, d)
  PROVE  ProvisioningInv'
  <1>1. ProvisioningTypeOK /\ RowsOK
    BY DEF ProvisioningInv
  <1>2. UNCHANGED <<device, quiet, keys, call, shown, beat, peers, sync, overlapped, faults>>
    BY DEF RunScript, rows, page, hub
  <1>3. PICK i \in Scripts : router' = [router EXCEPT ![r] = i] /\ HandedOut(i)
    <2>1. CASE Provisioned(d) /\ router' = [router EXCEPT ![r] = Identity(d)]
      <3>1. device[d] \in Rows /\ device[d].key \in 0 .. MaxKeys /\ device[d].octet \in Nat
        BY <1>1 DEF ProvisioningTypeOK, Rows, Octets
      <3> PICK i \in Scripts : i = Identity(d)
        BY <3>1 DEF Identity, Scripts
      <3>2. i.dev = d /\ i.key = device[d].key /\ i.octet = device[d].octet
        BY DEF Identity
      <3>3. i.key <= keys /\ i.key # 0
        BY <2>1, <3>1, <3>2, ProvisioningRecords DEF ProvisioningInv, KeysOK, Known, Provisioned
      <3>4. overlapped = "no" => Fits(i)
        BY <2>1, <3>1, <3>2 DEF ProvisioningInv, Apart, Fits
      <3>5. HandedOut(i)
        BY <2>1, <3>2, <3>3, <3>4 DEF HandedOut, Made, Provisioned
      <3> QED
        BY <2>1, <3>5
    <2>2. CASE router' = [router EXCEPT ![r] = shown[d]]
      BY <1>1, <2>2 DEF ProvisioningInv, ProvisioningTypeOK
    <2> QED
      BY <2>1, <2>2 DEF RunScript
  <1>4. router' \in [Routers -> Scripts]
          /\ \A q \in Routers : router'[q] = router[q] \/ router'[q] = i
    BY <1>1, <1>3 DEF ProvisioningTypeOK
  <1>5. ProvisioningTypeOK'
    BY <1>1, <1>2, <1>4 DEF ProvisioningTypeOK
  <1>6. ASSUME NEW q \in Routers PROVE HandedOut(router[q])'
    BY <1>2, <1>3, <1>4 DEF ProvisioningInv, HandedOut, Fits, Made, Known, Provisioned
  <1>7. \A e \in Devices : HandedOut(shown[e])'
    BY <1>2 DEF ProvisioningInv, HandedOut, Fits, Made, Known, Provisioned
  <1>8. RowsOK' /\ CallsOK' /\ KeysOK' /\ Apart' /\ InTurn'
    BY <1>2 DEF ProvisioningInv, RowsOK, CallsOK, KeysOK, Apart, InTurn, Made, Known,
                Provisioned
  <1> QED
    BY <1>5, <1>6, <1>7, <1>8 DEF ProvisioningInv

(* The peers have keys and addresses in range, each key known before or     *)
(* listed.                                                                  *)
PeersFit(after, list) ==
  /\ DOMAIN after \subseteq Keys
  /\ \A k \in DOMAIN after : after[k] \in Octets \cup {0}
  /\ \A k \in DOMAIN after : k \in DOMAIN peers \/ \E p \in list : p.key = k

(* Applying a list leaves keys of the list or of before, with addresses of  *)
(* either.                                                                  *)
LEMMA PeersOf ==
  ASSUME NEW list, list \subseteq Listed, NEW failed, NEW last, NEW after,
         after = Peering(list, failed, last),
         DOMAIN peers \subseteq Keys, \A k \in DOMAIN peers : peers[k] \in Octets \cup {0}
  PROVE  PeersFit(after, list)
  <1> DEFINE applied == {p \in list : p.key \notin failed}
             AddressOf(k) == (CHOOSE p \in applied : p.key = k).octet
             Winner(o) == \E p \in applied : p.octet = o
             kept == Kept({p.key : p \in list}, failed)
  <1>1. \A p \in list : p.key \in Keys /\ p.octet \in Octets
    BY DEF Listed
  <1>2. \A k \in kept : k \in DOMAIN peers \/ \E p \in list : p.key = k
    BY DEF Kept
  <1>3. \A k \in kept : (\A p \in applied : p.key # k) => k \in DOMAIN peers
    BY DEF Kept
  <1>4. ASSUME NEW k, \E p \in applied : p.key = k PROVE AddressOf(k) \in Octets
    BY <1>1, <1>4
  <1>5. after = [k \in kept |->
            IF \E p \in applied : p.key = k
            THEN IF last[AddressOf(k)] = k THEN AddressOf(k) ELSE 0
            ELSE IF Winner(peers[k]) THEN 0 ELSE peers[k]]
    BY DEF Peering
  <1> HIDE DEF kept, applied, AddressOf, Winner
  <1>6. DOMAIN after = kept
    BY <1>5
  <1>7. ASSUME NEW k \in kept PROVE after[k] \in Octets \cup {0}
    <2>1. CASE \E p \in applied : p.key = k
      BY <1>4, <1>5, <2>1
    <2>2. CASE \A p \in applied : p.key # k
      BY <1>3, <1>5, <2>2
    <2> QED
      BY <2>1, <2>2
  <1>8. kept \subseteq Keys
    BY <1>1, <1>2
  <1> QED
    BY <1>2, <1>6, <1>7, <1>8 DEF PeersFit

LEMMA InvHub ==
  ASSUME ProvisioningInv,
         (\E w \in Syncs : ListPeers(w) \/ ListFails(w) \/ ApplyPeers(w)) \/ Restart
  PROVE  ProvisioningInv'
  <1>1. /\ ProvisioningTypeOK /\ RowsOK
        /\ sync \in [Syncs -> SyncStates] /\ DOMAIN peers \subseteq Keys
        /\ \A k \in DOMAIN peers : peers[k] \in Octets \cup {0}
        /\ \A w \in Syncs : sync[w].list \in SUBSET Listed
    BY DEF ProvisioningInv, ProvisioningTypeOK, SyncStates
  <1>2. ASSUME UNCHANGED <<rows, page, router, beat, overlapped>>, faults' \in 0 .. MaxFaults,
               sync' \in [Syncs -> SyncStates], DOMAIN peers' \subseteq Keys,
               \A k \in DOMAIN peers' : peers'[k] \in Octets \cup {0},
               \A k \in Nat \ {0} : Known(k)' => Known(k)
        PROVE  ProvisioningInv'
    <2>1. UNCHANGED <<device, quiet, keys, call, shown, router, beat, overlapped>>
      BY <1>2 DEF rows, page
    <2>2. ProvisioningTypeOK'
      BY <1>1, <1>2, <2>1 DEF ProvisioningTypeOK
    <2> QED
      BY <1>1, <1>2, <2>1, <2>2, NothingStored DEF RowsOK, Made, Provisioned
  <1>3. faults \in 0 .. MaxFaults
    BY <1>1 DEF ProvisioningTypeOK
  <1>4. ASSUME NEW w \in Syncs, ListPeers(w) PROVE ProvisioningInv'
    <2>1. /\ sync' = [sync EXCEPT ![w] = [pc |-> "apply", list |-> Listing]]
          /\ UNCHANGED <<rows, page, router, beat, peers, overlapped, faults>>
      BY <1>4 DEF ListPeers
    <2>2. Listing \in SUBSET Listed
      <3>1. ASSUME NEW d \in Devices, Provisioned(d)
            PROVE  device[d].key \in Keys /\ device[d].octet \in Octets
        <4>1. /\ device[d].key \in 0 .. MaxKeys /\ device[d].octet \in Octets \cup {0}
              /\ device[d].key # 0 /\ device[d].octet # 0
          BY <1>1, <3>1 DEF ProvisioningTypeOK, Rows, RowsOK, Provisioned
        <4> QED
          BY <4>1, ProvisioningRecords DEF Keys
      <3> QED
        BY <3>1 DEF Listing, Listed
    <2>3. sync' \in [Syncs -> SyncStates]
      BY <1>1, <2>1, <2>2 DEF SyncStates
    <2>4. \A k \in Nat \ {0} : Known(k)' => Known(k)
      <3>1. ASSUME NEW v \in Syncs, NEW p \in sync'[v].list PROVE Known(p.key)
        <4>1. CASE v = w
          BY <1>1, <2>1, <3>1, <4>1 DEF Listing, Known
        <4>2. CASE v # w
          BY <1>1, <2>1, <3>1, <4>2 DEF Known
        <4> QED
          BY <4>1, <4>2
      <3> QED
        BY <2>1, <3>1 DEF Known, rows
    <2> QED
      BY <1>1, <1>2, <1>3, <2>1, <2>3, <2>4
  <1>5. ASSUME NEW w \in Syncs, ListFails(w) PROVE ProvisioningInv'
    <2>1. /\ UNCHANGED <<rows, page, router, beat, peers, overlapped>>
          /\ faults' \in 0 .. MaxFaults /\ sync' = [sync EXCEPT ![w] = NoSync]
      BY <1>3, <1>5, ProvisioningRecords DEF ListFails, Fault
    <2>2. sync' \in [Syncs -> SyncStates]
            /\ \A v \in Syncs : sync'[v] = sync[v] \/ sync'[v].list = {}
      BY <1>1, <2>1, ProvisioningRecords
    <2>3. \A k \in Nat \ {0} : Known(k)' => Known(k)
      BY <2>1, <2>2 DEF Known, rows
    <2> QED
      BY <1>1, <1>2, <2>1, <2>2, <2>3
  <1>6. ASSUME NEW w \in Syncs, ApplyPeers(w) PROVE ProvisioningInv'
    <2>1. PICK failed, last : peers' = Peering(sync[w].list, failed, last)
      BY <1>6 DEF ApplyPeers
    <2>2. /\ UNCHANGED <<rows, page, router, beat, overlapped>> /\ faults' \in 0 .. MaxFaults
          /\ sync' = [sync EXCEPT ![w] = NoSync]
      BY <1>3, <1>6, ProvisioningRecords DEF ApplyPeers, Fault
    <2> PICK list \in SUBSET Listed : list = sync[w].list
      BY <1>1
    <2>3. /\ DOMAIN peers' \subseteq Keys
          /\ \A k \in DOMAIN peers' : peers'[k] \in Octets \cup {0}
          /\ \A k \in DOMAIN peers' : k \in DOMAIN peers \/ \E p \in list : p.key = k
      <3> PICK after : after = peers'
        OBVIOUS
      <3>1. after = Peering(list, failed, last)
        BY <2>1
      <3>2. PeersFit(after, list)
        <4>1. /\ DOMAIN peers \subseteq Keys
              /\ \A k \in DOMAIN peers : peers[k] \in Octets \cup {0}
          BY <1>1
        <4> QED
          BY <3>1, <4>1, PeersOf
      <3> QED
        BY <3>2 DEF PeersFit
    <2>4. sync' \in [Syncs -> SyncStates]
            /\ \A v \in Syncs : sync'[v] = sync[v] \/ sync'[v].list = {}
      BY <1>1, <2>2, ProvisioningRecords
    <2>5. \A k \in Nat \ {0} : Known(k)' => Known(k)
      BY <2>2, <2>3, <2>4 DEF Known, rows
    <2> QED
      BY <1>2, <2>2, <2>3, <2>4, <2>5
  <1>7. CASE Restart
    <2>1. /\ UNCHANGED <<rows, page, router, beat, overlapped>> /\ faults' \in 0 .. MaxFaults
          /\ peers' = <<>> /\ sync' = [v \in Syncs |-> NoSync]
      BY <1>3, <1>7, ProvisioningRecords DEF Restart, Fault
    <2>2. sync' \in [Syncs -> SyncStates] /\ \A v \in Syncs : sync'[v].list = {}
      BY <2>1, ProvisioningRecords
    <2>3. DOMAIN peers' = {}
      BY <2>1
    <2>4. \A k \in Nat \ {0} : Known(k)' => Known(k)
      BY <2>1, <2>2, <2>3 DEF Known, rows
    <2> QED
      BY <1>2, <2>1, <2>2, <2>3, <2>4
  <1> QED
    BY <1>4, <1>5, <1>6, <1>7

(* Picking an address.                                                      *)
LEMMA InvNext ==
  ASSUME ProvisioningInv, NEW c \in Calls, NextAddress(c)
  PROVE  ProvisioningInv'
  <1>1. ProvisioningTypeOK /\ RowsOK /\ call \in [Calls -> CallStates]
    BY DEF ProvisioningInv, ProvisioningTypeOK
  <1>2. PICK o \in Nat : /\ o = NextTunnelIp /\ o >= 2
                         /\ \A d \in Devices : Provisioned(d) => device[d].octet < o
    BY <1>1, NextIsAbove
  <1>3. /\ call[c].pc = "address" /\ call' = [call EXCEPT ![c].pc = "store", ![c].octet = o]
        /\ UNCHANGED <<device, quiet, keys, shown, router, beat, peers, sync, faults>>
    BY <1>2 DEF NextAddress, rows, hub
  <1>4. /\ overlapped' \in {"no", "other", "same"}
        /\ overlapped' # "same" =>
              overlapped # "same" /\ \A b \in Calls : call[b].pc = "store" => call[b].octet # o
        /\ overlapped' = "no" =>
              overlapped = "no" /\ \A b \in Calls : call[b].pc # "store"
    BY <1>1, <1>2 DEF NextAddress, ProvisioningTypeOK
  <1> PICK r \in CallStates : r = [call[c] EXCEPT !.pc = "store", !.octet = o]
    BY <1>1 DEF CallStates
  <1>5. r.pc = "store" /\ r.octet = o /\ r.dev = call[c].dev
    BY <1>1 DEF CallStates
  <1>6. call' \in [Calls -> CallStates] /\ call'[c] = r
          /\ \A b \in Calls \ {c} : call'[b] = call[b]
    BY <1>1, <1>3
  <1>7. ProvisioningTypeOK'
    BY <1>1, <1>3, <1>4, <1>6 DEF ProvisioningTypeOK
  <1>8. RowsOK' /\ KeysOK'
    BY <1>3 DEF ProvisioningInv, RowsOK, KeysOK, Known
  <1>9. CallsOK'
    <2>1. ASSUME NEW b \in Calls
          PROVE  /\ call'[b].pc # "idle" => call'[b].dev \in Devices /\ call'[b].dev = call[b].dev
                 /\ call'[b].pc # "idle" => Made(call[b].dev)
                 /\ call'[b].pc = "store" => call'[b].octet >= 2
      BY <1>2, <1>3, <1>5, <1>6 DEF ProvisioningInv, CallsOK
    <2> QED
      BY <1>3, <2>1 DEF CallsOK, Made
  <1>10. Apart'
    <2>1. \A d \in Devices : Provisioned(d)' <=> Provisioned(d)
      BY <1>3 DEF Provisioned
    <2> SUFFICES ASSUME overlapped' # "same" PROVE Apart'
      BY DEF Apart
    <2>2. \A b \in Calls, d \in Devices :
             call'[b].pc = "store" /\ Provisioned(d)' => device'[d].octet # call'[b].octet
      <3>1. ASSUME NEW b \in Calls, NEW d \in Devices, call'[b].pc = "store", Provisioned(d)
            PROVE  device[d].octet # call'[b].octet
        <4>1. CASE b = c
          <5>1. device[d].octet \in Nat /\ device[d].octet < o
            BY <1>1, <1>2, <3>1 DEF ProvisioningTypeOK, Rows, Octets
          <5> QED
            <6>1. call'[b].octet = o
              BY <1>5, <1>6, <4>1
            <6> QED
              BY <1>2, <5>1, <6>1
        <4>2. CASE b # c
          <5>1. call'[b] = call[b] /\ overlapped # "same" /\ Apart
            BY <1>4, <1>6, <4>2 DEF ProvisioningInv
          <5> QED
            BY <3>1, <5>1 DEF Apart
        <4> QED
          BY <4>1, <4>2
      <3> QED
        BY <1>3, <2>1, <3>1
    <2>3. ASSUME NEW b \in Calls, NEW e \in Calls, b # e,
                 call'[b].pc = "store", call'[e].pc = "store"
          PROVE  call'[b].octet # call'[e].octet
      <3>1. Apart /\ overlapped # "same"
              /\ \A a \in Calls : call[a].pc = "store" => call[a].octet # o
        BY <1>4 DEF ProvisioningInv
      <3>2. CASE b = c
        BY <1>5, <1>6, <2>3, <3>1, <3>2
      <3>3. CASE e = c
        BY <1>5, <1>6, <2>3, <3>1, <3>3
      <3>4. CASE b # c /\ e # c
        BY <1>6, <2>3, <3>1, <3>4 DEF Apart
      <3> QED
        BY <3>2, <3>3, <3>4
    <2> QED
      BY <1>3, <1>4, <2>1, <2>2, <2>3 DEF ProvisioningInv, Apart
  <1>11. InTurn'
    <2>1. \A d \in Devices : Provisioned(d)' <=> Provisioned(d)
      BY <1>3 DEF Provisioned
    <2> QED
      BY <1>2, <1>3, <1>4, <1>5, <1>6, <2>1 DEF InTurn
  <1>12. (\A q \in Routers : HandedOut(router[q])') /\ (\A d \in Devices : HandedOut(shown[d])')
    BY <1>3, <1>4 DEF ProvisioningInv, HandedOut, Fits, Made, Known, Provisioned
  <1> QED
    BY <1>7, <1>8, <1>9, <1>10, <1>11, <1>12 DEF ProvisioningInv

(* Storing an identity, or not: the script is shown either way.             *)
LEMMA InvStore ==
  ASSUME ProvisioningInv, NEW c \in Calls, StoreIdentity(c)
  PROVE  ProvisioningInv'
  <1>1. /\ ProvisioningTypeOK /\ RowsOK /\ CallsOK /\ KeysOK /\ Apart /\ InTurn
        /\ call \in [Calls -> CallStates] /\ device \in [Devices -> Rows]
        /\ quiet \in [Devices -> BOOLEAN] /\ shown \in [Devices -> Scripts]
        /\ keys \in 0 .. MaxKeys /\ keys < MaxKeys
    BY DEF ProvisioningInv, ProvisioningTypeOK, StoreIdentity
  <1> PICK d \in Devices : d = call[c].dev /\ Made(d)
    BY DEF ProvisioningInv, CallsOK, StoreIdentity
  <1> PICK o \in Nat : o = call[c].octet /\ o >= 2
    BY <1>1 DEF CallsOK, CallStates, StoreIdentity
  <1> PICK key \in Keys : key = keys + 1
    BY <1>1, ProvisioningRecords DEF Keys
  <1> PICK i \in Scripts : i = [dev |-> d, key |-> key, octet |-> o]
    <2>1. key \in 0 .. MaxKeys
      BY ProvisioningRecords DEF Keys
    <2>2. [dev |-> d, key |-> key, octet |-> o] \in Scripts
      BY <2>1 DEF Scripts
    <2> QED
      BY <2>2
  <1>2. i.dev = d /\ i.key = key /\ i.octet = o
    OBVIOUS
  <1>3. /\ call[c].pc = "store" /\ keys' = key
        /\ shown' = [shown EXCEPT ![d] = i]
        /\ call' = [call EXCEPT ![c] = NoCall]
        /\ UNCHANGED <<router, beat, peers, sync, overlapped>>
        /\ quiet' = [quiet EXCEPT ![d] = @ /\ device'[d].status = "linked"]
        /\ faults' \in 0 .. MaxFaults
        /\ \/ /\ device[d].exists /\ o <= LastOctet /\ device' = Stored(d, key, o)
           \/ device' = device
    BY <1>1, ProvisioningRecords DEF StoreIdentity, Fault, hub, ProvisioningTypeOK
  <1>4. /\ call' \in [Calls -> CallStates] /\ call'[c].pc = "idle"
        /\ \A b \in Calls \ {c} : call'[b] = call[b]
    BY <1>1, <1>3, ProvisioningRecords
  <1>5. shown' \in [Devices -> Scripts] /\ shown'[d] = i
          /\ \A e \in Devices \ {d} : shown'[e] = shown[e]
    BY <1>1, <1>3
  <1>6. /\ device' \in [Devices -> Rows]
        /\ \A e \in Devices \ {d} : device'[e] = device[e]
        /\ device'[d].exists = device[d].exists
        /\ \/ device'[d] = device[d]
           \/ /\ device[d].exists /\ device'[d].key = key /\ device'[d].octet = o
              /\ device'[d].status = "pending"
    <2>1. CASE device' = device
      BY <1>1, <2>1
    <2>2. CASE device[d].exists /\ o <= LastOctet /\ device' = Stored(d, key, o)
      <3> PICK row \in Rows :
             row = [device[d] EXCEPT !.key = key, !.octet = o, !.status = "pending"]
        <4>1. key \in 0 .. MaxKeys /\ o \in Octets \cup {0} /\ device[d] \in Rows
          BY <1>1, <2>2, ProvisioningRecords, ProvisioningAssumption
             DEF Octets, Keys, ProvisioningAssumption
        <4>2. [device[d] EXCEPT !.key = key, !.octet = o, !.status = "pending"] \in Rows
          BY <4>1 DEF Rows
        <4> QED
          BY <4>2
      <3>1. device' = [device EXCEPT ![d] = row]
        BY <1>1, <2>2 DEF Stored
      <3>2. /\ row.key = key /\ row.octet = o /\ row.status = "pending"
            /\ row.exists = device[d].exists
        <4>1. device[d] \in Rows
          BY <1>1
        <4> QED
          BY <4>1 DEF Rows
      <3>3. device' \in [Devices -> Rows] /\ device'[d] = row
              /\ \A e \in Devices \ {d} : device'[e] = device[e]
        BY <1>1, <3>1
      <3> QED
        BY <2>2, <3>2, <3>3
    <2> QED
      BY <1>3, <2>1, <2>2
  <1>7. quiet' \in [Devices -> BOOLEAN]
    BY <1>1, <1>3, Zenon
  <1>8. key \in Nat \ {0} /\ key <= MaxKeys /\ keys \in Nat /\ key = keys + 1
    BY <1>1, ProvisioningRecords DEF Keys
  <1>9. ProvisioningTypeOK'
    BY <1>1, <1>3, <1>4, <1>5, <1>6, <1>7, <1>8, ProvisioningRecords DEF ProvisioningTypeOK
  <1>10. RowsOK'
    BY <1>1, <1>6, <1>8 DEF RowsOK
  <1>11. \A e \in Devices : Made(e) => Made(e)'
    BY <1>6 DEF Made
  <1>12. CallsOK'
    <2>1. ASSUME NEW b \in Calls, call'[b].pc # "idle"
          PROVE  /\ \E e \in Devices : call'[b].dev = e /\ Made(e)'
                 /\ call'[b].pc = "store" => call'[b].octet >= 2
      BY <1>1, <1>4, <1>11, <2>1 DEF CallsOK
    <2> QED
      BY <2>1 DEF CallsOK, Made
  <1>13. \A k \in Nat : Known(k)' => Known(k) \/ k = key
    BY <1>3, <1>6 DEF Known
  <1>14. ~Known(key)
    BY <1>1, <1>8 DEF KeysOK
  <1>15. KeysOK'
    BY <1>1, <1>3, <1>8, <1>13 DEF KeysOK
  <1>16. \A e \in Devices \ {d} : Provisioned(e)' <=> Provisioned(e)
    BY <1>6 DEF Provisioned
  <1>17. Apart'
    <2> SUFFICES ASSUME overlapped # "same"
                 PROVE  /\ \A e, f \in Devices :
                              e # f /\ Provisioned(e)' /\ Provisioned(f)' =>
                                  device'[e].octet # device'[f].octet
                        /\ \A b \in Calls, e \in Devices :
                              call'[b].pc = "store" /\ Provisioned(e)' =>
                                  device'[e].octet # call'[b].octet
                        /\ \A a, b \in Calls :
                              a # b /\ call'[a].pc = "store" /\ call'[b].pc = "store" =>
                                  call'[a].octet # call'[b].octet
      BY <1>3 DEF Apart
    <2>1. /\ \A e, f \in Devices :
                e # f /\ Provisioned(e) /\ Provisioned(f) => device[e].octet # device[f].octet
          /\ \A b \in Calls, e \in Devices :
                call[b].pc = "store" /\ Provisioned(e) => device[e].octet # call[b].octet
          /\ \A a, b \in Calls :
                a # b /\ call[a].pc = "store" /\ call[b].pc = "store" =>
                    call[a].octet # call[b].octet
      BY <1>1 DEF Apart
    <2>2. \/ device'[d] = device[d] /\ (Provisioned(d)' <=> Provisioned(d))
          \/ device'[d].octet = o
      BY <1>6 DEF Provisioned
    <2>3. ASSUME NEW e \in Devices \ {d}, Provisioned(e)', Provisioned(d)'
          PROVE  device'[e].octet # device'[d].octet
      <3>1. Provisioned(e) /\ device'[e] = device[e]
        BY <1>6, <1>16, <2>3
      <3> QED
        BY <1>3, <2>1, <2>2, <2>3, <3>1
    <2>4. ASSUME NEW e \in Devices, NEW f \in Devices, e # f, Provisioned(e)', Provisioned(f)'
          PROVE  device'[e].octet # device'[f].octet
      BY <1>6, <1>16, <2>1, <2>3, <2>4
    <2>5. ASSUME NEW b \in Calls, NEW e \in Devices, call'[b].pc = "store", Provisioned(e)'
          PROVE  device'[e].octet # call'[b].octet
      <3>1. b # c /\ call'[b] = call[b] /\ call[b].pc = "store"
        BY <1>4, <2>5
      <3>2. CASE e = d
        BY <1>3, <2>1, <2>2, <2>5, <3>1, <3>2
      <3>3. CASE e # d
        BY <1>6, <1>16, <2>1, <2>5, <3>1, <3>3
      <3> QED
        BY <3>2, <3>3
    <2>6. ASSUME NEW a \in Calls, NEW b \in Calls, a # b,
                 call'[a].pc = "store", call'[b].pc = "store"
          PROVE  call'[a].octet # call'[b].octet
      BY <1>4, <2>1, <2>6
    <2> QED
      BY <2>4, <2>5, <2>6
  <1>18. overlapped = "no" => \A b \in Calls : call'[b].pc # "store"
    BY <1>1, <1>3, <1>4 DEF InTurn
  <1>19. InTurn'
    BY <1>3, <1>18 DEF InTurn
  (* No row had the address, and every stored one was lower.                 *)
  <1>20. overlapped = "no" =>
            /\ \A e \in Devices : Provisioned(e) => device[e].octet < o
            /\ \A e \in Devices : Provisioned(e) => device[e].octet # o
    BY <1>1, <1>3 DEF InTurn, Apart
  <1>21. ASSUME NEW j \in Scripts, HandedOut(j) PROVE HandedOut(j)'
    <2>1. j.key \in Nat /\ j.octet \in Nat /\ j.key <= keys /\ j.key # key
      BY <1>8, <1>21, ProvisioningRecords DEF Scripts, HandedOut
    <2>2. ASSUME j.dev \in Devices PROVE j.key # 0 /\ Made(j.dev)'
      BY <1>11, <1>21, <2>2 DEF HandedOut
    <2>3. ASSUME j.dev \in Devices, overlapped = "no", Known(j.key)', device'[j.dev].exists
          PROVE  Fits(j)'
      <3>1. Fits(j) /\ device[j.dev].exists
        BY <1>6, <1>13, <1>21, <2>1, <2>3 DEF HandedOut
      <3>2. j.octet <= device[j.dev].octet /\ device[j.dev].octet < o
              /\ device[j.dev].octet \in Nat
        BY <1>1, <1>20, <2>3, <3>1 DEF Fits, ProvisioningTypeOK, Rows, Octets
      <3>3. Provisioned(j.dev)' /\ j.octet <= device'[j.dev].octet
        <4>1. CASE j.dev = d /\ device'[d] # device[d]
          BY <1>6, <1>8, <2>1, <3>1, <3>2, <4>1 DEF Provisioned
        <4>2. CASE j.dev # d \/ device'[d] = device[d]
          <5>1. device'[j.dev] = device[j.dev]
            BY <1>6, <2>3, <4>2
          <5> QED
            BY <3>1, <3>2, <5>1 DEF Fits, Provisioned
        <4> QED
          BY <4>1, <4>2
      <3>4. ASSUME NEW e \in Devices \ {j.dev}, Provisioned(e)'
            PROVE  device'[e].octet # j.octet
        <4>1. CASE e = d /\ device'[d] # device[d]
          BY <1>6, <2>1, <3>2, <4>1
        <4>2. CASE e # d \/ device'[d] = device[d]
          <5>1. device'[e] = device[e]
            BY <1>6, <4>2
          <5> QED
            BY <3>1, <3>4, <5>1 DEF Fits, Provisioned
        <4> QED
          BY <4>1, <4>2
      <3> QED
        BY <3>3, <3>4 DEF Fits
    <2> QED
      BY <1>3, <1>8, <2>1, <2>2, <2>3 DEF HandedOut
  <1>22. HandedOut(i)'
    <2>1. Made(d)'
      BY <1>11
    <2>2. ASSUME overlapped = "no", Known(key)', device'[d].exists PROVE Fits(i)'
      <3>1. device'[d].key = key /\ device'[d].octet = o
        <4>1. device'[d] # device[d]
          <5>1. ASSUME device'[d] = device[d] PROVE FALSE
            <6>1. \A e \in Devices : device'[e] = device[e]
              BY <1>6, <5>1
            <6>2. Known(key)
              BY <1>3, <2>2, <6>1 DEF Known
            <6> QED
              BY <1>14, <6>2
          <5> QED
            BY <5>1
        <4> QED
          BY <1>6, <4>1
      <3>2. Provisioned(d)'
        BY <1>8, <2>2, <3>1 DEF Provisioned
      <3>3. \A e \in Devices \ {d} : Provisioned(e)' => device'[e].octet # o
        BY <1>6, <1>16, <1>20, <2>2
      <3> QED
        BY <1>2, <3>1, <3>2, <3>3 DEF Fits
    <2> QED
      BY <1>2, <1>3, <1>8, <2>1, <2>2 DEF HandedOut
  <1>23. \A r \in Routers : HandedOut(router[r])'
    <2>1. ASSUME NEW r \in Routers PROVE HandedOut(router[r])'
      <3> PICK j \in Scripts : j = router[r] /\ HandedOut(j)
        BY DEF ProvisioningInv, ProvisioningTypeOK
      <3>1. HandedOut(j)' /\ router'[r] = j
        BY <1>3, <1>21
      <3> QED
        BY <3>1 DEF HandedOut, Fits
    <2> QED
      BY <2>1
  <1>24. \A e \in Devices : HandedOut(shown[e])'
    <2>1. ASSUME NEW e \in Devices PROVE HandedOut(shown[e])'
      <3> PICK j \in Scripts : j = shown[e] /\ HandedOut(j)
        BY <1>1 DEF ProvisioningInv
      <3>1. HandedOut(j)' /\ (shown'[e] = j \/ shown'[e] = i)
        BY <1>5, <1>21
      <3> QED
        BY <1>22, <3>1 DEF HandedOut, Fits
    <2> QED
      BY <2>1
  <1> QED
    BY <1>9, <1>10, <1>12, <1>15, <1>17, <1>19, <1>23, <1>24 DEF ProvisioningInv

LEMMA ProvisioningNext == ProvisioningInv /\ [Next]_vars => ProvisioningInv'
  <1> SUFFICES ASSUME ProvisioningInv, [Next]_vars PROVE ProvisioningInv'
    OBVIOUS
  <1>1. ASSUME NEW d \in Devices, CreateDevice(d) \/ DeleteDevice(d) \/ TenMinutes(d)
        PROVE  ProvisioningInv'
    BY <1>1, InvCreate, InvDelete, InvBeats
  <1>2. ASSUME NEW c \in Calls, NEW d \in Devices, NEW confirm \in BOOLEAN,
               ReadDevice(c, d, confirm)
        PROVE  ProvisioningInv'
    BY <1>2, InvCalls, Zenon
  <1>3. ASSUME NEW c \in Calls, NextAddress(c) \/ StoreIdentity(c) \/ CallFails(c)
        PROVE  ProvisioningInv'
    BY <1>3, InvNext, InvStore, InvCalls, Zenon
  <1>4. ASSUME NEW r \in Routers, NEW d \in Devices, RunScript(r, d) PROVE ProvisioningInv'
    BY <1>4, InvRun
  <1>5. CASE (\E r \in Routers : Heartbeat(r) \/ StoreHeartbeat(r)) \/ Sweep
    BY <1>5, InvBeats
  <1>6. CASE \/ \E w \in Syncs : ListPeers(w) \/ ListFails(w) \/ ApplyPeers(w)
             \/ Restart
    BY <1>6, InvHub
  <1>7. CASE UNCHANGED vars
    BY <1>7 DEF vars, rows, page, hub, ProvisioningInv, ProvisioningTypeOK, RowsOK, CallsOK,
                KeysOK, Apart, InTurn, HandedOut, Fits, Made, Known, Provisioned
  <1> QED
    BY <1>1, <1>2, <1>3, <1>4, <1>5, <1>6, <1>7, Zenon DEF Next

LEMMA ProvisioningInvariant == Spec => []ProvisioningInv
  BY ProvisioningInit, ProvisioningNext, PTL DEF Spec

-----------------------------------------------------------------------------
(* Every variable keeps its range; in particular no row ever holds the      *)
(* hub's own address, whatever the calls interleave.                        *)
THEOREM ProvisioningTypeCorrect == Spec => []ProvisioningTypeOK
  <1>1. ProvisioningInv => ProvisioningTypeOK
    BY DEF ProvisioningInv
  <1> QED
    BY <1>1, ProvisioningInvariant, PTL

(* Two routers never get one tunnel address unless a call picked an address *)
(* that another had picked and not yet stored.                              *)
THEOREM AddressesAreApart == Spec => []AddressesDiffer
  <1>1. ProvisioningInv => AddressesDiffer
    BY DEF ProvisioningInv, ProvisioningTypeOK, Apart, AddressesDiffer, SharedAddress
  <1> QED
    BY <1>1, ProvisioningInvariant, PTL

(* While calls take turns, RADIUS never takes a router for another device,  *)
(* whatever identity it still runs with and however stale the hub's peers.  *)
THEOREM RoutersAreKnown == Spec => []NeverMistaken
  <1>1. ProvisioningInv => NeverMistaken
    <2> SUFFICES ASSUME ProvisioningInv, NEW r \in Routers,
                        router[r].dev # NoDevice, device[router[r].dev].exists,
                        overlapped = "no",
                        NEW d \in TakenFor(r)
                 PROVE  d = router[r].dev
      BY DEF NeverMistaken
    <2>1. /\ router[r].key \in DOMAIN peers /\ d \in Devices
          /\ Provisioned(d) /\ device[d].octet = router[r].octet
      BY DEF TakenFor
    <2>2. router[r].dev \in Devices /\ Known(router[r].key)
      BY <2>1 DEF ProvisioningInv, ProvisioningTypeOK, Scripts, Known
    <2>3. Fits(router[r])
      BY <2>2 DEF ProvisioningInv, HandedOut
    <2> QED
      BY <2>1, <2>3 DEF Fits
  <1> QED
    BY <1>1, ProvisioningInvariant, PTL
-----------------------------------------------------------------------------
(* Convergence of the hub: everything of HubSettles but the fairness.       *)

(* No two rows have one key: each is of a pair generated for it.            *)
KeysApart ==
    \A d, e \in Devices :
        d # e /\ Provisioned(d) /\ Provisioned(e) => device[d].key # device[e].key

(* The syncs that are about to apply a list the table has moved on from.    *)
Outdated == {w \in Syncs : sync[w].pc = "apply" /\ sync[w].list # Listing}

(* While the rows and the commands behave, syncs only ever leave Outdated,  *)
(* any other that is applied settles the hub, and nothing unsettles it once *)
(* no outdated one is left.                                                 *)
HubStep ==
    Listing' = Listing /\ faults' = faults =>
        /\ Outdated' \subseteq Outdated
        /\ Settled /\ Outdated = {} => Settled'
        /\ \A w \in Syncs \ Outdated :
              sync[w].pc = "apply" /\ sync'[w].pc = "idle" => Settled'

LEMMA KeysApartNext ==
  ASSUME ProvisioningInv, KeysApart, [Next]_vars
  PROVE  KeysApart'
  <1>1. /\ device \in [Devices -> Rows] /\ keys \in Nat
        /\ \A d \in Devices : device[d].key \in Nat /\ device[d].key <= keys
    BY ProvisioningRecords DEF ProvisioningInv, ProvisioningTypeOK, KeysOK, Known, Rows
  <1>2. ASSUME \A d \in Devices : Provisioned(d)' => Provisioned(d) /\ device'[d].key = device[d].key
        PROVE  KeysApart'
    BY <1>2 DEF KeysApart
  <1>3. ASSUME NEW d \in Devices, CreateDevice(d) \/ DeleteDevice(d) PROVE KeysApart'
    <2>1. \A e \in Devices : Provisioned(e)' => Provisioned(e) /\ device'[e].key = device[e].key
      BY <1>1, <1>3 DEF CreateDevice, DeleteDevice, Provisioned, Unregistered, Rows
    <2> QED
      BY <1>2, <2>1
  <1>4. ASSUME NEW c \in Calls, StoreIdentity(c) PROVE KeysApart'
    <2>1. CASE device' = device
      BY <1>2, <2>1 DEF Provisioned
    <2>2. CASE device' = Stored(call[c].dev, keys + 1, call[c].octet)
      <3>1. \A e \in Devices : /\ device'[e].exists = device[e].exists
                               /\ \/ device'[e].key = device[e].key
                                  \/ e = call[c].dev /\ device'[e].key = keys + 1
        BY <1>1, <2>2 DEF Stored, Rows
      <3> QED
        BY <1>1, <3>1 DEF KeysApart, Provisioned
    <2> QED
      BY <1>4, <2>1, <2>2 DEF StoreIdentity
  <1>5. ASSUME NEW r \in Routers, StoreHeartbeat(r) PROVE KeysApart'
    <2>1. \A e \in Devices : /\ device'[e].exists = device[e].exists
                             /\ device'[e].key = device[e].key
      BY <1>1, <1>5 DEF StoreHeartbeat, Linked, rows, Rows
    <2> QED
      BY <1>2, <2>1 DEF Provisioned
  <1>6. CASE Sweep
    <2>1. \A e \in Devices : /\ device'[e].exists = device[e].exists
                             /\ device'[e].key = device[e].key
      BY <1>1, <1>6 DEF Sweep, Rows
    <2> QED
      BY <1>2, <2>1 DEF Provisioned
  <1>7. CASE device' = device
    BY <1>2, <1>7 DEF Provisioned
  <1> QED
    BY <1>3, <1>4, <1>5, <1>6, <1>7 DEF Next, ReadDevice, NextAddress, CallFails, RunScript,
       Heartbeat, TenMinutes, ListPeers, ListFails, ApplyPeers, Restart, vars, rows

(* What Settled says, of any peers and any list.                            *)
SettledBy(after, list) ==
    /\ DOMAIN after = {p.key : p \in list}
    /\ \A p \in list :
          \/ after[p.key] = p.octet
          \/ \E q \in list : q # p /\ q.octet = p.octet /\ after[q.key] = p.octet

(* A current list, applied without a failed command, settles the hub.       *)
LEMMA CurrentListSettles ==
  ASSUME KeysApart, NEW list, list = Listing, NEW last, NEW after,
         after = Peering(list, {}, last),
         last \in [{p.octet : p \in list} -> {p.key : p \in list}],
         \A o \in DOMAIN last : [key |-> last[o], octet |-> o] \in list
  PROVE  SettledBy(after, list)
  <1> DEFINE applied == {p \in list : p.key \notin {}}
             AddressOf(k) == (CHOOSE p \in applied : p.key = k).octet
             Winner(o) == \E p \in applied : p.octet = o
             kept == Kept({p.key : p \in list}, {})
  <1>1. \A p, q \in list : p.key = q.key => p = q
    BY DEF KeysApart, Listing
  <1>2. \A p \in list : AddressOf(p.key) = p.octet
    <2> TAKE p \in list
    <2>1. \E q \in applied : q.key = p.key
      OBVIOUS
    <2> PICK q : q = CHOOSE x \in applied : x.key = p.key
      OBVIOUS
    <2>2. q \in list /\ q.key = p.key
      BY <2>1
    <2> QED
      BY <1>1, <2>2
  <1>3. kept = {p.key : p \in list} /\ applied = list
    BY DEF Kept
  <1>4. after = [k \in kept |->
            IF \E p \in applied : p.key = k
            THEN IF last[AddressOf(k)] = k THEN AddressOf(k) ELSE 0
            ELSE IF Winner(peers[k]) THEN 0 ELSE peers[k]]
    BY DEF Peering
  <1> HIDE DEF kept, applied, AddressOf, Winner
  <1>5. DOMAIN after = {p.key : p \in list}
    BY <1>3, <1>4
  <1>6. \A p \in list : after[p.key] = IF last[p.octet] = p.key THEN p.octet ELSE 0
    BY <1>2, <1>3, <1>4
  <1>7. ASSUME NEW p \in list, last[p.octet] # p.key
        PROVE  \E q \in list : q # p /\ q.octet = p.octet /\ after[q.key] = p.octet
    <2> PICK q : q = [key |-> last[p.octet], octet |-> p.octet]
      OBVIOUS
    <2>1. q \in list /\ q.key = last[p.octet] /\ q.octet = p.octet
      OBVIOUS
    <2> QED
      BY <1>6, <1>7, <2>1
  <1> QED
    BY <1>5, <1>6, <1>7 DEF SettledBy

LEMMA HubNext ==
  ASSUME ProvisioningInv, KeysApart, [Next]_vars
  PROVE  HubStep
  <1> SUFFICES ASSUME Listing' = Listing, faults' = faults PROVE HubStep
    BY DEF HubStep
  <1>0. sync \in [Syncs -> SyncStates] /\ faults \in Nat
    BY ProvisioningRecords DEF ProvisioningInv, ProvisioningTypeOK
  <1>1. ASSUME NEW w \in Syncs, ApplyPeers(w) PROVE HubStep
    <2>1. sync[w].pc = "apply" /\ sync' = [sync EXCEPT ![w] = NoSync]
      BY <1>1 DEF ApplyPeers
    <2>2. \A v \in Syncs : sync'[v] = IF v = w THEN NoSync ELSE sync[v]
      BY <1>0, <2>1
    <2>3. Outdated' \subseteq Outdated
      BY <2>2 DEF Outdated, NoSync
    <2>4. ASSUME w \notin Outdated PROVE Settled'
      <3> PICK list : list = Listing
        OBVIOUS
      <3>1. sync[w].list = list
        BY <2>1, <2>4 DEF Outdated
      <3>2. PICK failed \in {{}} \cup {{k} : k \in Keys} :
               LET applied == {p \in list : p.key \notin failed}
               IN  /\ IF failed = {} THEN UNCHANGED faults ELSE Fault
                   /\ \E last \in [{p.octet : p \in applied} -> {p.key : p \in applied}] :
                         /\ \A o \in DOMAIN last : [key |-> last[o], octet |-> o] \in applied
                         /\ peers' = Peering(list, failed, last)
        BY <1>1, <3>1 DEF ApplyPeers
      <3>3. failed = {}
        BY <1>0, <3>2 DEF Fault
      <3>4. {p \in list : p.key \notin failed} = list
        BY <3>3
      <3>5. PICK last \in [{p.octet : p \in list} -> {p.key : p \in list}] :
               /\ \A o \in DOMAIN last : [key |-> last[o], octet |-> o] \in list
               /\ peers' = Peering(list, {}, last)
        BY <3>2, <3>3, <3>4
      <3> PICK after : after = peers'
        OBVIOUS
      <3>6. after = Peering(list, {}, last)
        BY <3>5
      <3>7. SettledBy(after, list)
        BY <3>5, <3>6, CurrentListSettles
      <3>8. list = Listing'
        OBVIOUS
      <3> QED
        BY <3>7, <3>8 DEF Settled, SettledBy
    <2> QED
      BY <2>1, <2>2, <2>3, <2>4 DEF HubStep
  <1>2. ASSUME peers' = peers, Outdated' \subseteq Outdated,
               \A w \in Syncs : sync[w].pc = "apply" => sync'[w].pc = "apply"
        PROVE  HubStep
    <2>1. Settled => Settled'
      BY <1>2 DEF Settled
    <2> QED
      BY <1>2, <2>1 DEF HubStep
  <1>3. ASSUME NEW w \in Syncs, ListPeers(w) PROVE HubStep
    <2>1. /\ sync[w].pc = "idle" /\ peers' = peers
          /\ \A v \in Syncs : sync'[v] = IF v = w THEN [pc |-> "apply", list |-> Listing] ELSE sync[v]
      BY <1>0, <1>3 DEF ListPeers
    <2>2. Outdated' \subseteq Outdated
      BY <2>1 DEF Outdated
    <2> QED
      BY <1>2, <2>1, <2>2
  <1>4. CASE UNCHANGED hub
    <2>1. Outdated' \subseteq Outdated
      BY <1>4 DEF hub, Outdated
    <2> QED
      BY <1>2, <1>4, <2>1 DEF hub
  <1>5. ASSUME NEW w \in Syncs, ListFails(w) \/ Restart PROVE FALSE
    BY <1>0, <1>5 DEF ListFails, Restart, Fault
  <1>6. CASE Restart
    BY <1>0, <1>6 DEF Restart, Fault
  <1> QED
    BY <1>1, <1>3, <1>4, <1>5, <1>6 DEF Next, CreateDevice, DeleteDevice, ReadDevice, NextAddress,
       StoreIdentity, CallFails, RunScript, Heartbeat, StoreHeartbeat, Sweep, TenMinutes, vars

(* Once the rows stop changing and the commands succeed, the hub can only   *)
(* get nearer to the rows' peers: what HubSettles adds is that the syncs    *)
(* that settle it do run.                                                   *)
THEOREM HubConverges == Spec => [][HubStep]_vars
  <1>1. Init => KeysApart
    BY DEF Init, KeysApart, Provisioned, Unregistered
  <1>2. ProvisioningInv /\ KeysApart /\ [Next]_vars => KeysApart'
    BY KeysApartNext
  <1>3. ProvisioningInv /\ KeysApart /\ [Next]_vars => [HubStep]_vars
    BY HubNext
  <1> QED
    BY <1>1, <1>2, <1>3, ProvisioningInvariant, PTL DEF Spec
=============================================================================
