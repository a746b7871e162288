---------------------------- MODULE Provisioning ----------------------------
(***************************************************************************)
(* Linking a router: the mikrotik_devices rows, the edge function that     *)
(* issues a device's identity (WireGuard key and tunnel address), the      *)
(* router that runs the setup script and heartbeats, the sweep that calls  *)
(* silent devices offline, and the WireGuard hub that copies the rows to   *)
(* its peers.  Several calls of provisioning-script, and several peer      *)
(* syncs, may be under way at once.  The API credentials rotate with the   *)
(* key, so the key stands for them.                                        *)
(*                                                                         *)
(* Sources: provisioning-script, provisioning-fetch, heartbeat, migrations *)
(* 0001, 0003, 0004 and 0010, radius-service/src/{wireguard,db}.js, the    *)
(* devices page, _shared/router-template.ts.                               *)
(***************************************************************************)
EXTENDS Naturals, FiniteSets, FiniteSetsExt, Functions

CONSTANTS
    Devices,        \* ids of mikrotik_devices rows, each with its own token
    Routers,        \* physical routers
    Calls,          \* slots for concurrent calls of provisioning-script
    Syncs,          \* slots for overlapping peer syncs
    NoDevice,
    LastOctet,      \* the highest host address Postgres accepts (255)
    MaxKeys,        \* bound on the identities issued
    MaxFaults       \* bound on failed queries, commands and restarts

ASSUME ProvisioningAssumption ==
    /\ NoDevice \notin Devices
    /\ LastOctet \in Nat /\ LastOctet >= 2
    /\ MaxKeys \in Nat /\ MaxFaults \in Nat

VARIABLES
    device,     \* the rows
    quiet,      \* quiet[d]: d is linked, last seen more than ten minutes ago
    keys,       \* the number of key pairs generated, and the last one's name
    call,       \* provisioning-script in progress
    shown,      \* shown[d]: the script on the devices page
    router,     \* router[r]: the identity the router runs with
    beat,       \* beat[r]: the device whose heartbeat is in progress
    peers,      \* the hub's peers: address by key, 0 for none
    sync,       \* syncPeers in progress: the rows it listed
    overlapped, \* history variable: a call was issued an address while another
                \* had one to store: no, another one, or the same
    faults

rows == <<device, quiet>>
page == <<keys, call, shown>>
hub == <<peers, sync>>
vars == <<rows, page, router, beat, hub, overlapped, faults>>

Keys == 1 .. MaxKeys
Octets == 2 .. LastOctet
Rows == [exists : BOOLEAN, key : 0 .. MaxKeys, octet : Octets \cup {0},
         status : {"pending", "linked", "offline"}]
Scripts == [dev : Devices \cup {NoDevice}, key : 0 .. MaxKeys, octet : Nat]
CallStates == [pc : {"idle", "address", "store"}, dev : Devices \cup {NoDevice},
               octet : Nat]
Listed == [key : Keys, octet : Octets]
SyncStates == [pc : {"idle", "apply"}, list : SUBSET Listed]

(* 0 is SQL's null, in a key and in an address. *)
Unregistered == [exists |-> FALSE, key |-> 0, octet |-> 0, status |-> "pending"]
NoScript == [dev |-> NoDevice, key |-> 0, octet |-> 0]
NoCall == [pc |-> "idle", dev |-> NoDevice, octet |-> 0]
NoSync == [pc |-> "idle", list |-> {}]

Init ==
    /\ device = [d \in Devices |-> Unregistered]
    /\ quiet = [d \in Devices |-> FALSE]
    /\ keys = 0
    /\ call = [c \in Calls |-> NoCall]
    /\ shown = [d \in Devices |-> NoScript]
    /\ router = [r \in Routers |-> NoScript]
    /\ beat = [r \in Routers |-> NoDevice]
    /\ peers = <<>>
    /\ sync = [w \in Syncs |-> NoSync]
    /\ overlapped = "no"
    /\ faults = 0

Provisioned(d) == device[d].exists /\ device[d].key # 0
Identity(d) == [dev |-> d, key |-> device[d].key, octet |-> device[d].octet]
Fault == faults < MaxFaults /\ faults' = faults + 1

-----------------------------------------------------------------------------
(* The devices page. *)

(* A row's id is never used again. *)
CreateDevice(d) ==
    /\ device[d] = Unregistered
    /\ device' = [device EXCEPT ![d].exists = TRUE]
    /\ UNCHANGED <<quiet, page, router, beat, hub, overlapped, faults>>

(* A deleted row is told from one not created yet by its status.            *)
DeleteDevice(d) ==
    /\ device[d].exists
    /\ device' = [device EXCEPT ![d] = [Unregistered EXCEPT !.status = "offline"]]
    /\ quiet' = [quiet EXCEPT ![d] = FALSE]
    /\ UNCHANGED <<page, router, beat, hub, overlapped, faults>>

-----------------------------------------------------------------------------
(* provisioning-script. *)

(* The device is read, and a linked one wants a confirmation (409).         *)
ReadDevice(c, d, confirmRegenerate) ==
    /\ call[c].pc = "idle" /\ device[d].exists /\ keys < MaxKeys
    /\ device[d].status = "linked" => confirmRegenerate
    /\ call' = [call EXCEPT ![c] = [pc |-> "address", dev |-> d, octet |-> 0]]
    /\ UNCHANGED <<rows, keys, shown, router, beat, hub, overlapped, faults>>

Taken == {device[d].octet : d \in {e \in Devices : device[e].exists}} \ {0}

(* Slips, for mutation: the hub's own address is not left out; the maximum  *)
(* itself.                                                                  *)
NextTunnelIpFromOne == IF Taken = {} THEN 1 ELSE Max(Taken) + 1
NextTunnelIpRepeats == IF Taken = {} THEN 2 ELSE Max(Taken)

(* A slip, for mutation: the lowest address that is free.                   *)
NextTunnelIpLowest == Min({o \in 2 .. (LastOctet + 1) : o \notin Taken})

(* next_wireguard_tunnel_ip: the table is locked only until it returns.     *)
NextTunnelIp == IF Taken = {} THEN 2 ELSE Max(Taken) + 1

NextAddress(c) ==
    /\ call[c].pc = "address"
    /\ call' = [call EXCEPT ![c].pc = "store", ![c].octet = NextTunnelIp]
    /\ LET others == {b \in Calls : call[b].pc = "store"} IN
       overlapped' =
           IF \E b \in others : call[b].octet = NextTunnelIp THEN "same"
           ELSE IF others # {} /\ overlapped = "no" THEN "other"
           ELSE overlapped
    /\ UNCHANGED <<rows, keys, shown, router, beat, hub, faults>>

Stored(d, key, octet) ==
    [device EXCEPT ![d].key = key, ![d].octet = octet, ![d].status = "pending"]

(* The update's result is not looked at: when Postgres refuses the address, *)
(* or the query fails, the script is handed out all the same.               *)
StoreIdentity(c) ==
    /\ call[c].pc = "store" /\ keys < MaxKeys
    /\ LET d == call[c].dev
           octet == call[c].octet
       IN  /\ keys' = keys + 1
           /\ \/ /\ device' = IF device[d].exists /\ octet <= LastOctet
                              THEN Stored(d, keys + 1, octet) ELSE device
                 /\ UNCHANGED faults
              \/ Fault /\ UNCHANGED device
           /\ quiet' = [quiet EXCEPT ![d] = @ /\ device'[d].status = "linked"]
           /\ shown' = [shown EXCEPT ![d] = [dev |-> d, key |-> keys + 1, octet |-> octet]]
    /\ call' = [call EXCEPT ![c] = NoCall]
    /\ UNCHANGED <<router, beat, hub, overlapped>>

CallFails(c) ==
    /\ call[c].pc # "idle" /\ Fault
    /\ call' = [call EXCEPT ![c] = NoCall]
    /\ UNCHANGED <<rows, keys, shown, router, beat, hub, overlapped>>

-----------------------------------------------------------------------------
(* The router. *)

(* The bootstrap fetches and imports the script of the row's current        *)
(* identity; pasting the script of the page takes the one of the last call. *)
(* The import sets key, address and the heartbeat's token, whether or not   *)
(* the router had others.                                                   *)
RunScript(r, d) ==
    /\ \A q \in Routers \ {r} : router[q].dev # d
    /\ \/ Provisioned(d) /\ router' = [router EXCEPT ![r] = Identity(d)]
       \/ shown[d] # NoScript /\ router' = [router EXCEPT ![r] = shown[d]]
    /\ router' # router
    /\ UNCHANGED <<rows, page, beat, hub, overlapped, faults>>

(* The heartbeat goes over the internet, not the tunnel: any token that     *)
(* still has a row will do.                                                 *)
Heartbeat(r) ==
    /\ beat[r] = NoDevice
    /\ \E d \in Devices :
          /\ router[r].dev = d /\ device[d].exists
          /\ beat' = [beat EXCEPT ![r] = d]
    /\ UNCHANGED <<rows, page, router, hub, overlapped, faults>>

Linked(d) ==
    IF device[d].exists
    THEN device' = [device EXCEPT ![d].status = "linked"] /\ quiet' = [quiet EXCEPT ![d] = FALSE]
    ELSE UNCHANGED rows

StoreHeartbeat(r) ==
    /\ beat[r] # NoDevice
    /\ Linked(beat[r])
    /\ beat' = [beat EXCEPT ![r] = NoDevice]
    /\ UNCHANGED <<page, router, hub, overlapped, faults>>

(* Ten minutes pass since d was last seen.                                  *)
TenMinutes(d) ==
    /\ device[d].status = "linked" /\ ~quiet[d]
    /\ quiet' = [quiet EXCEPT ![d] = TRUE]
    /\ UNCHANGED <<device, page, router, beat, hub, overlapped, faults>>

(* A slip, for mutation: the comparison the other way round. *)
StaleBackwards(d) == device[d].exists /\ device[d].status = "linked" /\ ~quiet[d]

Stale(d) == device[d].exists /\ device[d].status = "linked" /\ quiet[d]

(* sweep_stale_devices, every five minutes. *)
Sweep ==
    /\ \E d \in Devices : Stale(d)
    /\ device' = [d \in Devices |->
          IF Stale(d) THEN [device[d] EXCEPT !.status = "offline"] ELSE device[d]]
    /\ quiet' = [d \in Devices |-> quiet[d] /\ ~Stale(d)]
    /\ UNCHANGED <<page, router, beat, hub, overlapped, faults>>

-----------------------------------------------------------------------------
(* The hub. *)

(* The rows listWireguardPeers returns. *)
Listing == {[key |-> device[d].key, octet |-> device[d].octet] :
               d \in {e \in Devices : Provisioned(e)}}

ListPeers(w) ==
    /\ sync[w].pc = "idle"
    /\ sync' = [sync EXCEPT ![w] = [pc |-> "apply", list |-> Listing]]
    /\ UNCHANGED <<rows, page, router, beat, peers, overlapped, faults>>

(* The query throws: this round does nothing. *)
ListFails(w) ==
    /\ sync[w].pc = "apply" /\ Fault
    /\ sync' = [sync EXCEPT ![w] = NoSync]
    /\ UNCHANGED <<rows, page, router, beat, peers, overlapped>>

(* A slip, for mutation: peers only added, as the service once did.         *)
KeptAdditive(desired, failed) == (desired \ failed) \cup DOMAIN peers

(* The keys left on the interface: those of the list, and those whose       *)
(* command failed and that were there.                                      *)
Kept(desired, failed) == (desired \ failed) \cup (DOMAIN peers \cap failed)

(* An allowed address belongs to one peer: of several that share it the     *)
(* last one set gets it, and a peer set takes it from whoever had it.       *)
Peering(list, failed, last) ==
    LET applied == {p \in list : p.key \notin failed}
        AddressOf(k) == (CHOOSE p \in applied : p.key = k).octet
        Winner(o) == \E p \in applied : p.octet = o
    IN  [k \in Kept({p.key : p \in list}, failed) |->
            IF \E p \in applied : p.key = k
            THEN IF last[AddressOf(k)] = k THEN AddressOf(k) ELSE 0
            ELSE IF Winner(peers[k]) THEN 0 ELSE peers[k]]

(* syncPeers after its one await: the commands run without a pause.         *)
ApplyPeers(w) ==
    /\ sync[w].pc = "apply"
    /\ \E failed \in {{}} \cup {{k} : k \in Keys} :
          LET list == sync[w].list
              applied == {p \in list : p.key \notin failed}
          IN  /\ IF failed = {} THEN UNCHANGED faults ELSE Fault
              /\ \E last \in [{p.octet : p \in applied} -> {p.key : p \in applied}] :
                    /\ \A o \in DOMAIN last : [key |-> last[o], octet |-> o] \in applied
                    /\ peers' = Peering(list, failed, last)
    /\ sync' = [sync EXCEPT ![w] = NoSync]
    /\ UNCHANGED <<rows, page, router, beat, overlapped>>

(* radius-service starts again with a new interface. *)
Restart ==
    /\ Fault
    /\ peers' = <<>>
    /\ sync' = [w \in Syncs |-> NoSync]
    /\ UNCHANGED <<rows, page, router, beat, overlapped>>

-----------------------------------------------------------------------------
Next ==
    \/ \E d \in Devices : CreateDevice(d) \/ DeleteDevice(d) \/ TenMinutes(d)
    \/ \E c \in Calls, d \in Devices, confirm \in BOOLEAN : ReadDevice(c, d, confirm)
    \/ \E c \in Calls : NextAddress(c) \/ StoreIdentity(c) \/ CallFails(c)
    \/ \E r \in Routers, d \in Devices : RunScript(r, d)
    \/ \E r \in Routers : Heartbeat(r) \/ StoreHeartbeat(r)
    \/ Sweep
    \/ \E w \in Syncs : ListPeers(w) \/ ListFails(w) \/ ApplyPeers(w)
    \/ Restart

Spec == Init /\ [][Next]_vars

(* setInterval keeps syncing, pg_cron keeps sweeping, time passes and a     *)
(* started query ends.                                                      *)
FairSpec ==
    /\ Spec
    /\ WF_vars(Sweep)
    /\ \A d \in Devices : WF_vars(TenMinutes(d))
    /\ \A w \in Syncs : WF_vars(ListPeers(w)) /\ WF_vars(ApplyPeers(w))

-----------------------------------------------------------------------------
(* Properties. *)

(* Every variable keeps its range; in particular no row holds the hub's own *)
(* address or one beyond the network.                                       *)
ProvisioningTypeOK ==
    /\ device \in [Devices -> Rows] /\ quiet \in [Devices -> BOOLEAN]
    /\ keys \in 0 .. MaxKeys
    /\ call \in [Calls -> CallStates]
    /\ shown \in [Devices -> Scripts]
    /\ router \in [Routers -> Scripts]
    /\ beat \in [Routers -> Devices \cup {NoDevice}]
    /\ DOMAIN peers \subseteq Keys
    /\ \A k \in DOMAIN peers : peers[k] \in Octets \cup {0}
    /\ sync \in [Syncs -> SyncStates]
    /\ overlapped \in {"no", "other", "same"} /\ faults \in 0 .. MaxFaults

SharedAddress ==
    \E d, e \in Devices :
        d # e /\ Provisioned(d) /\ Provisioned(e) /\ device[d].octet = device[e].octet

(* Two routers never get one tunnel address, deletions and regenerations    *)
(* included, as long as no call picks an address another call has picked    *)
(* and not yet stored (next_wireguard_tunnel_ip and its use).               *)
AddressesDiffer == SharedAddress => overlapped = "same"

(* The device radius-service takes the sender of r's packets for: the hub   *)
(* lets a packet through from the address it keeps for the sender's key,    *)
(* and findDeviceByTunnelIp goes by the address alone.                      *)
TakenFor(r) ==
    {d \in Devices :
        /\ router[r].key \in DOMAIN peers /\ router[r].octet # 0
        /\ peers[router[r].key] = router[r].octet
        /\ Provisioned(d) /\ device[d].octet = router[r].octet}

(* A router is never taken for another device by RADIUS, whatever stale     *)
(* identity it still runs with and however stale the hub's peers, as long   *)
(* as its own row exists and calls take turns: with two between picking and *)
(* storing, the later one may store the lower address, and the identity it  *)
(* replaced keeps one that is then free for the next device.                *)
NeverMistaken ==
    \A r \in Routers :
        router[r].dev # NoDevice /\ device[router[r].dev].exists /\ overlapped = "no" =>
            TakenFor(r) \subseteq {router[r].dev}

Settled ==
    /\ DOMAIN peers = {p.key : p \in Listing}
    /\ \A p \in Listing :
          \/ peers[p.key] = p.octet
          \/ \E q \in Listing : q # p /\ q.octet = p.octet /\ peers[q.key] = p.octet

(* When the rows stop changing the hub ends up with their peers, each with  *)
(* its address, and no other: a deleted or rotated key is cut off, whatever *)
(* failed, restarted or overlapped before (syncPeers).                      *)
HubSettles == <>[]Settled

(* A device no heartbeat comes from any more is not shown as linked for ever  *)
(* (sweep_stale_devices).                                                   *)
SilentIsNoticed ==
    \A d \in Devices :
        <>[](\A r \in Routers : beat[r] # d) =>
            <>[](device[d].exists => device[d].status # "linked")
=============================================================================
