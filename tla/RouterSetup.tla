---------------------------- MODULE RouterSetup ----------------------------
(***************************************************************************)
(* What happens on a router.  The setup script is imported section by      *)
(* section, over whatever an earlier run left: of the same device, of an   *)
(* older identity of it, of another device.  The power may go between any  *)
(* two sections, a fetch may fail, and an uncaught error ends the import.  *)
(* Two schedulers are left behind: the heartbeat, and the pull of the IP   *)
(* allowlist, a fetched file that replaces the router's bindings.          *)
(*                                                                         *)
(* A section that concerns no device is either there or not (built); the   *)
(* others keep whose value they hold.  An identity is its key's number: the*)
(* address and the API user come with the key.                             *)
(*                                                                         *)
(* Sources: _shared/router-template.ts, provisioning-script,               *)
(* provisioning-fetch, ip-bindings-sync, devices/page.tsx, migration 0005. *)
(***************************************************************************)
EXTENDS Naturals, Sequences, FiniteSets

CONSTANTS
    Devices,        \* mikrotik_devices rows; the row's token is its id
    NoDevice,
    Edited,         \* those whose row and allowlist the admins change
    Addresses,      \* IP addresses an admin may allow
    MaxKeys,        \* bound on the identities issued
    MaxHubs,        \* bound on the deployments of radius-service
    MaxFaults       \* bound on power cuts and failed requests

ASSUME SetupAssumption ==
    /\ NoDevice \notin Devices /\ Edited \subseteq Devices
    /\ MaxKeys \in Nat /\ MaxHubs \in Nat \ {0}
    /\ MaxFaults \in Nat

VARIABLES
    row,        \* the device's row: its identity and the hub's key stored with it
    hub,        \* the deployed radius-service: its key, endpoint and secret
    scripts,    \* every script the console has ever shown
    list,       \* ip_allowlist by device
    conf,       \* the router's configuration
    run,        \* the import in progress: a script and the section it is at
    outcome,    \* the script that last ran to its end and what it printed
    pull,       \* the two jobs that pull the allowlist
    file,       \* echo-ipsync.rsc, which both of them write and import
    bindings,   \* bindings with the comment echo-allowlist
    torn,       \* history variable: a run ended between address and DHCP server
    faults

server == <<row, hub, scripts, list>>
router == <<conf, run, outcome, torn>>
pulls == <<pull, file, bindings>>
vars == <<server, router, pulls, faults>>

(* The sections in the order of the file.  "lan" is routes, bridge, ports,  *)
(* radios and NAT, "hotspot" the profile, the server, PPP and both gardens. *)
Sections == <<"wan", "tunnel", "peer", "address", "lan", "gateway", "dhcp", "dns",
              "radius", "hotspot", "user", "retire", "files", "beat", "link",
              "sync", "apply", "check">>

(* Those that only make sure that something is there. *)
Plain == {"wan", "lan", "dns", "hotspot"}

Keys == 1 .. MaxKeys
Hubs == 1 .. MaxHubs
Scripts == [dev : Devices, key : Keys, peer : Hubs, secret : Hubs]
NoScript == [dev |-> NoDevice, key |-> 0, peer |-> 0, secret |-> 0]
Off == [script |-> NoScript, at |-> 0]
NoOutcome == [script |-> NoScript, says |-> "nothing"]
Jobs == {"timer", "setup"}
Idle == [pc |-> "idle", list |-> {}]

(* A factory configuration brings an uplink and a bridge with DHCP; one     *)
(* without defaults brings nothing.                                         *)
Clean == [built |-> {}, key |-> 0, peer |-> 0, address |-> 0, secret |-> 0,
          users |-> {}, login |-> FALSE, beat |-> NoDevice, sync |-> NoDevice]
Factory == [Clean EXCEPT !.built = {"wan", "gateway", "dhcp"}]

Init ==
    /\ row = [d \in Devices |-> [exists |-> TRUE, key |-> 0, peer |-> 0]]
    /\ hub = 1 /\ scripts = {}
    /\ list = [d \in Devices |-> {}]
    /\ conf \in {Clean, Factory}
    /\ run = Off /\ outcome = NoOutcome /\ torn = FALSE
    /\ pull = [j \in Jobs |-> Idle] /\ file = {} /\ bindings = {}
    /\ faults = 0

Fault == faults < MaxFaults /\ faults' = faults + 1

-----------------------------------------------------------------------------
(* The console and the deployment. *)

(* provisioning-script: a new identity, with the hub's key of the day.      *)
Issue(d) ==
    LET key == Cardinality(scripts) + 1 IN
    /\ row[d].exists /\ key <= MaxKeys
    /\ row' = [row EXCEPT ![d].key = key, ![d].peer = hub]
    /\ scripts' = scripts \cup {[dev |-> d, key |-> key, peer |-> hub, secret |-> hub]}
    /\ UNCHANGED <<hub, list, router, pulls, faults>>

(* The row goes and its allowlist with it; the router is not told.          *)
DeleteDevice(d) ==
    /\ row[d].exists
    /\ row' = [row EXCEPT ![d].exists = FALSE]
    /\ list' = [list EXCEPT ![d] = {}]
    /\ UNCHANGED <<hub, scripts, router, pulls, faults>>

Redeploy ==
    /\ hub < MaxHubs /\ hub' = hub + 1
    /\ UNCHANGED <<row, scripts, list, router, pulls, faults>>

(* One row per device and address. *)
AddIp(d, a) ==
    /\ row[d].exists /\ a \notin list[d]
    /\ list' = [list EXCEPT ![d] = @ \cup {a}]

RemoveIp(d, a) ==
    /\ a \in list[d]
    /\ list' = [list EXCEPT ![d] = @ \ {a}]

EditList ==
    /\ \E d \in Edited, a \in Addresses : AddIp(d, a) \/ RemoveIp(d, a)
    /\ UNCHANGED <<row, hub, scripts, router, pulls, faults>>

-----------------------------------------------------------------------------
(* Starting the script. *)

(* provisioning-fetch: what the row says now, with the secret of now.       *)
Fetched(d) == [dev |-> d, key |-> row[d].key, peer |-> row[d].peer, secret |-> hub]

(* The one-line bootstrap: uplink and clock first, then the fetch of the    *)
(* script and its import, unless the fetch fails.                           *)
Bootstrap(d) ==
    /\ run = Off
    /\ conf' = [conf EXCEPT !.built = @ \cup {"wan"}]
    /\ \/ /\ row[d].exists /\ row[d].key # 0
          /\ run' = [script |-> Fetched(d), at |-> 1]
          /\ outcome' = NoOutcome /\ UNCHANGED faults
       \/ Fault /\ UNCHANGED <<run, outcome>>
    /\ UNCHANGED <<server, pulls, torn>>

(* The full script, pasted: any that was ever shown.                        *)
Import(s) ==
    /\ run = Off
    /\ run' = [script |-> s, at |-> 1]
    /\ outcome' = NoOutcome
    /\ UNCHANGED <<server, pulls, conf, torn, faults>>

-----------------------------------------------------------------------------
(* The sections. *)

At(section) == run.at \in DOMAIN Sections /\ Sections[run.at] = section
Onward == run' = [run EXCEPT !.at = @ + 1]
Stop == run' = Off
Script == run.script

(* A section that leaves the router with configuration c and goes on.       *)
Configures(section, c) ==
    /\ At(section) /\ Onward
    /\ conf' = c
    /\ UNCHANGED <<server, outcome, torn, pulls, faults>>

(* A section that adds what is missing and leaves alone what is there.      *)
AddIfMissing(section) == Configures(section, [conf EXCEPT !.built = @ \cup {section}])
AddWan == AddIfMissing("wan")
AddLan == AddIfMissing("lan")
AddDhcp == AddIfMissing("dhcp")
AddDns == AddIfMissing("dns")
AddHotspot == AddIfMissing("hotspot")

\* Mutant: the tunnel is only added if it is missing, as it once was.
TunnelAddedOnly == Configures("tunnel",
    [conf EXCEPT !.key = IF @ = 0 THEN Script.key ELSE @])

(* The key is set over another one, the hub's peer is only added.           *)
SetTunnel == Configures("tunnel", [conf EXCEPT !.key = Script.key])
AddPeer == Configures("peer", [conf EXCEPT !.peer = IF @ = 0 THEN Script.peer ELSE @])
SetAddress == Configures("address", [conf EXCEPT !.address = Script.key])

(* A bridge that has an address is taken to have DHCP as well.              *)
AddGateway ==
    /\ At("gateway")
    /\ run' = [run EXCEPT !.at = @ + (IF "gateway" \in conf.built THEN 2 ELSE 1)]
    /\ conf' = [conf EXCEPT !.built = @ \cup {"gateway"}]
    /\ UNCHANGED <<server, outcome, torn, pulls, faults>>

SetRadius == Configures("radius", [conf EXCEPT !.secret = Script.secret])
SetUser == Configures("user", [conf EXCEPT !.users = @ \cup {Script.key}])
RetireUsers == Configures("retire", [conf EXCEPT !.users = @ \cap {Script.key}])

\* Mutant: a failing fetch ends the import, as it once did.
FetchFilesBare ==
    \/ Configures("files", [conf EXCEPT !.login = TRUE])
    \/ At("files") /\ Stop /\ UNCHANGED <<server, conf, outcome, torn, pulls, faults>>

(* Each file on its own: one that cannot be fetched leaves what was there.  *)
FetchFiles ==
    \E fetched \in BOOLEAN : Configures("files", [conf EXCEPT !.login = @ \/ fetched])

SetBeat == Configures("beat", [conf EXCEPT !.beat = Script.dev])
SetSync == Configures("sync", [conf EXCEPT !.sync = Script.dev])

(* The script's own heartbeat is not wrapped: if it fails, because the row  *)
(* is gone or the network is, the import ends here.                         *)
FirstBeat ==
    /\ At("link")
    /\ \/ row[Script.dev].exists /\ Onward /\ UNCHANGED faults
       \/ ~row[Script.dev].exists /\ Stop /\ UNCHANGED faults
       \/ Stop /\ Fault
    /\ UNCHANGED <<server, conf, outcome, torn, pulls>>

ChecksPass ==
    /\ conf.key # 0 /\ conf.secret # 0 /\ conf.beat # NoDevice
    /\ {"lan", "hotspot"} \subseteq conf.built /\ conf.login

SelfCheck ==
    /\ At("check") /\ Stop
    /\ outcome' = [script |-> Script, says |-> IF ChecksPass THEN "complete" ELSE "incomplete"]
    /\ UNCHANGED <<server, conf, torn, pulls, faults>>

Section ==
    \/ AddWan \/ SetTunnel \/ AddPeer \/ SetAddress \/ AddLan \/ AddGateway \/ AddDhcp
    \/ AddDns \/ SetRadius \/ AddHotspot \/ SetUser \/ RetireUsers \/ FetchFiles
    \/ SetBeat \/ FirstBeat \/ SetSync \/ SelfCheck

-----------------------------------------------------------------------------
(* The allowlist. *)

Token(j) == IF j = "timer" THEN conf.sync ELSE Script.dev
MayPull(j) == pull[j] = Idle /\ IF j = "timer" THEN conf.sync # NoDevice ELSE At("apply")

\* Mutant: the list of every device.
AnswerOfAll(d) == UNION {list[e] : e \in Devices}
Answer(d) == list[d]

(* ip-bindings-sync.  An error of the list query is not looked at and makes *)
(* an empty list.                                                           *)
FetchList(j) ==
    /\ MayPull(j) /\ row[Token(j)].exists
    /\ \/ pull' = [pull EXCEPT ![j] = [pc |-> "answered", list |-> Answer(Token(j))]]
          /\ UNCHANGED faults
       \/ pull' = [pull EXCEPT ![j].pc = "answered"] /\ Fault
    /\ UNCHANGED <<server, router, file, bindings>>

(* The answer replaces the file as a whole, ...                             *)
StoreFile(j) ==
    /\ pull[j].pc = "answered"
    /\ file' = pull[j].list
    /\ pull' = [pull EXCEPT ![j] = [pc |-> "import", list |-> {}]]
    /\ UNCHANGED <<server, router, bindings, faults>>

(* ... which is then imported as it is: all tagged bindings are removed and *)
(* those of the file added.                                                 *)
ImportBindings(j) ==
    /\ pull[j].pc = "import"
    /\ bindings' = file
    /\ pull' = [pull EXCEPT ![j] = Idle]
    /\ IF j = "setup" THEN Onward ELSE UNCHANGED run
    /\ UNCHANGED <<server, conf, outcome, torn, file, faults>>

(* The fetch fails and nothing is imported; the setup goes on.              *)
FetchFails ==
    /\ MayPull("setup") /\ Onward
    /\ IF row[Script.dev].exists THEN Fault ELSE UNCHANGED faults
    /\ UNCHANGED <<server, conf, outcome, torn, pulls>>

(* The power goes: what is configured stays, what was running does not, and *)
(* an import may have come as far as some of the bindings.                  *)
PowerCut ==
    /\ Fault
    /\ run' = Off /\ pull' = [j \in Jobs |-> Idle]
    /\ torn' = (torn \/ At("dhcp"))
    /\ \/ UNCHANGED bindings
       \/ (\E j \in Jobs : pull[j].pc = "import") /\ bindings' \in SUBSET file
    /\ UNCHANGED <<server, conf, outcome, file>>

-----------------------------------------------------------------------------
Next ==
    \/ \E d \in Devices : Issue(d) \/ Bootstrap(d)
    \/ \E d \in Edited : DeleteDevice(d)
    \/ Redeploy \/ EditList
    \/ \E s \in scripts : Import(s)
    \/ Section
    \/ \E j \in Jobs : FetchList(j) \/ StoreFile(j) \/ ImportBindings(j)
    \/ FetchFails \/ PowerCut

Spec == Init /\ [][Next]_vars

(* An import goes on, and the scheduler pulls.                              *)
RouterIsOn ==
    /\ WF_vars(Section) /\ WF_vars(FetchFails)
    /\ \A j \in Jobs :
          WF_vars(FetchList(j)) /\ WF_vars(StoreFile(j)) /\ WF_vars(ImportBindings(j))

(* An admin who wants a router set up gets a script and pastes it, again    *)
(* and again until one has run to its end.                                  *)
Paste == outcome = NoOutcome /\ \E d \in Devices : row[d].key # 0 /\ Bootstrap(d)
FairSpec == Spec /\ RouterIsOn /\ SF_vars(Paste)

-----------------------------------------------------------------------------
(* Properties. *)

(* A script that has run to its end leaves nothing of another identity: the *)
(* router has its key, address, API user, RADIUS secret and tokens and every*)
(* section is there, whatever runs of other scripts, cut off wherever, came *)
(* before.  Two things are only added and so keep an older value: the peer  *)
(* of a hub that was deployed anew, and the DHCP server if a run was cut off*)
(* just before it (renderRouterScript, sections 1 to 11).                   *)
EndsAsFresh ==
    LET s == outcome.script IN
    s # NoScript =>
        /\ conf.key = s.key /\ conf.address = s.key /\ conf.users = {s.key}
        /\ conf.secret = s.secret /\ conf.beat = s.dev /\ conf.sync = s.dev
        /\ Plain \cup {"gateway"} \subseteq conf.built
        /\ "dhcp" \in conf.built \/ torn
        /\ conf.peer = s.peer \/ hub > 1

(* As long as some device can be set up, runs of the script come to their   *)
(* end again and again, also if the portal's files can never be fetched     *)
(* (section 9, each fetch wrapped).                                         *)
SetUpEnds ==
    <>[](\E d \in Devices : row[d].exists /\ row[d].key # 0) => []<>(outcome # NoOutcome)

(* When the admins leave the lists alone, a router that keeps pulling for a *)
(* device ends up with that device's list and no other address, whatever    *)
(* failed queries, late answers, power cuts and overlapping pulls left on it*)
(* (ip-bindings-sync and its import).                                       *)
ListArrives ==
    \A d \in Devices :
        <>[][UNCHANGED list]_list /\ <>[](row[d].exists /\ conf.sync = d) =>
            <>[]((\A j \in Jobs : pull[j] = Idle) => bindings = list[d])
=============================================================================
