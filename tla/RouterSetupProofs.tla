------------------------- MODULE RouterSetupProofs -------------------------
(* Theorems about RouterSetup, for every value of its constants. *)
EXTENDS RouterSetup, FiniteSetTheorems, TLAPS

Confs == [built : SUBSET {"wan", "lan", "gateway", "dhcp", "dns", "hotspot"},
          key : Nat, peer : Nat, address : Nat, secret : Nat, users : SUBSET Nat,
          login : BOOLEAN, beat : Devices \cup {NoDevice}, sync : Devices \cup {NoDevice}]
AnyScripts == [dev : Devices \cup {NoDevice}, key : Nat, peer : Nat, secret : Nat]
Pulls == [pc : {"idle", "answered", "import"}, list : SUBSET Addresses]

SetupTypeOK ==
    /\ row \in [Devices -> [exists : BOOLEAN, key : Nat, peer : Nat]]
    /\ hub \in Nat \ {0}
    /\ scripts \subseteq AnyScripts /\ IsFiniteSet(scripts)
    /\ \A s \in scripts : s.dev \in Devices
    /\ list \in [Devices -> SUBSET Addresses]
    /\ pull \in [Jobs -> Pulls] /\ file \in SUBSET Addresses
    /\ conf \in Confs
    /\ run \in [script : AnyScripts, at : 0 .. Len(Sections)]
    /\ run.at # 0 => run.script.dev \in Devices
    /\ outcome \in [script : AnyScripts, says : {"nothing", "complete", "incomplete"}]
    /\ torn \in BOOLEAN

(* As long as there was one hub only, it is the only peer anybody knows.    *)
OneHub ==
    hub = 1 => /\ conf.peer \in {0, 1}
               /\ \A s \in scripts : s.peer = 1
               /\ \A d \in Devices : row[d].key # 0 => row[d].peer = 1
               /\ run.at # 0 => run.script.peer = 1

(* What a run has left behind it when it has come past its k-th section.    *)
Past(k) == run.at > k

SoFar ==
    LET s == run.script IN
    /\ Past(1) => "wan" \in conf.built
    /\ Past(2) => conf.key = s.key
    /\ Past(3) => conf.peer = s.peer \/ hub > 1
    /\ Past(4) => conf.address = s.key
    /\ Past(5) => "lan" \in conf.built
    /\ Past(6) => "gateway" \in conf.built
    /\ Past(8) => "dns" \in conf.built
    /\ Past(9) => conf.secret = s.secret
    /\ Past(10) => "hotspot" \in conf.built
    /\ Past(11) => s.key \in conf.users
    /\ Past(12) => conf.users = {s.key}
    /\ Past(14) => conf.beat = s.dev
    /\ Past(16) => conf.sync = s.dev

(* A bridge with an address has DHCP, unless a run is just about to add it  *)
(* or was cut off there.                                                    *)
Served == "gateway" \in conf.built => "dhcp" \in conf.built \/ torn \/ run.at = 7

(* The setup's own pull is a section like the others.                       *)
PullsInTurn == pull["setup"].pc # "idle" => run.at = 17

SetupInv ==
    /\ SetupTypeOK /\ OneHub /\ SoFar /\ Served /\ PullsInTurn
    /\ run.at # 0 => outcome = NoOutcome
    /\ EndsAsFresh

LEMMA SectionNumbers ==
  ASSUME run \in [script : AnyScripts, at : 0 .. Len(Sections)]
  PROVE  /\ At("wan") <=> run.at = 1
         /\ At("tunnel") <=> run.at = 2
         /\ At("peer") <=> run.at = 3
         /\ At("address") <=> run.at = 4
         /\ At("lan") <=> run.at = 5
         /\ At("gateway") <=> run.at = 6
         /\ At("dhcp") <=> run.at = 7
         /\ At("dns") <=> run.at = 8
         /\ At("radius") <=> run.at = 9
         /\ At("hotspot") <=> run.at = 10
         /\ At("user") <=> run.at = 11
         /\ At("retire") <=> run.at = 12
         /\ At("files") <=> run.at = 13
         /\ At("beat") <=> run.at = 14
         /\ At("link") <=> run.at = 15
         /\ At("sync") <=> run.at = 16
         /\ At("apply") <=> run.at = 17
         /\ At("check") <=> run.at = 18
         /\ run.at \in 0 .. 18 /\ Len(Sections) = 18
  <1>1. Len(Sections) = 18 /\ DOMAIN Sections = 1 .. 18
    BY DEF Sections
  <1>2. run.at \in 0 .. 18
    BY <1>1
  <1> QED
    BY <1>1, <1>2, SMTT(60) DEF At, Sections

LEMMA SetupInit == Init => SetupInv
  <1> SUFFICES ASSUME Init PROVE SetupInv
    OBVIOUS
  <1> USE SetupAssumption DEF SetupAssumption
  <1>1. NoScript \in AnyScripts
    BY DEF AnyScripts, NoScript
  <1>2. Clean \in Confs /\ Factory \in Confs
    BY DEF Clean, Factory, Confs
  <1>3. 0 \in 0 .. Len(Sections)
    BY DEF Sections
  <1>4. SetupTypeOK
    <2>1. run \in [script : AnyScripts, at : 0 .. Len(Sections)] /\ run.at = 0
      BY <1>1, <1>3 DEF Init, Off
    <2>2. outcome \in [script : AnyScripts, says : {"nothing", "complete", "incomplete"}]
      BY <1>1 DEF Init, NoOutcome
    <2>3. row \in [Devices -> [exists : BOOLEAN, key : Nat, peer : Nat]]
      BY DEF Init
    <2>4. scripts = {} /\ IsFiniteSet(scripts)
      BY FS_EmptySet DEF Init
    <2>5. pull \in [Jobs -> Pulls]
      BY DEF Init, Idle, Pulls
    <2>6. conf \in Confs /\ hub = 1 /\ list = [d \in Devices |-> {}] /\ torn = FALSE
          /\ file = {}
      BY <1>2 DEF Init
    <2>7. hub \in Nat \ {0} /\ list \in [Devices -> SUBSET Addresses] /\ torn \in BOOLEAN
      <3>1. hub \in Nat \ {0}
        BY <2>6
      <3>2. list \in [Devices -> SUBSET Addresses] /\ torn \in BOOLEAN
        BY <2>6, Zenon
      <3> QED
        BY <3>1, <3>2
    <2> QED
      BY <2>1, <2>2, <2>3, <2>4, <2>5, <2>6, <2>7 DEF SetupTypeOK
  <1>5. /\ conf.peer = 0 /\ run.at = 0 /\ outcome = NoOutcome /\ outcome.script = NoScript
        /\ "gateway" \in conf.built => "dhcp" \in conf.built
    BY DEF Init, Clean, Factory, Off, NoOutcome
  <1>6. OneHub
    BY <1>5 DEF Init, OneHub
  <1>7. PullsInTurn
    BY DEF Init, PullsInTurn, Jobs, Idle
  <1> QED
    BY <1>4, <1>5, <1>6, <1>7 DEF SetupInv, SoFar, Past, Served, EndsAsFresh

(* The console: the router is left alone.                                   *)
LEMMA SetupIssue ==
  ASSUME SetupInv, NEW d \in Devices, Issue(d)
  PROVE  SetupInv'
  <1> DEFINE s == [dev |-> d, key |-> Cardinality(scripts) + 1, peer |-> hub, secret |-> hub]
  <1>1. Cardinality(scripts) \in Nat
    BY FS_CardinalityType DEF SetupInv, SetupTypeOK
  <1>2. s \in AnyScripts /\ s.dev \in Devices
    BY <1>1 DEF AnyScripts, SetupInv, SetupTypeOK
  <1>3. /\ row' = [row EXCEPT ![d].key = Cardinality(scripts) + 1, ![d].peer = hub]
        /\ scripts' = scripts \cup {s}
    BY DEF Issue
  <1>4. row' \in [Devices -> [exists : BOOLEAN, key : Nat, peer : Nat]]
    <2>1. [row[d] EXCEPT !.key = Cardinality(scripts) + 1, !.peer = hub]
             \in [exists : BOOLEAN, key : Nat, peer : Nat]
      <3>1. row[d] \in [exists : BOOLEAN, key : Nat, peer : Nat] /\ hub \in Nat
        BY DEF SetupInv, SetupTypeOK
      <3>2. \A r \in [exists : BOOLEAN, key : Nat, peer : Nat], k \in Nat, p \in Nat :
               [r EXCEPT !.key = k, !.peer = p] \in [exists : BOOLEAN, key : Nat, peer : Nat]
        OBVIOUS
      <3>3. Cardinality(scripts) + 1 \in Nat
        BY <1>1
      <3> QED
        BY <3>1, <3>2, <3>3, Zenon
    <2>2. row' = [row EXCEPT ![d] =
                    [row[d] EXCEPT !.key = Cardinality(scripts) + 1, !.peer = hub]]
      BY <1>3 DEF SetupInv, SetupTypeOK
    <2> QED
      BY <2>1, <2>2 DEF SetupInv, SetupTypeOK
  <1>5. UNCHANGED <<hub, list, router, pull, file>>
    BY DEF Issue, pulls
  <1>6. SetupTypeOK'
    <2>1. IsFiniteSet(scripts')
      BY <1>3, FS_AddElement DEF SetupInv, SetupTypeOK
    <2> QED
      BY <1>2, <1>3, <1>4, <1>5, <2>1 DEF SetupInv, SetupTypeOK, router
  <1>7. \A e \in Devices : row'[e].key # 0 =>
                              row'[e].peer = IF e = d THEN hub ELSE row[e].peer
    BY <1>3 DEF SetupInv, SetupTypeOK
  <1>8. \A e \in Devices : e # d => row'[e] = row[e]
    BY <1>3 DEF SetupInv, SetupTypeOK
  <1>9. OneHub'
    <2>1. s.peer = hub
      OBVIOUS
    <2> HIDE DEF s
    <2>2. conf' = conf /\ run' = run /\ hub' = hub
      BY <1>5 DEF router
    <2> QED
      BY <1>3, <1>7, <1>8, <2>1, <2>2 DEF SetupInv, OneHub
  <1> QED
    BY <1>5, <1>6, <1>9
    DEF SetupInv, SoFar, Past, Served, PullsInTurn, EndsAsFresh, router

LEMMA SetupConsole ==
  ASSUME SetupInv, Redeploy \/ EditList \/ \E d \in Devices : DeleteDevice(d)
  PROVE  SetupInv'
  <1>1. /\ UNCHANGED <<scripts, router, pull, file>>
        /\ hub' = hub \/ hub' = hub + 1
        /\ row' = row \/ \E d \in Devices : row' = [row EXCEPT ![d].exists = FALSE]
        /\ \/ list' = list \/ \E d \in Devices : list' = [list EXCEPT ![d] = {}]
           \/ \E d \in Devices, a \in Addresses :
                 list' = [list EXCEPT ![d] = @ \cup {a}] \/ list' = [list EXCEPT ![d] = @ \ {a}]
    BY SetupAssumption
    DEF Redeploy, EditList, DeleteDevice, AddIp, RemoveIp, pulls, SetupAssumption
  <1>2. /\ row' \in [Devices -> [exists : BOOLEAN, key : Nat, peer : Nat]]
        /\ \A d \in Devices : row'[d].key = row[d].key /\ row'[d].peer = row[d].peer
    <2>1. CASE row' = row
      BY <2>1 DEF SetupInv, SetupTypeOK
    <2>2. ASSUME NEW d \in Devices, row' = [row EXCEPT ![d].exists = FALSE]
          PROVE  /\ row' \in [Devices -> [exists : BOOLEAN, key : Nat, peer : Nat]]
                 /\ \A e \in Devices : row'[e].key = row[e].key /\ row'[e].peer = row[e].peer
      <3>1. row[d] \in [exists : BOOLEAN, key : Nat, peer : Nat]
        BY DEF SetupInv, SetupTypeOK
      <3>2. /\ [row[d] EXCEPT !.exists = FALSE] \in [exists : BOOLEAN, key : Nat, peer : Nat]
            /\ [row[d] EXCEPT !.exists = FALSE].key = row[d].key
            /\ [row[d] EXCEPT !.exists = FALSE].peer = row[d].peer
        BY <3>1
      <3>3. row' = [row EXCEPT ![d] = [row[d] EXCEPT !.exists = FALSE]]
        BY <2>2
      <3> QED
        BY <3>2, <3>3 DEF SetupInv, SetupTypeOK
    <2> QED
      BY <1>1, <2>1, <2>2
  <1>3. list' \in [Devices -> SUBSET Addresses]
    <2>1. ASSUME NEW d \in Devices, NEW l \in SUBSET Addresses, list' = [list EXCEPT ![d] = l]
          PROVE  list' \in [Devices -> SUBSET Addresses]
      BY <2>1 DEF SetupInv, SetupTypeOK
    <2>2. ASSUME NEW d \in Devices, NEW a \in Addresses
          PROVE  {} \in SUBSET Addresses /\ list[d] \cup {a} \in SUBSET Addresses
                   /\ list[d] \ {a} \in SUBSET Addresses
      BY DEF SetupInv, SetupTypeOK
    <2>3. CASE list' = list
      BY <2>3 DEF SetupInv, SetupTypeOK
    <2>4. CASE \E d \in Devices : list' = [list EXCEPT ![d] = {}]
      BY <2>1, <2>4
    <2>5. ASSUME NEW d \in Devices, NEW a \in Addresses,
                 list' = [list EXCEPT ![d] = @ \cup {a}] \/ list' = [list EXCEPT ![d] = @ \ {a}]
          PROVE  list' \in [Devices -> SUBSET Addresses]
      BY <2>1, <2>2, <2>5
    <2> QED
      BY <1>1, <2>3, <2>4, <2>5
  <1>4. /\ hub' \in Nat \ {0} /\ hub' >= hub
        /\ hub' = 1 => hub = 1
        /\ hub > 1 => hub' > 1
    BY <1>1 DEF SetupInv, SetupTypeOK
  <1>5. SetupTypeOK' /\ OneHub'
    BY <1>1, <1>2, <1>3, <1>4 DEF SetupInv, SetupTypeOK, OneHub, router
  <1> QED
    BY <1>1, <1>4, <1>5
    DEF SetupInv, SoFar, Past, Served, PullsInTurn, EndsAsFresh, router

(* An import starts: nothing is past yet. *)
LEMMA SetupStarts ==
  ASSUME SetupInv, NEW s \in AnyScripts, s.dev \in Devices, hub = 1 => s.peer = 1,
         run.at = 0, run' = [script |-> s, at |-> 1], outcome' = NoOutcome,
         conf' \in {conf, [conf EXCEPT !.built = @ \cup {"wan"}]},
         UNCHANGED <<server, pulls, torn>>
  PROVE  SetupInv'
  <1>1. NoOutcome.script = NoScript /\ NoScript \in AnyScripts
    BY DEF NoOutcome, NoScript, AnyScripts
  <1>2. run' \in [script : AnyScripts, at : 0 .. Len(Sections)]
    BY DEF Sections
  <1>3. outcome' \in [script : AnyScripts, says : {"nothing", "complete", "incomplete"}]
    BY <1>1 DEF NoOutcome
  <1>4. /\ conf' \in Confs /\ conf'.peer = conf.peer
        /\ "gateway" \in conf'.built <=> "gateway" \in conf.built
        /\ "dhcp" \in conf'.built <=> "dhcp" \in conf.built
    <2>1. CASE conf' = conf
      BY <2>1 DEF SetupInv, SetupTypeOK
    <2>2. CASE conf' = [conf EXCEPT !.built = @ \cup {"wan"}]
      BY <2>2 DEF SetupInv, SetupTypeOK, Confs
    <2> QED
      BY <2>1, <2>2
  <1>5. SetupTypeOK'
    BY <1>2, <1>3, <1>4 DEF SetupInv, SetupTypeOK, server, pulls
  <1>6. run'.at = 1 /\ run'.script = s
    OBVIOUS
  <1>7. OneHub' /\ SoFar' /\ Served' /\ PullsInTurn'
    BY <1>4, <1>6
    DEF SetupInv, OneHub, SoFar, Past, Served, PullsInTurn, server, pulls
  <1> QED
    BY <1>1, <1>5, <1>7 DEF SetupInv, EndsAsFresh

LEMMA SetupStart ==
  ASSUME SetupInv, \/ \E d \in Devices : Bootstrap(d)
                   \/ \E s \in scripts : Import(s)
  PROVE  SetupInv'
  <1>1. ASSUME NEW s \in scripts, Import(s) PROVE SetupInv'
    <2>1. run.at = 0 /\ s \in AnyScripts /\ s.dev \in Devices /\ (hub = 1 => s.peer = 1)
      BY <1>1 DEF SetupInv, SetupTypeOK, OneHub, Import, Off
    <2> QED
      BY <1>1, <2>1, SetupStarts DEF Import
  <1>2. ASSUME NEW d \in Devices, Bootstrap(d) PROVE SetupInv'
    <2>1. run.at = 0
      BY <1>2 DEF Bootstrap, Off
    <2>2. /\ conf' = [conf EXCEPT !.built = @ \cup {"wan"}]
          /\ UNCHANGED <<server, pulls, torn>>
      BY <1>2 DEF Bootstrap
    <2>3. CASE /\ row[d].key # 0 /\ run' = [script |-> Fetched(d), at |-> 1]
               /\ outcome' = NoOutcome
      <3>1. Fetched(d) \in AnyScripts /\ Fetched(d).dev = d /\ (hub = 1 => Fetched(d).peer = 1)
        BY <2>3 DEF Fetched, AnyScripts, SetupInv, SetupTypeOK, OneHub
      <3> QED
        BY <2>1, <2>2, <2>3, <3>1, SetupStarts
    <2>4. CASE UNCHANGED <<run, outcome>>
      <3>1. /\ conf' \in Confs
            /\ conf'.peer = conf.peer /\ conf'.key = conf.key /\ conf'.address = conf.address
            /\ conf'.secret = conf.secret /\ conf'.users = conf.users
            /\ conf'.beat = conf.beat /\ conf'.sync = conf.sync
            /\ conf'.built = conf.built \cup {"wan"}
        BY <2>2 DEF SetupInv, SetupTypeOK, Confs
      <3>2. SetupTypeOK'
        BY <2>2, <2>4, <3>1 DEF SetupInv, SetupTypeOK, server, pulls
      <3>3. OneHub' /\ Served' /\ PullsInTurn'
        BY <2>2, <2>4, <3>1 DEF SetupInv, OneHub, Served, PullsInTurn, server, pulls
      <3>4. SoFar'
        BY <2>1, <2>4 DEF SoFar, Past
      <3>5. EndsAsFresh'
        BY <2>2, <2>4, <3>1 DEF SetupInv, EndsAsFresh, Plain, server
      <3> QED
        BY <2>4, <3>2, <3>3, <3>4, <3>5 DEF SetupInv
    <2> QED
      BY <1>2, <2>3, <2>4 DEF Bootstrap
  <1> QED
    BY <1>1, <1>2

(* Steps within a run have no outcome to spoil. *)
LEMMA Running ==
  ASSUME SetupInv, run.at # 0, outcome' = outcome
  PROVE  EndsAsFresh' /\ outcome' = NoOutcome
  BY DEF SetupInv, EndsAsFresh, NoOutcome

(* A section that goes on. *)
LEMMA SetupOnward ==
  ASSUME SetupInv, NEW k \in 1 .. 17, run.at = k, k = 17 => pull'["setup"].pc = "idle",
         run' = [run EXCEPT !.at = @ + 1], conf' \in Confs,
         UNCHANGED <<server, outcome>>, torn' = torn,
         k # 17 => pull' = pull, file' = file,
         pull' \in [Jobs -> Pulls],
         SoFar', Served', conf'.peer \in {conf.peer, run.script.peer}
  PROVE  SetupInv'
  <1>1. run' \in [script : AnyScripts, at : 0 .. Len(Sections)] /\ run'.at = k + 1
          /\ run'.script = run.script
    BY DEF SetupInv, SetupTypeOK, Sections
  <1>2. SetupTypeOK'
    BY <1>1 DEF SetupInv, SetupTypeOK, server
  <1>3. OneHub'
    BY <1>1 DEF SetupInv, OneHub, server
  <1>4. PullsInTurn'
    BY DEF SetupInv, PullsInTurn
  <1> QED
    BY <1>1, <1>2, <1>3, <1>4, Running DEF SetupInv

(* A run ends, or is cut off: in front of the DHCP server that counts as    *)
(* torn.                                                                    *)
LEMMA SetupOff ==
  ASSUME SetupInv, run' = Off, UNCHANGED <<server, conf>>,
         torn' \in BOOLEAN, torn => torn', run.at = 7 => torn',
         outcome' \in [script : AnyScripts, says : {"nothing", "complete", "incomplete"}],
         EndsAsFresh', file' = file,
         pull' \in [Jobs -> Pulls],
         pull'["setup"].pc = "idle"
  PROVE  SetupInv'
  <1>1. run'.at = 0 /\ run' \in [script : AnyScripts, at : 0 .. Len(Sections)]
    BY DEF Off, NoScript, AnyScripts, Sections
  <1>2. SetupTypeOK'
    BY <1>1 DEF SetupInv, SetupTypeOK, server
  <1>3. OneHub' /\ SoFar' /\ PullsInTurn'
    BY <1>1 DEF SetupInv, OneHub, SoFar, Past, PullsInTurn, server
  <1>4. Served'
    BY DEF SetupInv, Served
  <1> QED
    BY <1>1, <1>2, <1>3, <1>4 DEF SetupInv

(* The sections, one by one.                                                *)
LEMMA SetupSections ==
  ASSUME SetupInv, Section
  PROVE  SetupInv'
  <1> USE DEF Configures, Onward, Stop, Script
  <1>0. /\ conf \in Confs /\ run \in [script : AnyScripts, at : 0 .. Len(Sections)]
        /\ pull \in [Jobs -> Pulls]
        /\ run.script \in AnyScripts
        /\ hub \in Nat \ {0}
    BY DEF SetupInv, SetupTypeOK
  <1>1. CASE AddWan
    <2>1. /\ run.at = 1 /\ run' = [run EXCEPT !.at = @ + 1]
          /\ UNCHANGED <<server, outcome, torn, pulls>>
      BY <1>0, <1>1, SectionNumbers DEF AddWan, AddIfMissing
    <2>2. conf' = [conf EXCEPT !.built = @ \cup {"wan"}]
      BY <1>0, <1>1 DEF AddWan, AddIfMissing, Confs, AnyScripts
    <2>3. conf' \in Confs
      BY <1>0, <2>2 DEF Confs, AnyScripts
    <2>4. run'.at = 2 /\ run'.script = run.script
      BY <1>0, <2>1
    <2>5. SoFar' /\ Served'
      BY <1>0, <2>1, <2>2, <2>4 DEF SetupInv, SoFar, Past, Served, OneHub, Confs, AnyScripts, server
    <2> QED
      BY <1>0, <2>1, <2>2, <2>3, <2>5, SetupOnward DEF pulls, Confs
  <1>2. CASE SetTunnel
    <2>1. /\ run.at = 2 /\ run' = [run EXCEPT !.at = @ + 1]
          /\ UNCHANGED <<server, outcome, torn, pulls>>
      BY <1>0, <1>2, SectionNumbers DEF SetTunnel
    <2>2. conf' = [conf EXCEPT !.key = run.script.key]
      BY <1>0, <1>2 DEF SetTunnel, Confs, AnyScripts
    <2>3. conf' \in Confs
      BY <1>0, <2>2 DEF Confs, AnyScripts
    <2>4. run'.at = 3 /\ run'.script = run.script
      BY <1>0, <2>1
    <2>5. SoFar' /\ Served'
      BY <1>0, <2>1, <2>2, <2>4 DEF SetupInv, SoFar, Past, Served, OneHub, Confs, AnyScripts, server
    <2> QED
      BY <1>0, <2>1, <2>2, <2>3, <2>5, SetupOnward DEF pulls, Confs
  <1>3. CASE AddPeer
    <2>1. /\ run.at = 3 /\ run' = [run EXCEPT !.at = @ + 1]
          /\ UNCHANGED <<server, outcome, torn, pulls>>
      BY <1>0, <1>3, SectionNumbers DEF AddPeer
    <2>2. conf' = [conf EXCEPT !.peer = IF @ = 0 THEN run.script.peer ELSE @]
      BY <1>0, <1>3 DEF AddPeer, Confs, AnyScripts
    <2>3. conf' \in Confs
      BY <1>0, <2>2 DEF Confs, AnyScripts
    <2>4. run'.at = 4 /\ run'.script = run.script
      BY <1>0, <2>1
    <2>5. SoFar' /\ Served'
      BY <1>0, <2>1, <2>2, <2>4 DEF SetupInv, SoFar, Past, Served, OneHub, Confs, AnyScripts, server
    <2>6. conf'.peer \in {conf.peer, run.script.peer}
      BY <1>0, <2>2 DEF Confs
    <2> QED
      BY <1>0, <2>1, <2>3, <2>5, <2>6, SetupOnward DEF pulls
  <1>4. CASE SetAddress
    <2>1. /\ run.at = 4 /\ run' = [run EXCEPT !.at = @ + 1]
          /\ UNCHANGED <<server, outcome, torn, pulls>>
      BY <1>0, <1>4, SectionNumbers DEF SetAddress
    <2>2. conf' = [conf EXCEPT !.address = run.script.key]
      BY <1>0, <1>4 DEF SetAddress, Confs, AnyScripts
    <2>3. conf' \in Confs
      BY <1>0, <2>2 DEF Confs, AnyScripts
    <2>4. run'.at = 5 /\ run'.script = run.script
      BY <1>0, <2>1
    <2>5. SoFar' /\ Served'
      BY <1>0, <2>1, <2>2, <2>4 DEF SetupInv, SoFar, Past, Served, OneHub, Confs, AnyScripts, server
    <2> QED
      BY <1>0, <2>1, <2>2, <2>3, <2>5, SetupOnward DEF pulls, Confs
  <1>5. CASE AddLan
    <2>1. /\ run.at = 5 /\ run' = [run EXCEPT !.at = @ + 1]
          /\ UNCHANGED <<server, outcome, torn, pulls>>
      BY <1>0, <1>5, SectionNumbers DEF AddLan, AddIfMissing
    <2>2. conf' = [conf EXCEPT !.built = @ \cup {"lan"}]
      BY <1>0, <1>5 DEF AddLan, AddIfMissing, Confs, AnyScripts
    <2>3. conf' \in Confs
      BY <1>0, <2>2 DEF Confs, AnyScripts
    <2>4. run'.at = 6 /\ run'.script = run.script
      BY <1>0, <2>1
    <2>5. SoFar' /\ Served'
      BY <1>0, <2>1, <2>2, <2>4 DEF SetupInv, SoFar, Past, Served, OneHub, Confs, AnyScripts, server
    <2> QED
      BY <1>0, <2>1, <2>2, <2>3, <2>5, SetupOnward DEF pulls, Confs
  <1>6. CASE AddDhcp
    <2>1. /\ run.at = 7 /\ run' = [run EXCEPT !.at = @ + 1]
          /\ UNCHANGED <<server, outcome, torn, pulls>>
      BY <1>0, <1>6, SectionNumbers DEF AddDhcp, AddIfMissing
    <2>2. conf' = [conf EXCEPT !.built = @ \cup {"dhcp"}]
      BY <1>0, <1>6 DEF AddDhcp, AddIfMissing, Confs, AnyScripts
    <2>3. conf' \in Confs
      BY <1>0, <2>2 DEF Confs, AnyScripts
    <2>4. run'.at = 8 /\ run'.script = run.script
      BY <1>0, <2>1
    <2>5. SoFar' /\ Served'
      BY <1>0, <2>1, <2>2, <2>4 DEF SetupInv, SoFar, Past, Served, OneHub, Confs, AnyScripts, server
    <2> QED
      BY <1>0, <2>1, <2>2, <2>3, <2>5, SetupOnward DEF pulls, Confs
  <1>7. CASE AddDns
    <2>1. /\ run.at = 8 /\ run' = [run EXCEPT !.at = @ + 1]
          /\ UNCHANGED <<server, outcome, torn, pulls>>
      BY <1>0, <1>7, SectionNumbers DEF AddDns, AddIfMissing
    <2>2. conf' = [conf EXCEPT !.built = @ \cup {"dns"}]
      BY <1>0, <1>7 DEF AddDns, AddIfMissing, Confs, AnyScripts
    <2>3. conf' \in Confs
      BY <1>0, <2>2 DEF Confs, AnyScripts
    <2>4. run'.at = 9 /\ run'.script = run.script
      BY <1>0, <2>1
    <2>5. SoFar' /\ Served'
      BY <1>0, <2>1, <2>2, <2>4 DEF SetupInv, SoFar, Past, Served, OneHub, Confs, AnyScripts, server
    <2> QED
      BY <1>0, <2>1, <2>2, <2>3, <2>5, SetupOnward DEF pulls, Confs
  <1>8. CASE SetRadius
    <2>1. /\ run.at = 9 /\ run' = [run EXCEPT !.at = @ + 1]
          /\ UNCHANGED <<server, outcome, torn, pulls>>
      BY <1>0, <1>8, SectionNumbers DEF SetRadius
    <2>2. conf' = [conf EXCEPT !.secret = run.script.secret]
      BY <1>0, <1>8 DEF SetRadius, Confs, AnyScripts
    <2>3. conf' \in Confs
      BY <1>0, <2>2 DEF Confs, AnyScripts
    <2>4. run'.at = 10 /\ run'.script = run.script
      BY <1>0, <2>1
    <2>5. SoFar' /\ Served'
      BY <1>0, <2>1, <2>2, <2>4 DEF SetupInv, SoFar, Past, Served, OneHub, Confs, AnyScripts, server
    <2> QED
      BY <1>0, <2>1, <2>2, <2>3, <2>5, SetupOnward DEF pulls, Confs
  <1>9. CASE AddHotspot
    <2>1. /\ run.at = 10 /\ run' = [run EXCEPT !.at = @ + 1]
          /\ UNCHANGED <<server, outcome, torn, pulls>>
      BY <1>0, <1>9, SectionNumbers DEF AddHotspot, AddIfMissing
    <2>2. conf' = [conf EXCEPT !.built = @ \cup {"hotspot"}]
      BY <1>0, <1>9 DEF AddHotspot, AddIfMissing, Confs, AnyScripts
    <2>3. conf' \in Confs
      BY <1>0, <2>2 DEF Confs, AnyScripts
    <2>4. run'.at = 11 /\ run'.script = run.script
      BY <1>0, <2>1
    <2>5. SoFar' /\ Served'
      BY <1>0, <2>1, <2>2, <2>4 DEF SetupInv, SoFar, Past, Served, OneHub, Confs, AnyScripts, server
    <2> QED
      BY <1>0, <2>1, <2>2, <2>3, <2>5, SetupOnward DEF pulls, Confs
  <1>10. CASE SetUser
    <2>1. /\ run.at = 11 /\ run' = [run EXCEPT !.at = @ + 1]
          /\ UNCHANGED <<server, outcome, torn, pulls>>
      BY <1>0, <1>10, SectionNumbers DEF SetUser
    <2>2. conf' = [conf EXCEPT !.users = @ \cup {run.script.key}]
      BY <1>0, <1>10 DEF SetUser, Confs, AnyScripts
    <2>3. conf' \in Confs
      BY <1>0, <2>2 DEF Confs, AnyScripts
    <2>4. run'.at = 12 /\ run'.script = run.script
      BY <1>0, <2>1
    <2>5. SoFar' /\ Served'
      BY <1>0, <2>1, <2>2, <2>4 DEF SetupInv, SoFar, Past, Served, OneHub, Confs, AnyScripts, server
    <2> QED
      BY <1>0, <2>1, <2>2, <2>3, <2>5, SetupOnward DEF pulls, Confs
  <1>11. CASE RetireUsers
    <2>1. /\ run.at = 12 /\ run' = [run EXCEPT !.at = @ + 1]
          /\ UNCHANGED <<server, outcome, torn, pulls>>
      BY <1>0, <1>11, SectionNumbers DEF RetireUsers
    <2>2. conf' = [conf EXCEPT !.users = @ \cap {run.script.key}]
      BY <1>0, <1>11 DEF RetireUsers, Confs, AnyScripts
    <2>3. conf' \in Confs
      BY <1>0, <2>2 DEF Confs, AnyScripts
    <2>4. run'.at = 13 /\ run'.script = run.script
      BY <1>0, <2>1
    <2>5. SoFar' /\ Served'
      BY <1>0, <2>1, <2>2, <2>4 DEF SetupInv, SoFar, Past, Served, OneHub, Confs, AnyScripts, server
    <2> QED
      BY <1>0, <2>1, <2>2, <2>3, <2>5, SetupOnward DEF pulls, Confs
  <1>12. CASE FetchFiles
    <2>1. /\ run.at = 13 /\ run' = [run EXCEPT !.at = @ + 1]
          /\ UNCHANGED <<server, outcome, torn, pulls>>
      BY <1>0, <1>12, SectionNumbers DEF FetchFiles
    <2>2. \E fetched \in BOOLEAN : conf' = [conf EXCEPT !.login = @ \/ fetched]
      BY <1>0, <1>12 DEF FetchFiles, Confs, AnyScripts
    <2>3. conf' \in Confs
      BY <1>0, <2>2 DEF Confs, AnyScripts
    <2>4. run'.at = 14 /\ run'.script = run.script
      BY <1>0, <2>1
    <2>5. SoFar' /\ Served'
      BY <1>0, <2>1, <2>2, <2>4 DEF SetupInv, SoFar, Past, Served, OneHub, Confs, AnyScripts, server
    <2> QED
      BY <1>0, <2>1, <2>2, <2>3, <2>5, SetupOnward DEF pulls, Confs
  <1>13. CASE SetBeat
    <2>1. /\ run.at = 14 /\ run' = [run EXCEPT !.at = @ + 1]
          /\ UNCHANGED <<server, outcome, torn, pulls>>
      BY <1>0, <1>13, SectionNumbers DEF SetBeat
    <2>2. conf' = [conf EXCEPT !.beat = run.script.dev]
      BY <1>0, <1>13 DEF SetBeat, Confs, AnyScripts
    <2>3. conf' \in Confs
      BY <1>0, <2>2 DEF Confs, AnyScripts
    <2>4. run'.at = 15 /\ run'.script = run.script
      BY <1>0, <2>1
    <2>5. SoFar' /\ Served'
      BY <1>0, <2>1, <2>2, <2>4 DEF SetupInv, SoFar, Past, Served, OneHub, Confs, AnyScripts, server
    <2> QED
      BY <1>0, <2>1, <2>2, <2>3, <2>5, SetupOnward DEF pulls, Confs
  <1>14. CASE SetSync
    <2>1. /\ run.at = 16 /\ run' = [run EXCEPT !.at = @ + 1]
          /\ UNCHANGED <<server, outcome, torn, pulls>>
      BY <1>0, <1>14, SectionNumbers DEF SetSync
    <2>2. conf' = [conf EXCEPT !.sync = run.script.dev]
      BY <1>0, <1>14 DEF SetSync, Confs, AnyScripts
    <2>3. conf' \in Confs
      BY <1>0, <2>2 DEF Confs, AnyScripts
    <2>4. run'.at = 17 /\ run'.script = run.script
      BY <1>0, <2>1
    <2>5. SoFar' /\ Served'
      BY <1>0, <2>1, <2>2, <2>4 DEF SetupInv, SoFar, Past, Served, OneHub, Confs, AnyScripts, server
    <2> QED
      BY <1>0, <2>1, <2>2, <2>3, <2>5, SetupOnward DEF pulls, Confs
  <1>15. CASE AddGateway
    <2>1. /\ run.at = 6 /\ UNCHANGED <<server, outcome, torn, pulls>>
          /\ run' = [run EXCEPT !.at = @ + (IF "gateway" \in conf.built THEN 2 ELSE 1)]
          /\ conf' = [conf EXCEPT !.built = @ \cup {"gateway"}]
      BY <1>0, <1>15, SectionNumbers DEF AddGateway
    <2>2. conf' \in Confs
      BY <1>0, <2>1 DEF Confs
    <2>3. /\ run'.at = (IF "gateway" \in conf.built THEN 8 ELSE 7)
          /\ run'.script = run.script
          /\ run' \in [script : AnyScripts, at : 0 .. Len(Sections)]
      BY <1>0, <2>1 DEF Sections
    <2>4. SoFar' /\ Served'
      BY <1>0, <2>1, <2>3 DEF SetupInv, SoFar, Past, Served, Confs, AnyScripts, server
    <2>5. SetupTypeOK'
      BY <2>1, <2>2, <2>3 DEF SetupInv, SetupTypeOK, server, pulls
    <2>6. OneHub' /\ PullsInTurn'
      BY <1>0, <2>1, <2>3 DEF SetupInv, OneHub, PullsInTurn, Confs, server, pulls
    <2> QED
      BY <2>1, <2>4, <2>5, <2>6, Running DEF SetupInv
  <1>16. CASE FirstBeat
    <2>1. run.at = 15 /\ UNCHANGED <<server, conf, outcome, torn, pulls>>
      BY <1>0, <1>16, SectionNumbers DEF FirstBeat
    <2>2. CASE run' = [run EXCEPT !.at = @ + 1]
      <3>1. run'.at = 16 /\ run'.script = run.script
        BY <1>0, <2>2, <2>1
      <3>2. SoFar' /\ Served'
        BY <2>1, <3>1 DEF SetupInv, SoFar, Past, Served, server
      <3> QED
        BY <1>0, <2>1, <2>2, <3>2, SetupOnward DEF pulls
    <2>3. CASE run' = Off
      <3>1. EndsAsFresh'
        BY <2>1, Running
      <3>2. pull["setup"].pc = "idle"
        BY <2>1 DEF SetupInv, PullsInTurn
      <3> QED
        BY <1>0, <2>1, <2>3, <3>1, <3>2, SetupOff DEF SetupInv, SetupTypeOK, pulls
    <2> QED
      BY <1>16, <2>2, <2>3 DEF FirstBeat
  <1>17. CASE SelfCheck
    <2>1. /\ run.at = 18 /\ run' = Off /\ UNCHANGED <<server, conf, torn, pulls>>
          /\ outcome' = [script |-> run.script,
                         says |-> IF ChecksPass THEN "complete" ELSE "incomplete"]
      BY <1>0, <1>17, SectionNumbers DEF SelfCheck
    <2>2. outcome' \in [script : AnyScripts, says : {"nothing", "complete", "incomplete"}]
      BY <1>0, <2>1
    <2>3. EndsAsFresh'
      BY <1>0, <2>1 DEF SetupInv, SoFar, Past, Served, EndsAsFresh, Plain, server
    <2>4. pull["setup"].pc = "idle"
      BY <2>1 DEF SetupInv, PullsInTurn
    <2> QED
      BY <1>0, <2>1, <2>2, <2>3, <2>4, SetupOff DEF SetupInv, SetupTypeOK, pulls
  <1> QED
    BY <1>1, <1>2, <1>3, <1>4, <1>5, <1>6, <1>7, <1>8, <1>9, <1>10, <1>11, <1>12, <1>13, <1>14, <1>15, <1>16, <1>17 DEF Section

(* The allowlist touches no section but its own.                            *)
LEMMA SetupPulls ==
  ASSUME SetupInv, FetchFails \/ \E j \in Jobs : FetchList(j) \/ StoreFile(j) \/ ImportBindings(j)
  PROVE  SetupInv'
  <1>0. /\ conf \in Confs /\ run \in [script : AnyScripts, at : 0 .. Len(Sections)]
        /\ pull \in [Jobs -> Pulls]
        /\ file \in SUBSET Addresses /\ list \in [Devices -> SUBSET Addresses]
    BY DEF SetupInv, SetupTypeOK
  <1>1. ASSUME run.at = 17, run' = [run EXCEPT !.at = @ + 1],
               UNCHANGED <<server, conf, outcome, torn, file>>,
               pull' \in [Jobs -> Pulls],
               pull'["setup"].pc = "idle"
        PROVE  SetupInv'
    <2>1. run'.at = 18 /\ run'.script = run.script
      BY <1>0, <1>1
    <2>2. SoFar' /\ Served'
      BY <1>1, <2>1 DEF SetupInv, SoFar, Past, Served, server
    <2> QED
      BY <1>0, <1>1, <2>2, SetupOnward
  <1>2. ASSUME UNCHANGED <<server, router>>, file' \in SUBSET Addresses,
               pull' \in [Jobs -> Pulls],
               pull'["setup"].pc # "idle" => run.at = 17
        PROVE  SetupInv'
    BY <1>2 DEF SetupInv, SetupTypeOK, OneHub, SoFar, Past, Served, PullsInTurn,
                EndsAsFresh, server, router
  <1>3. CASE FetchFails
    <2>1. /\ run.at = 17 /\ run' = [run EXCEPT !.at = @ + 1]
          /\ UNCHANGED <<server, conf, outcome, torn, pulls>> /\ pull["setup"] = Idle
      BY <1>0, <1>3, SectionNumbers DEF FetchFails, MayPull, Onward
    <2> QED
      BY <1>0, <1>1, <2>1 DEF pulls, Idle
  <1>4. ASSUME NEW j \in Jobs, FetchList(j)
        PROVE  SetupInv'
    <2>1. UNCHANGED <<server, router, file>> /\ (j = "setup" => run.at = 17)
      BY <1>0, <1>4, SectionNumbers DEF FetchList, MayPull
    <2>2. \A k \in Jobs : k # j => pull'[k] = pull[k]
      BY <1>0, <1>4 DEF FetchList
    <2>3. pull' \in [Jobs -> Pulls]
      <3>1. CASE pull' = [pull EXCEPT ![j] = [pc |-> "answered", list |-> Answer(Token(j))]]
        <4>1. Token(j) \in Devices
          <5>1. CASE j = "timer"
            <6>1. conf.sync # NoDevice /\ conf.sync \in Devices \cup {NoDevice}
              BY <1>0, <1>4, <5>1 DEF FetchList, MayPull, Confs
            <6> QED
              BY <5>1, <6>1 DEF Token
          <5>2. CASE j # "timer"
            <6>1. run.script.dev \in Devices
              BY <2>1, <5>2 DEF Jobs, SetupInv, SetupTypeOK
            <6> QED
              BY <5>2, <6>1 DEF Token, Script
          <5> QED
            BY <5>1, <5>2
        <4>2. Answer(Token(j)) \in SUBSET Addresses
          BY <1>0, <4>1 DEF Answer
        <4> QED
          BY <1>0, <3>1, <4>2 DEF Pulls
      <3>2. CASE pull' = [pull EXCEPT ![j].pc = "answered"]
        BY <1>0, <3>2 DEF Pulls
      <3> QED
        BY <1>4, <3>1, <3>2 DEF FetchList
    <2>4. pull'["setup"].pc # "idle" => run.at = 17
      BY <2>1, <2>2 DEF SetupInv, PullsInTurn, Jobs
    <2> QED
      BY <1>0, <1>2, <2>1, <2>3, <2>4
  <1>6. ASSUME NEW j \in Jobs, StoreFile(j)
        PROVE  SetupInv'
    <2>1. /\ pull[j].pc = "answered" /\ file' = pull[j].list /\ UNCHANGED <<server, router>>
          /\ pull' = [pull EXCEPT ![j] = [pc |-> "import", list |-> {}]]
      BY <1>6 DEF StoreFile
    <2>2. pull' \in [Jobs -> Pulls] /\ file' \in SUBSET Addresses
      BY <1>0, <2>1 DEF Pulls
    <2>3. pull'["setup"].pc # "idle" => run.at = 17
      BY <1>0, <2>1 DEF SetupInv, PullsInTurn, Jobs
    <2> QED
      BY <1>2, <2>1, <2>2, <2>3
  <1>5. ASSUME NEW j \in Jobs, ImportBindings(j)
        PROVE  SetupInv'
    <2>1. /\ pull' = [pull EXCEPT ![j] = Idle] /\ pull[j].pc = "import"
          /\ UNCHANGED <<server, conf, outcome, torn, file>>
      BY <1>5 DEF ImportBindings
    <2>2. Idle \in Pulls /\ Idle.pc = "idle"
      BY DEF Idle, Pulls
    <2>3. pull' \in [Jobs -> Pulls]
      BY <1>0, <2>1, <2>2
    <2>4. CASE j = "setup"
      <3>1. run.at = 17 /\ run' = [run EXCEPT !.at = @ + 1]
        BY <1>5, <2>1, <2>4 DEF ImportBindings, Onward, SetupInv, PullsInTurn
      <3>2. pull'["setup"].pc = "idle"
        BY <1>0, <2>1, <2>2, <2>4 DEF Jobs
      <3> QED
        BY <1>1, <2>1, <2>3, <3>1, <3>2
    <2>5. CASE j # "setup"
      <3>1. run' = run /\ pull'["setup"] = pull["setup"]
        BY <1>0, <1>5, <2>1, <2>5 DEF ImportBindings, Jobs
      <3> QED
        BY <1>0, <1>2, <2>1, <2>3, <3>1 DEF router, SetupInv, PullsInTurn
    <2> QED
      BY <2>4, <2>5
  <1> QED
    BY <1>3, <1>4, <1>5, <1>6

LEMMA SetupCut ==
  ASSUME SetupInv, PowerCut
  PROVE  SetupInv'
  <1>1. /\ run' = Off /\ pull' = [j \in Jobs |-> Idle]
        /\ torn' = (torn \/ At("dhcp")) /\ UNCHANGED <<server, conf, outcome, file>>
    BY DEF PowerCut
  <1>2. /\ run \in [script : AnyScripts, at : 0 .. Len(Sections)] /\ torn \in BOOLEAN
        /\ outcome \in [script : AnyScripts, says : {"nothing", "complete", "incomplete"}]
    BY DEF SetupInv, SetupTypeOK
  <1>3. torn' \in BOOLEAN /\ (torn => torn') /\ (run.at = 7 => torn')
    <2>1. run.at = 7 => At("dhcp")
      BY <1>2, SectionNumbers
    <2>2. At("dhcp") \in BOOLEAN
      BY DEF At
    <2> QED
      BY <1>1, <1>2, <2>1, <2>2
  <1>4. /\ pull' \in [Jobs -> Pulls]
        /\ pull'["setup"].pc = "idle"
    BY <1>1 DEF Idle, Jobs, Pulls
  <1>5. EndsAsFresh'
    BY <1>1, <1>3 DEF SetupInv, EndsAsFresh, server
  <1> QED
    BY <1>1, <1>2, <1>3, <1>4, <1>5, SetupOff

LEMMA SetupNext == SetupInv /\ [Next]_vars => SetupInv'
  <1> SUFFICES ASSUME SetupInv, [Next]_vars PROVE SetupInv'
    OBVIOUS
  <1>1. CASE UNCHANGED vars
    BY <1>1 DEF SetupInv, SetupTypeOK, OneHub, SoFar, Past, Served, PullsInTurn,
                EndsAsFresh, vars, server, router, pulls
  <1>2. Edited \subseteq Devices
    BY SetupAssumption DEF SetupAssumption
  <1> QED
    BY <1>1, <1>2, SetupIssue, SetupConsole, SetupStart, SetupSections, SetupPulls, SetupCut
    DEF Next

(* A script that has run to its end leaves nothing of another identity,     *)
(* whatever runs, of however many scripts and devices, were cut off before  *)
(* it and wherever (renderRouterScript, sections 1 to 11).                  *)
THEOREM AlwaysEndsAsFresh == Spec => []EndsAsFresh
  <1>1. SetupInv => EndsAsFresh
    BY DEF SetupInv
  <1> QED
    BY <1>1, SetupInit, SetupNext, PTL DEF Spec

(* Every variable keeps its range, for any number of devices, identities    *)
(* and deployments.                                                         *)
THEOREM SetupTypeCorrect == Spec => []SetupTypeOK
  <1>1. SetupInv => SetupTypeOK
    BY DEF SetupInv
  <1> QED
    BY <1>1, SetupInit, SetupNext, PTL DEF Spec
-----------------------------------------------------------------------------
(* Convergence of the allowlist: all of ListArrives but the fairness.      *)

(* Answers under way that are older than d's list or another device's, and  *)
(* a file that nothing of the kind will be imported from any more.          *)
OldAnswers(d) == {j \in Jobs : pull[j].pc = "answered" /\ pull[j].list # list[d]}
FileIsOf(d) ==
    OldAnswers(d) = {} /\ (file = list[d] \/ \A j \in Jobs : pull[j].pc # "import")

(* On a router that pulls for d, while d's list stays and nothing fails:    *)
(* old answers only ever get fewer, once there is none the file is d's and  *)
(* stays d's, and whoever then imports it brings d's list.                  *)
ListStep ==
    \A d \in Devices : list'[d] = list[d] /\ conf.sync = d /\ faults' = faults =>
        /\ OldAnswers(d)' \subseteq OldAnswers(d)
        /\ FileIsOf(d) =>
              /\ FileIsOf(d)' /\ bindings' \in {bindings, list[d]}
              /\ \A j \in Jobs : pull[j].pc = "import" /\ pull'[j].pc # "import" =>
                    bindings' = list[d]

(* Either job pulls for the device whose token is on the router: the setup  *)
(* pulls after it has set its own.                                          *)
LEMMA PullsForItsDevice ==
  ASSUME SetupInv, NEW j \in Jobs, MayPull(j)
  PROVE  Token(j) = conf.sync
  <1>1. CASE j = "timer"
    BY <1>1 DEF Token
  <1>2. CASE j # "timer"
    <2>1. At("apply") /\ run \in [script : AnyScripts, at : 0 .. Len(Sections)]
      BY <1>2 DEF MayPull, SetupInv, SetupTypeOK
    <2>2. run.at = 17
      BY <2>1, SectionNumbers
    <2> QED
      BY <1>2, <2>2 DEF SetupInv, SoFar, Past, Token, Script
  <1> QED
    BY <1>1, <1>2

LEMMA FaultsNext ==
  ASSUME faults \in Nat, [Next]_vars
  PROVE  faults' \in Nat
  <1>1. faults' = faults \/ Fault
    BY DEF Next, Issue, Bootstrap, DeleteDevice, Redeploy, EditList, Import, Section, FetchFails,
       FetchList, StoreFile, ImportBindings, PowerCut, Configures, AddWan, SetTunnel, AddPeer, SetAddress,
       AddLan, AddGateway, AddDhcp, AddDns, SetRadius, AddHotspot, SetUser, RetireUsers,
       FetchFiles, SetBeat, FirstBeat, SetSync, SelfCheck, AddIfMissing, vars
  <1> QED
    BY <1>1 DEF Fault

LEMMA ListNext ==
  ASSUME SetupInv, faults \in Nat, [Next]_vars
  PROVE  ListStep
  <1> SUFFICES ASSUME NEW d \in Devices, list'[d] = list[d], conf.sync = d, faults' = faults
               PROVE  /\ OldAnswers(d)' \subseteq OldAnswers(d)
                      /\ FileIsOf(d) =>
                           /\ FileIsOf(d)' /\ bindings' \in {bindings, list[d]}
                           /\ \A j \in Jobs : pull[j].pc = "import" /\ pull'[j].pc # "import"
                                               => bindings' = list[d]
    BY DEF ListStep
  <1>0. pull \in [Jobs -> Pulls] /\ ~Fault
    BY DEF SetupInv, SetupTypeOK, Fault
  <1>1. CASE UNCHANGED pulls
    BY <1>1 DEF pulls, OldAnswers, FileIsOf
  <1>3. ASSUME NEW j \in Jobs, FetchList(j)
        PROVE  /\ pull[j].pc = "idle" /\ pull'[j] = [pc |-> "answered", list |-> list[d]]
               /\ UNCHANGED <<file, bindings>> /\ \A i \in Jobs : i # j => pull'[i] = pull[i]
    <2>1. Token(j) = d /\ pull[j] = Idle
      BY <1>3, PullsForItsDevice DEF FetchList, MayPull
    <2>2. /\ pull' = [pull EXCEPT ![j] = [pc |-> "answered", list |-> list[d]]]
          /\ UNCHANGED <<file, bindings>>
      BY <1>0, <1>3, <2>1 DEF FetchList, Answer
    <2> QED
      BY <1>0, <2>1, <2>2 DEF Idle
  <1>4. ASSUME NEW j \in Jobs, StoreFile(j)
        PROVE  /\ pull[j].pc = "answered" /\ pull'[j].pc = "import"
               /\ file' = pull[j].list /\ bindings' = bindings
               /\ \A i \in Jobs : i # j => pull'[i] = pull[i]
    BY <1>0, <1>4 DEF StoreFile
  <1>5. ASSUME NEW j \in Jobs, ImportBindings(j)
        PROVE  /\ pull[j].pc = "import" /\ pull'[j].pc = "idle"
               /\ bindings' = file /\ file' = file
               /\ \A i \in Jobs : i # j => pull'[i] = pull[i]
    BY <1>0, <1>5 DEF ImportBindings, Idle
  <1>6. CASE \E j \in Jobs : FetchList(j)
    BY <1>3, <1>6 DEF OldAnswers, FileIsOf
  <1>7. CASE \E j \in Jobs : StoreFile(j)
    BY <1>4, <1>7 DEF OldAnswers, FileIsOf
  <1>8. CASE \E j \in Jobs : ImportBindings(j)
    BY <1>5, <1>8 DEF OldAnswers, FileIsOf
  <1>9. ~PowerCut
    BY <1>0 DEF PowerCut
  <1>10. \/ UNCHANGED pulls
         \/ \E j \in Jobs : FetchList(j) \/ StoreFile(j) \/ ImportBindings(j)
    BY <1>9 DEF Next, Issue, Bootstrap, DeleteDevice, Redeploy, EditList, Import, Section,
       FetchFails, Configures, AddWan, SetTunnel, AddPeer, SetAddress, AddLan, AddGateway,
       AddDhcp, AddDns, SetRadius, AddHotspot, SetUser, RetireUsers, FetchFiles, SetBeat,
       FirstBeat, SetSync, SelfCheck, AddIfMissing, vars
  <1> QED
    BY <1>1, <1>6, <1>7, <1>8, <1>10

(* Once the list stays and requests succeed, a router can only get nearer   *)
(* to its own device's list: what ListArrives adds is that the pulls run.   *)
THEOREM ListsConverge == Spec => [][ListStep]_vars
  <1>1. SetupInv /\ faults \in Nat /\ [Next]_vars => [ListStep]_vars
    BY ListNext
  <1>2. Init => faults \in Nat
    BY DEF Init
  <1>3. faults \in Nat /\ [Next]_vars => (faults \in Nat)'
    BY FaultsNext
  <1> QED
    BY <1>1, <1>2, <1>3, SetupInit, SetupNext, PTL DEF Spec
=============================================================================
