----------------------------- MODULE DevicePage -----------------------------
(***************************************************************************)
(* The devices page in one admin's browser.  Every click that needs the    *)
(* database or a function sends a request and the page goes on; the answer *)
(* is applied whenever it comes, to whatever the page shows by then.  One  *)
(* setup panel and one panel of allowed addresses serve every device.      *)
(* Around the page, routers check in and fall silent, and another admin    *)
(* issues identities and deletes devices.                                  *)
(*                                                                         *)
(* A device's list holds one address or none, so a row of ip_allowlist is  *)
(* named by its device.  A setup script is named by its device and key.    *)
(*                                                                         *)
(* Sources: devices/page.tsx, provisioning-script, provisioning-fetch.     *)
(***************************************************************************)
EXTENDS Naturals, FiniteSets

CONSTANTS
    Devices,        \* ids of mikrotik_devices
    NoDevice,
    Existing,       \* those that exist when the page is opened
    Requests,       \* requests of the page that may be under way at a time
    MaxClicks,      \* bound on what the admin does before only waiting
    MaxChanges,     \* bound on what happens around the page
    MaxKeys,        \* bound on the identities issued
    MaxFaults       \* bound on failing requests

ASSUME DevicePageAssumption ==
    /\ NoDevice \notin Devices /\ Existing \subseteq Devices
    /\ MaxClicks \in Nat /\ MaxChanges \in Nat /\ MaxKeys \in Nat /\ MaxFaults \in Nat

VARIABLES
    row,        \* mikrotik_devices: the identity and the status
    allowed,    \* ip_allowlist
    keys,       \* identities issued so far
    shown,      \* the table of the page
    failed,     \* an error stands in its place
    panel,      \* the setup panel: the device it is open for, what it shows
    ask,        \* the device whose row asks "This will disconnect it."
    ips,        \* the panel of allowed addresses
    request,    \* requests under way
    mixed,      \* history variable: panels that something earlier may still write to
    told,       \* history variable: devices the admin was warned about
    clicks, changes, faults

server == <<row, allowed, keys>>
page == <<shown, failed, panel, ask, ips>>
history == <<mixed, told>>
bounds == <<clicks, changes, faults>>
vars == <<server, page, request, history, bounds>>

Statuses == {"none", "pending", "linked", "offline", "deleted"}
None == [dev |-> NoDevice, key |-> 0]
Absent == [key |-> 0, status |-> "none"]
Fresh == [key |-> 0, status |-> "pending"]
Free == [kind |-> "none", pc |-> "free", dev |-> NoDevice, sure |-> FALSE, says |-> None]
Asked(kind, d, sure) == [kind |-> kind, pc |-> "sent", dev |-> d, sure |-> sure, says |-> None]

Init ==
    /\ row = [d \in Devices |-> IF d \in Existing THEN Fresh ELSE Absent]
    /\ allowed = {} /\ keys = 0
    /\ shown = [d \in Devices |-> Absent] /\ failed = FALSE
    /\ panel = [open |-> NoDevice, script |-> None, bootstrap |-> NoDevice,
                full |-> FALSE, loading |-> FALSE, writing |-> NoDevice, copied |-> NoDevice]
    /\ ask = NoDevice
    /\ ips = [open |-> NoDevice, entries |-> {}]
    /\ request = [q \in Requests |-> IF q = CHOOSE p \in Requests : TRUE
                                     THEN Asked("load", NoDevice, FALSE) ELSE Free]
    /\ mixed = {} /\ told = {}
    /\ clicks = 0 /\ changes = 0 /\ faults = 0

Exists(d) == row[d].status \notin {"none", "deleted"}
Fault == faults < MaxFaults /\ faults' = faults + 1
Click == clicks < MaxClicks /\ clicks' = clicks + 1 /\ UNCHANGED <<changes, faults>>
Change == changes < MaxChanges /\ changes' = changes + 1 /\ UNCHANGED <<clicks, faults>>

-----------------------------------------------------------------------------
(* Around the page. *)

Around(d) ==
    /\ Change
    /\ \/ /\ row[d].key # 0                                  \* a heartbeat
          /\ row' = [row EXCEPT ![d].status = "linked"]
          /\ UNCHANGED <<keys, allowed>>
       \/ /\ row[d].status = "linked"                        \* the sweep
          /\ row' = [row EXCEPT ![d].status = "offline"]
          /\ UNCHANGED <<keys, allowed>>
       \/ /\ Exists(d) /\ keys < MaxKeys                     \* another admin
          /\ row' = [row EXCEPT ![d] = [key |-> keys + 1, status |-> "pending"]]
          /\ keys' = keys + 1 /\ UNCHANGED allowed
       \/ /\ Exists(d)
          /\ row' = [row EXCEPT ![d] = [key |-> 0, status |-> "deleted"]]
          /\ allowed' = allowed \ {d} /\ UNCHANGED keys
    /\ UNCHANGED <<page, request, history>>

-----------------------------------------------------------------------------
(* What the admin can click. *)

Sends(q, kind, d, sure) ==
    /\ request[q] = Free
    /\ request' = [request EXCEPT ![q] = Asked(kind, d, sure)]

InTable(d) == ~failed /\ shown[d].status # "none"
Offered(d) == InTable(d) /\ ask # d
HasScript(d) == shown[d].key # 0

(* Requests whose answer is written into the setup panel, or the other one. *)
Setup == {"script", "fetch"}
Listing == {"ips", "add", "remove"}
Late(kinds) == \E q \in Requests : request[q].kind \in kinds
Opens(which, late) == mixed' = IF late THEN mixed \cup {which} ELSE mixed \ {which}

(* The setup panel opens for d while something of another call is to come.  *)
OpensSetup(d) == Opens("setup", Late(Setup) \/ panel.writing \notin {NoDevice, d})

(* Get setup script, Regenerate credentials, and Regenerate anyway.  What   *)
(* the panel showed stays, behind "Generating", until there is an answer.   *)
Generate(q, d, sure) ==
    /\ Click /\ InTable(d) /\ sure = (ask = d)
    /\ panel' = [panel EXCEPT !.open = d, !.loading = TRUE]
    /\ ask' = NoDevice
    /\ Sends(q, "script", d, sure)
    /\ OpensSetup(d)
    /\ UNCHANGED <<server, shown, failed, ips, told>>

\* Mutant: the script of the device before is kept.
ViewedKeeps(d) == [panel EXCEPT !.open = d, !.full = FALSE,
                                !.bootstrap = d, !.copied = NoDevice]
Viewed(d) == [panel EXCEPT !.open = d, !.full = FALSE, !.script = None,
                           !.bootstrap = d, !.copied = NoDevice]

(* View setup script: the one-liner is rendered by the page.                *)
ShowBootstrap(d) ==
    /\ Click /\ Offered(d) /\ HasScript(d)
    /\ panel' = Viewed(d)
    /\ OpensSetup(d)
    /\ UNCHANGED <<server, shown, failed, ask, ips, request, told>>

ClosePanel ==
    /\ Click /\ panel.open # NoDevice
    /\ panel' = [panel EXCEPT !.open = NoDevice]
    /\ UNCHANGED <<server, shown, failed, ask, ips, request, history>>

Readable == panel.open # NoDevice /\ ~panel.loading

(* Copying hands the one-liner to the clipboard, one write at a time.       *)
CopyBootstrap ==
    /\ Click /\ Readable /\ panel.writing = NoDevice
    /\ panel' = [panel EXCEPT !.writing = panel.bootstrap]
    /\ UNCHANGED <<server, shown, failed, ask, ips, request, history>>

(* Once it is written the page waits for the router to check in, whatever   *)
(* device the panel is open for by then.                                    *)
Copied ==
    /\ panel.writing # NoDevice
    /\ panel' = [panel EXCEPT !.copied = panel.writing, !.writing = NoDevice]
    /\ UNCHANGED <<server, shown, failed, ask, ips, request, history, bounds>>

ToggleFullScript(q) ==
    /\ Click /\ Readable
    /\ IF ~panel.full /\ panel.script = None /\ shown[panel.open] # Absent
       THEN /\ Sends(q, "fetch", panel.open, FALSE)
            /\ panel' = [panel EXCEPT !.full = TRUE, !.loading = TRUE]
       ELSE /\ panel' = [panel EXCEPT !.full = ~@]
            /\ UNCHANGED request
    /\ UNCHANGED <<server, shown, failed, ask, ips, history>>

CancelRegenerate ==
    /\ Click /\ ask # NoDevice
    /\ ask' = NoDevice
    /\ UNCHANGED <<server, shown, failed, panel, ips, request, history>>

(* Delete and Delete anyway.                                                *)
DeleteDevice(q, d) ==
    /\ Click /\ InTable(d)
    /\ Sends(q, "delete", d, FALSE)
    /\ UNCHANGED <<server, page, history>>

CreateDevice(q, d) ==
    /\ Click /\ row[d] = Absent
    /\ Sends(q, "create", d, FALSE)
    /\ UNCHANGED <<server, page, history>>

(* The entries of the device before stay until there is an answer.          *)
OpenIpList(q, d) ==
    /\ Click /\ Offered(d) /\ HasScript(d)
    /\ ips' = [ips EXCEPT !.open = d]
    /\ Sends(q, "ips", d, FALSE)
    /\ Opens("ips", Late(Listing))
    /\ UNCHANGED <<server, shown, failed, panel, ask, told>>

CloseIpList ==
    /\ Click /\ ips.open # NoDevice
    /\ ips' = [ips EXCEPT !.open = NoDevice]
    /\ UNCHANGED <<server, shown, failed, panel, ask, request, history>>

AddIp(q) ==
    /\ Click /\ ips.open # NoDevice /\ \A p \in Requests : request[p].kind # "add"
    /\ Sends(q, "add", ips.open, FALSE)
    /\ UNCHANGED <<server, page, history>>

(* An entry goes by its id, the list is loaded again for the open device.   *)
RemoveIp(q, e) ==
    /\ Click /\ ips.open # NoDevice /\ e \in ips.entries
    /\ request[q] = Free
    /\ request' = [request EXCEPT ![q] = [kind |-> "remove", pc |-> "sent", sure |-> FALSE,
                      dev |-> ips.open, says |-> [dev |-> e, key |-> 0]]]
    /\ UNCHANGED <<server, page, history>>

Retry(q) ==
    /\ Click /\ failed /\ failed' = FALSE
    /\ Sends(q, "load", NoDevice, FALSE)
    /\ UNCHANGED <<server, shown, panel, ask, ips, history>>

Clicks ==
    \/ \E q \in Requests, d \in Devices :
           \/ \E sure \in BOOLEAN : Generate(q, d, sure)
           \/ DeleteDevice(q, d) \/ CreateDevice(q, d) \/ OpenIpList(q, d) \/ RemoveIp(q, d)
    \/ \E d \in Devices : ShowBootstrap(d)
    \/ \E q \in Requests : ToggleFullScript(q) \/ AddIp(q) \/ Retry(q)
    \/ ClosePanel \/ CopyBootstrap \/ CancelRegenerate \/ CloseIpList

\* Mutant: only a pending device is waited for.
PollsPending == /\ panel.copied # NoDevice /\ panel.open # NoDevice
                /\ shown[panel.open].status = "pending"

(* After a copy the page polls until the open device is shown linked.       *)
Polls == /\ panel.copied # NoDevice /\ panel.open # NoDevice
         /\ shown[panel.open].status # "linked"

Poll(q) ==
    /\ Polls /\ Sends(q, "load", NoDevice, FALSE)
    /\ failed' = FALSE
    /\ UNCHANGED <<server, shown, panel, ask, ips, history, bounds>>

-----------------------------------------------------------------------------
(* The database and the functions. *)

(* What the page reads of a row; a deleted one is not in the answer.        *)
Table == [d \in Devices |-> IF Exists(d) THEN row[d] ELSE Absent]

Answers(q, pc, says) == request' = [request EXCEPT ![q].pc = pc, ![q].says = says]

Handles(q, kind) == request[q].kind = kind /\ request[q].pc = "sent"
Dev(q) == request[q].dev

AnswerLoad(q) ==
    /\ Handles(q, "load") /\ Answers(q, "ok", Table)
    /\ UNCHANGED <<server, page, history, bounds>>

\* Mutant: nobody is asked before a linked router is cut off.
MustConfirmNever(q) == FALSE
MustConfirm(q) == row[Dev(q)].status = "linked" /\ ~request[q].sure

(* provisioning-script reads the row first; a linked device wants a         *)
(* confirmation (409).                                                      *)
CheckScript(q) ==
    /\ Handles(q, "script")
    /\ IF ~Exists(Dev(q)) THEN Answers(q, "error", None)
       ELSE IF MustConfirm(q) THEN Answers(q, "409", None)
       ELSE Answers(q, "checked", row[Dev(q)])
    /\ UNCHANGED <<server, page, history, bounds>>

(* ... and stores a new identity later, if the row is still there.  An      *)
(* error of the update is not looked at: the script is answered all the same.*)
StoreIdentity(q) ==
    LET d == Dev(q)
        key == keys + 1
    IN  /\ request[q].pc = "checked" /\ key <= MaxKeys
        /\ keys' = key
        /\ \/ /\ row' = IF Exists(d)
                         THEN [row EXCEPT ![d] = [key |-> key, status |-> "pending"]]
                         ELSE row
              /\ UNCHANGED faults
           \/ Fault /\ UNCHANGED row
        /\ Answers(q, "ok", [dev |-> d, key |-> key])
        /\ UNCHANGED <<allowed, page, history, clicks, changes>>

(* provisioning-fetch; an error's text is shown like a script.              *)
AnswerFetch(q) ==
    /\ Handles(q, "fetch")
    /\ Answers(q, "ok", [dev |-> Dev(q), key |-> IF Exists(Dev(q)) THEN row[Dev(q)].key ELSE 0])
    /\ UNCHANGED <<server, page, history, bounds>>

AnswerIps(q) ==
    /\ Handles(q, "ips") /\ Answers(q, "ok", allowed \cap {Dev(q)})
    /\ UNCHANGED <<server, page, history, bounds>>

(* One row per device and address, and a device for each.                   *)
InsertIp(q) ==
    /\ Handles(q, "add")
    /\ IF Exists(Dev(q)) /\ Dev(q) \notin allowed
       THEN Answers(q, "ok", None) /\ allowed' = allowed \cup {Dev(q)}
       ELSE Answers(q, "error", None) /\ UNCHANGED allowed
    /\ UNCHANGED <<row, keys, page, history, bounds>>

DeleteIp(q) ==
    /\ Handles(q, "remove") /\ Answers(q, "ok", None)
    /\ allowed' = allowed \ {request[q].says.dev}
    /\ UNCHANGED <<row, keys, page, history, bounds>>

(* The list goes with the device.                                           *)
DeleteRow(q) ==
    LET d == Dev(q) IN
    /\ Handles(q, "delete") /\ Answers(q, "ok", None)
    /\ row' = IF Exists(d) THEN [row EXCEPT ![d] = [key |-> 0, status |-> "deleted"]] ELSE row
    /\ allowed' = allowed \ {d}
    /\ UNCHANGED <<keys, page, history, bounds>>

InsertRow(q) ==
    /\ Handles(q, "create") /\ Answers(q, "ok", None)
    /\ row' = [row EXCEPT ![Dev(q)] = IF @ = Absent THEN Fresh ELSE @]
    /\ UNCHANGED <<keys, allowed, page, history, bounds>>

(* A request of any kind may fail, before it had any effect, or after it,   *)
(* when its answer is lost.                                                 *)
RequestFails(q) ==
    /\ request[q].pc \notin {"free", "error"} /\ Fault
    /\ Answers(q, "error", None)
    /\ UNCHANGED <<server, page, history, clicks, changes>>

Serve(q) ==
    \/ AnswerLoad(q) \/ CheckScript(q) \/ StoreIdentity(q) \/ AnswerFetch(q) \/ AnswerIps(q)
    \/ InsertIp(q) \/ DeleteIp(q) \/ DeleteRow(q) \/ InsertRow(q) \/ RequestFails(q)

-----------------------------------------------------------------------------
(* Answers arrive. *)

Arrives(q, kind) == request[q].kind = kind
Good(q) == request[q].pc = "ok"
Bad(q) == request[q].pc = "error"
Says(q) == request[q].says
Done(q) == request' = [request EXCEPT ![q] = Free]

(* The handler goes on to load the table, or the list of its own device.    *)
Reloads(q) == /\ request' = [request EXCEPT ![q] = Asked("load", NoDevice, FALSE)]
              /\ failed' = FALSE
ReloadsIps(q) == request' = [request EXCEPT ![q] = Asked("ips", Dev(q), FALSE)]

Loaded(q) ==
    /\ Arrives(q, "load") /\ Done(q)
    /\ \/ Good(q) /\ shown' = Says(q) /\ UNCHANGED failed
       \/ Bad(q) /\ failed' = TRUE /\ UNCHANGED shown
    /\ UNCHANGED <<server, panel, ask, ips, history, bounds>>

Generated(q) ==
    /\ Arrives(q, "script") /\ Good(q) /\ Reloads(q)
    /\ panel' = [panel EXCEPT !.loading = FALSE, !.script = Says(q), !.bootstrap = Dev(q),
                              !.full = FALSE, !.copied = NoDevice]
    /\ UNCHANGED <<server, shown, ask, ips, history, bounds>>

(* A 409 closes the panel, whichever device it is open for by now.          *)
AsksFirst(q) ==
    /\ Arrives(q, "script") /\ request[q].pc = "409" /\ Done(q)
    /\ panel' = [panel EXCEPT !.loading = FALSE, !.open = NoDevice]
    /\ ask' = Dev(q) /\ told' = told \cup {Dev(q)}
    /\ UNCHANGED <<server, shown, failed, ips, mixed, bounds>>

(* Any other error leaves the panel open, with what it held before.         *)
GenerateFailed(q) ==
    /\ Arrives(q, "script") /\ Bad(q) /\ Done(q)
    /\ panel' = [panel EXCEPT !.loading = FALSE]
    /\ mixed' = mixed \cup {"setup"}
    /\ UNCHANGED <<server, shown, failed, ask, ips, told, bounds>>

FullScriptLoaded(q) ==
    /\ Arrives(q, "fetch") /\ (Good(q) \/ Bad(q)) /\ Done(q)
    /\ panel' = [panel EXCEPT !.loading = FALSE, !.script = IF Good(q) THEN Says(q) ELSE @]
    /\ UNCHANGED <<server, shown, failed, ask, ips, history, bounds>>

IpsLoaded(q) ==
    /\ Arrives(q, "ips") /\ (Good(q) \/ Bad(q)) /\ Done(q)
    /\ ips' = [ips EXCEPT !.entries = IF Good(q) THEN Says(q) ELSE {}]
    /\ UNCHANGED <<server, shown, failed, panel, ask, history, bounds>>

IpsChanged(q) ==
    /\ \/ Arrives(q, "add") /\ Good(q) /\ ReloadsIps(q)
       \/ Arrives(q, "add") /\ Bad(q) /\ Done(q)
       \/ Arrives(q, "remove") /\ (Good(q) \/ Bad(q)) /\ ReloadsIps(q)
    /\ UNCHANGED <<server, page, history, bounds>>

Created(q) ==
    /\ Arrives(q, "create")
    /\ \/ Good(q) /\ Reloads(q)
       \/ Bad(q) /\ Done(q) /\ UNCHANGED failed
    /\ UNCHANGED <<server, shown, panel, ask, ips, history, bounds>>

Deleted(q) ==
    /\ Arrives(q, "delete")
    /\ \/ Good(q) /\ Reloads(q)
       \/ Bad(q) /\ Done(q) /\ failed' = TRUE
    /\ UNCHANGED <<server, shown, panel, ask, ips, history, bounds>>

Deliver(q) ==
    \/ Loaded(q) \/ Generated(q) \/ AsksFirst(q) \/ GenerateFailed(q) \/ FullScriptLoaded(q)
    \/ IpsLoaded(q) \/ IpsChanged(q) \/ Created(q) \/ Deleted(q)

-----------------------------------------------------------------------------
Next ==
    \/ \E d \in Devices : Around(d)
    \/ Clicks \/ Copied
    \/ \E q \in Requests : Poll(q) \/ Serve(q) \/ Deliver(q)

Spec == Init /\ [][Next]_vars

(* Requests are answered or fail, answers are applied, the poll's timer     *)
(* fires again and again.                                                   *)
FairSpec ==
    /\ Spec
    /\ \A q \in Requests : WF_vars(Serve(q)) /\ WF_vars(Deliver(q))
    /\ SF_vars(\E q \in Requests : Poll(q))

-----------------------------------------------------------------------------
(* Properties. *)

(* What a panel shows, and lets the admin copy or remove, is of the device  *)
(* it is open for.  Two things break it, and each is remembered until the   *)
(* panel is opened anew: it was opened while an earlier answer, or a write  *)
(* to the clipboard, was still to come, or an identity could not be         *)
(* generated (scriptFor and ipListFor, which no answer is compared with).   *)
PanelsAreOfOneDevice ==
    /\ Readable /\ "setup" \notin mixed =>
           /\ panel.bootstrap = panel.open
           /\ panel.script.dev \in {NoDevice, panel.open}
           /\ panel.copied \in {NoDevice, panel.open}
    /\ ips.open # NoDevice /\ "ips" \notin mixed
       /\ (\A q \in Requests : request[q].kind # "ips") => ips.entries \subseteq {ips.open}

(* The page never cuts a linked router off by a new identity unless it has  *)
(* warned of that device and the admin confirmed, or the router checked in  *)
(* after the call had looked (provisioning-script's 409 and the dialog).    *)
CutOffStep(q) ==
    LET d == Dev(q) IN
    request[q].pc = "checked" /\ row[d].status = "linked" /\ row'[d].status = "pending"
        /\ request'[q].pc = "ok" =>
            (request[q].sure /\ d \in told) \/ request[q].says.status # "linked"
CutOffIsAnnounced == [][\A q \in Requests : CutOffStep(q)]_vars

(* Once a bootstrap was copied and the panel is left open, a router that    *)
(* checks in and stays linked is shown as linked in the end, and stays so,  *)
(* also if polls fail or an older answer arrives last (the effect on        *)
(* waitingSince).                                                           *)
LinkIsNoticed ==
    \A d \in Devices :
        <>[](panel.open = d /\ panel.copied # NoDevice) /\ <>[](row[d].status = "linked") =>
            <>[](shown[d].status = "linked")
=============================================================================
