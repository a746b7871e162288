-------------------------- MODULE DevicePageProofs --------------------------
(* Theorems about DevicePage, for every value of its constants. *)
EXTENDS DevicePage, TLAPS

Rows == [key : Nat, status : Statuses]
Idents == [dev : Devices \cup {NoDevice}, key : Nat]
Panels == [open : Devices \cup {NoDevice}, script : Idents, bootstrap : Devices \cup {NoDevice},
           full : BOOLEAN, loading : BOOLEAN, writing : Devices \cup {NoDevice},
           copied : Devices \cup {NoDevice}]
Lists == [open : Devices \cup {NoDevice}, entries : SUBSET Devices]
Kinds == {"none", "load", "script", "fetch", "delete", "create", "ips", "add", "remove"}
Pcs == {"free", "sent", "checked", "409", "ok", "error"}

(* What the answer to a request carries depends on what was asked.          *)
WellFormed(r) ==
    /\ r = [kind |-> r.kind, pc |-> r.pc, dev |-> r.dev, sure |-> r.sure, says |-> r.says]
    /\ r.kind \in Kinds /\ r.pc \in Pcs /\ r.sure \in BOOLEAN
    /\ r.dev \in Devices \cup {NoDevice}
    /\ r.kind \notin {"none", "load"} => r.dev \in Devices
    /\ r.kind = "load" /\ r.pc = "ok" => r.says \in [Devices -> Rows]
    /\ r.kind \in Setup /\ r.pc = "ok" => r.says \in Idents /\ r.says.dev = r.dev
    /\ r.kind = "ips" /\ r.pc = "ok" => r.says \subseteq {r.dev}
    /\ r.kind = "remove" /\ r.pc = "sent" => r.says \in Idents
    /\ r.pc = "checked" => r.kind = "script" /\ r.says \in Rows

DevicePageTypeOK ==
    /\ row \in [Devices -> Rows] /\ allowed \subseteq Devices /\ keys \in Nat
    /\ shown \in [Devices -> Rows] /\ failed \in BOOLEAN
    /\ panel \in Panels /\ ask \in Devices \cup {NoDevice} /\ ips \in Lists
    /\ request = [q \in Requests |-> request[q]]
    /\ \A q \in Requests : WellFormed(request[q])
    /\ mixed \subseteq {"setup", "ips"} /\ told \subseteq Devices
    /\ clicks \in Nat /\ changes \in Nat /\ faults \in Nat

(* A confirmation follows a warning, and a call that found the router       *)
(* linked goes on only with one.                                            *)
Warned ==
    /\ ask # NoDevice => ask \in told
    /\ \A q \in Requests :
          /\ request[q].sure => request[q].dev \in told
          /\ request[q].pc = "checked" /\ request[q].says.status = "linked" => request[q].sure

Consistent ==
    /\ panel.bootstrap = panel.open
    /\ panel.script.dev \in {NoDevice, panel.open}
    /\ panel.copied \in {NoDevice, panel.open}

(* "Generating" is shown only while an answer is to come.  As long as the   *)
(* setup panel is not mixed up that is the answer to its only request,      *)
(* which is for the device it is open for, what the panel holds is of that  *)
(* device unless a new identity will replace it, and so is what is being    *)
(* copied.                                                                  *)
SetupInv ==
    /\ panel.loading => Late(Setup)
    /\ "setup" \notin mixed =>
          /\ \A p, q \in Requests :
                request[p].kind \in Setup /\ request[q].kind \in Setup => p = q
          /\ \A q \in Requests : request[q].kind \in Setup =>
                panel.loading /\ panel.open \in {NoDevice, request[q].dev}
          /\ panel.open # NoDevice => panel.writing \in {NoDevice, panel.open}
          /\ panel.open # NoDevice /\ (\A q \in Requests : request[q].kind # "script") =>
                Consistent

(* Of the panel of addresses there may be many requests, all for the device *)
(* it is open for.                                                          *)
ListInv ==
    "ips" \notin mixed /\ ips.open # NoDevice =>
        /\ \A q \in Requests : request[q].kind \in Listing => request[q].dev = ips.open
        /\ (\A q \in Requests : request[q].kind # "ips") => ips.entries \subseteq {ips.open}

DevicePageInv == DevicePageTypeOK /\ Warned /\ SetupInv /\ ListInv

-----------------------------------------------------------------------------
(* A step replaces one request at most.                                     *)
Swap(q, r) == request' = [request EXCEPT ![q] = r]

LEMMA Swapped ==
  ASSUME DevicePageTypeOK, NEW q \in Requests, NEW r, Swap(q, r)
  PROVE  /\ request' = [p \in Requests |-> request'[p]]
         /\ request'[q] = r
         /\ \A p \in Requests : p # q => request'[p] = request[p]
  BY DEF DevicePageTypeOK, Swap

LEMMA SwapWellFormed ==
  ASSUME DevicePageTypeOK, NEW q \in Requests, NEW r, Swap(q, r), WellFormed(r)
  PROVE  /\ request' = [p \in Requests |-> request'[p]]
         /\ \A p \in Requests : WellFormed(request'[p])
  <1>1. /\ request' = [p \in Requests |-> request'[p]]
        /\ request'[q] = r
        /\ \A p \in Requests : p # q => request'[p] = request[p]
    BY Swapped
  <1>2. \A p \in Requests : WellFormed(request[p])
    BY DEF DevicePageTypeOK
  <1> QED
    BY <1>1, <1>2, Zenon

(* A request when it is sent, and a slot without one.                       *)
LEMMA SentWellFormed ==
  ASSUME NEW k \in Kinds \ {"none"}, NEW d \in Devices \cup {NoDevice}, NEW sure \in BOOLEAN,
         k # "load" => d \in Devices
  PROVE  WellFormed(Asked(k, d, sure))
  BY DEF WellFormed, Asked, Kinds, Pcs, Setup, None, Idents

LEMMA FreeWellFormed == WellFormed(Free)
  <1>1. \A b \in BOOLEAN :
           WellFormed([kind |-> "none", pc |-> "free", dev |-> NoDevice, sure |-> b, says |-> None])
    BY DEF WellFormed, Kinds, Pcs, Setup, None, Idents
  <1> QED
    BY <1>1, Zenon DEF Free

LEMMA FieldsOf ==
  /\ Free.kind = "none" /\ Free.pc = "free" /\ ~Free.sure /\ Free.dev = NoDevice
  /\ \A k, d, sure : /\ Asked(k, d, sure).kind = k /\ Asked(k, d, sure).pc = "sent"
                     /\ Asked(k, d, sure).dev = d /\ Asked(k, d, sure).sure = sure
  /\ \A k, d : ~Asked(k, d, FALSE).sure
  <1>1. ~Free.sure /\ \A k, d : ~Asked(k, d, FALSE).sure
    BY Zenon DEF Free, Asked
  <1> QED
    BY <1>1 DEF Free, Asked

(* Replacing a request by one that is of no panel, or by a later state of   *)
(* itself, says nothing new about the panels.                               *)
LEMMA SetupAlike ==
  ASSUME DevicePageTypeOK, SetupInv, NEW q \in Requests, NEW r, Swap(q, r),
         panel' = panel, "setup" \in mixed' <=> "setup" \in mixed,
         \/ r.kind = request[q].kind /\ r.dev = request[q].dev
         \/ r.kind \notin Setup /\ request[q].kind \notin Setup
  PROVE  SetupInv'
  <1>1. /\ request'[q] = r
        /\ \A p \in Requests : p # q => request'[p] = request[p]
    BY Swapped
  <1>2. \A p \in Requests :
           /\ request'[p].kind \in Setup <=> request[p].kind \in Setup
           /\ request'[p].kind = "script" <=> request[p].kind = "script"
           /\ request[p].kind \in Setup => request'[p].dev = request[p].dev
    BY <1>1 DEF Setup
  <1> QED
    BY <1>2 DEF SetupInv, Late, Consistent

LEMMA ListAlike ==
  ASSUME DevicePageTypeOK, ListInv, NEW q \in Requests, NEW r, Swap(q, r),
         ips' = ips, "ips" \in mixed' <=> "ips" \in mixed,
         \/ r.kind = request[q].kind /\ r.dev = request[q].dev
         \/ r.kind \notin Listing /\ request[q].kind \notin Listing
  PROVE  ListInv'
  <1>1. /\ request'[q] = r
        /\ \A p \in Requests : p # q => request'[p] = request[p]
    BY Swapped
  <1>2. \A p \in Requests :
           /\ request'[p].kind \in Listing <=> request[p].kind \in Listing
           /\ request'[p].kind = "ips" <=> request[p].kind = "ips"
           /\ request[p].kind \in Listing => request'[p].dev = request[p].dev
    BY <1>1 DEF Listing
  <1> QED
    BY <1>2 DEF ListInv

(* Warnings are not taken back.                                             *)
LEMMA WarnedAlike ==
  ASSUME DevicePageTypeOK, Warned, NEW q \in Requests, NEW r, Swap(q, r),
         told \subseteq told', ask' # NoDevice => ask' \in told',
         r.sure => r.dev \in told',
         r.pc = "checked" /\ r.says.status = "linked" => r.sure
  PROVE  Warned'
  <1>1. /\ request'[q] = r
        /\ \A p \in Requests : p # q => request'[p] = request[p]
    BY Swapped
  <1> QED
    BY <1>1 DEF Warned

(* Nothing of the page or its requests changes.                             *)
LEMMA PageAlike ==
  ASSUME Warned, SetupInv, ListInv, UNCHANGED <<panel, ask, ips, request, mixed, told>>
  PROVE  Warned' /\ SetupInv' /\ ListInv'
  BY DEF Warned, SetupInv, ListInv, Late, Consistent

-----------------------------------------------------------------------------
LEMMA DevicePageInit == Init => DevicePageInv
  <1> SUFFICES ASSUME Init PROVE DevicePageInv
    OBVIOUS
  <1> USE DevicePageAssumption
  <1> DEFINE load == Asked("load", NoDevice, FALSE)
  <1>1. WellFormed(load)
    BY SentWellFormed DEF Kinds
  <1> HIDE DEF load
  <1>2. request = [q \in Requests |-> request[q]]
           /\ \A q \in Requests : request[q] \in {Free, load}
    BY DEF Init, load
  <1>3. \A q \in Requests : WellFormed(request[q]) /\ request[q].kind \in {"none", "load"}
           /\ ~request[q].sure /\ request[q].pc # "checked"
    <2>1. \A r \in {Free, load} : /\ WellFormed(r) /\ r.kind \in {"none", "load"}
                                  /\ ~r.sure /\ r.pc # "checked"
      <3>1. ~Free.sure /\ ~load.sure
        BY FieldsOf DEF load
      <3>2. /\ Free.kind \in {"none", "load"} /\ Free.pc # "checked"
            /\ load.kind \in {"none", "load"} /\ load.pc # "checked"
        <4>1. Free.kind = "none" /\ Free.pc = "free" /\ load.kind = "load" /\ load.pc = "sent"
          BY Zenon DEF load, Free, Asked
        <4> QED
          BY <4>1
      <3> QED
        BY <1>1, <3>1, <3>2, FreeWellFormed, Zenon
    <2> QED
      BY <1>2, <2>1, Zenon
  <1>4. Fresh \in Rows /\ Absent \in Rows /\ None \in Idents
    BY DEF Fresh, Absent, None, Rows, Statuses, Idents
  <1>5. row \in [Devices -> Rows] /\ shown \in [Devices -> Rows]
    BY <1>4 DEF Init
  <1>6. panel \in Panels /\ ips \in Lists
    BY <1>4 DEF Init, Panels, Lists
  <1>7. DevicePageTypeOK
    BY <1>2, <1>3, <1>5, <1>6 DEF Init, DevicePageTypeOK
  <1>8. Warned
    BY <1>3 DEF Init, Warned
  <1>9. SetupInv /\ ListInv
    BY <1>3 DEF Init, SetupInv, ListInv, Setup, Listing, Late
  <1> QED
    BY <1>7, <1>8, <1>9 DEF DevicePageInv

(* Around the page, nothing the page holds changes.                         *)
LEMMA AroundInv ==
  ASSUME DevicePageInv, NEW d \in Devices, Around(d)
  PROVE  DevicePageInv'
  <1> USE DevicePageAssumption
  <1>1. DevicePageTypeOK'
    <2>1. row' \in [Devices -> Rows] /\ allowed' \subseteq Devices /\ keys' \in Nat
      <3>1. row \in [Devices -> Rows] /\ allowed \subseteq Devices /\ keys \in Nat
        BY DEF DevicePageInv, DevicePageTypeOK
      <3>2. /\ \/ row' = [row EXCEPT ![d].status = "linked"]
               \/ row' = [row EXCEPT ![d].status = "offline"]
               \/ row' = [row EXCEPT ![d] = [key |-> keys + 1, status |-> "pending"]]
               \/ row' = [row EXCEPT ![d] = [key |-> 0, status |-> "deleted"]]
            /\ allowed' = allowed \/ allowed' = allowed \ {d}
            /\ keys' = keys \/ keys' = keys + 1
        BY DEF Around
      <3>3. row' \in [Devices -> Rows]
        BY <3>1, <3>2 DEF Rows, Statuses
      <3> QED
        BY <3>1, <3>2, <3>3
    <2>2. UNCHANGED <<page, request, history, clicks, faults>> /\ changes' = changes + 1
      BY DEF Around, Change
    <2>3. changes \in Nat
      BY DEF DevicePageInv, DevicePageTypeOK
    <2> QED
      BY <2>1, <2>2, <2>3 DEF DevicePageInv, DevicePageTypeOK, page, history
  <1>2. UNCHANGED <<panel, ask, ips, request, mixed, told>>
    BY DEF Around, page, history
  <1> QED
    BY <1>1, <1>2, PageAlike DEF DevicePageInv

(* An answer leaves what was asked as it was.                               *)
Answered(q, pc, says) ==
    [kind |-> request[q].kind, pc |-> pc, dev |-> request[q].dev, sure |-> request[q].sure,
     says |-> says]

LEMMA AnswersSwap ==
  ASSUME DevicePageTypeOK, NEW q \in Requests, NEW pc, NEW says, Answers(q, pc, says)
  PROVE  /\ Swap(q, Answered(q, pc, says))
         /\ Answered(q, pc, says).kind = request[q].kind
         /\ Answered(q, pc, says).pc = pc
         /\ Answered(q, pc, says).dev = request[q].dev
         /\ Answered(q, pc, says).sure = request[q].sure
         /\ Answered(q, pc, says).says = says
  <1>1. PICK r : r = request[q]
    OBVIOUS
  <1>2. /\ r = [kind |-> r.kind, pc |-> r.pc, dev |-> r.dev, sure |-> r.sure, says |-> r.says]
        /\ request = [p \in Requests |-> request[p]]
    BY <1>1 DEF DevicePageTypeOK, WellFormed
  <1>3. PICK k, p, d, b, n :
           r = [kind |-> k, pc |-> p, dev |-> d, sure |-> b, says |-> n]
    BY <1>2
  <1>4. [r EXCEPT !.pc = pc, !.says = says] =
            [kind |-> r.kind, pc |-> pc, dev |-> r.dev, sure |-> r.sure, says |-> says]
    <2>1. [r EXCEPT !.pc = pc] = [kind |-> k, pc |-> pc, dev |-> d, sure |-> b, says |-> n]
      BY <1>3
    <2>2. [[kind |-> k, pc |-> pc, dev |-> d, sure |-> b, says |-> n] EXCEPT !.says = says]
             = [kind |-> k, pc |-> pc, dev |-> d, sure |-> b, says |-> says]
      OBVIOUS
    <2>3. r.kind = k /\ r.dev = d /\ r.sure = b
      BY <1>3
    <2> QED
      BY <2>1, <2>2, <2>3
  <1>5. request' = [request EXCEPT ![q] = [r EXCEPT !.pc = pc, !.says = says]]
    BY <1>1, <1>2 DEF Answers
  <1> QED
    BY <1>1, <1>4, <1>5 DEF Swap, Answered

(* What is left to show of an answer: that it is well formed and, if the    *)
(* function goes on, that a linked router was confirmed.                    *)
LEMMA ServeInv ==
  ASSUME DevicePageInv, NEW q \in Requests, NEW pc, NEW says, Answers(q, pc, says),
         WellFormed(Answered(q, pc, says)),
         pc = "checked" /\ says.status = "linked" => request[q].sure,
         row' \in [Devices -> Rows], allowed' \subseteq Devices, keys' \in Nat,
         UNCHANGED <<page, history, clicks, changes>>, faults' \in Nat
  PROVE  DevicePageInv'
  <1> DEFINE r == Answered(q, pc, says)
  <1>1. /\ Swap(q, r) /\ r.kind = request[q].kind /\ r.dev = request[q].dev
        /\ r.sure = request[q].sure /\ r.pc = pc /\ r.says = says /\ WellFormed(r)
    BY AnswersSwap DEF DevicePageInv
  <1> HIDE DEF r
  <1>2. DevicePageTypeOK'
    BY <1>1, SwapWellFormed DEF DevicePageInv, DevicePageTypeOK, page, history
  <1>3. UNCHANGED <<panel, ask, ips, mixed, told>>
    BY DEF page, history
  <1>4. Warned'
    BY <1>1, <1>3, WarnedAlike DEF DevicePageInv, Warned
  <1>5. SetupInv' /\ ListInv'
    BY <1>1, <1>3, SetupAlike, ListAlike DEF DevicePageInv
  <1> QED
    BY <1>2, <1>4, <1>5 DEF DevicePageInv

LEMMA AnswersInv ==
  ASSUME DevicePageInv, NEW q \in Requests, Serve(q)
  PROVE  DevicePageInv'
  <1> USE DevicePageAssumption
  <1> DEFINE kind == request[q].kind
             d == request[q].dev
  <1>1. /\ row \in [Devices -> Rows] /\ allowed \subseteq Devices /\ keys \in Nat
        /\ changes \in Nat /\ faults \in Nat /\ WellFormed(request[q])
    BY DEF DevicePageInv, DevicePageTypeOK
  <1>2. /\ kind \in Kinds /\ d \in Devices \cup {NoDevice} /\ request[q].sure \in BOOLEAN
        /\ kind \notin {"none", "load"} => d \in Devices
    BY <1>1 DEF WellFormed
  <1>3. None \in Idents /\ None.dev = NoDevice
    BY DEF None, Idents
  (* An answer of a kind, given before it is known to be well formed.       *)
  <1>4. ASSUME NEW pc \in Pcs, NEW says,
               kind = "load" /\ pc = "ok" => says \in [Devices -> Rows],
               kind \in Setup /\ pc = "ok" => says \in Idents /\ says.dev = d,
               kind = "ips" /\ pc = "ok" => says \subseteq {d},
               kind = "remove" /\ pc = "sent" => says \in Idents,
               pc = "checked" => kind = "script" /\ says \in Rows
        PROVE  WellFormed(Answered(q, pc, says))
    BY <1>2, <1>4 DEF WellFormed, Answered
  <1>5. CASE AnswerLoad(q)
    <2>1. Table \in [Devices -> Rows]
      BY <1>1 DEF Table, Absent, Rows, Statuses
    <2>2. WellFormed(Answered(q, "ok", Table))
      BY <1>4, <1>5, <2>1 DEF AnswerLoad, Handles, Pcs, Setup
    <2> QED
      BY <1>1, <1>5, <2>2, ServeInv DEF AnswerLoad, server, bounds
  <1>6. CASE CheckScript(q)
    <2>1. kind = "script" /\ d \in Devices
      BY <1>2, <1>6 DEF CheckScript, Handles
    <2>2. WellFormed(Answered(q, "error", None)) /\ WellFormed(Answered(q, "409", None))
             /\ WellFormed(Answered(q, "checked", row[d]))
      BY <1>1, <1>4, <2>1 DEF Pcs
    <2>3. \/ Answers(q, "error", None)
          \/ Answers(q, "409", None)
          \/ Answers(q, "checked", row[d]) /\ ~MustConfirm(q)
      BY <1>6 DEF CheckScript, Dev
    <2>4. UNCHANGED <<row, allowed, keys, page, history, clicks, changes, faults>>
      BY <1>6 DEF CheckScript, server, bounds
    <2>5. ~MustConfirm(q) /\ row[d].status = "linked" => request[q].sure
      BY DEF MustConfirm, Dev
    <2>6. CASE Answers(q, "error", None)
      BY <1>1, <2>2, <2>4, <2>6, ServeInv
    <2>7. CASE Answers(q, "409", None)
      BY <1>1, <2>2, <2>4, <2>7, ServeInv
    <2>8. CASE Answers(q, "checked", row[d]) /\ ~MustConfirm(q)
      BY <1>1, <2>2, <2>4, <2>5, <2>8, ServeInv
    <2> QED
      BY <2>3, <2>6, <2>7, <2>8
  <1>7. CASE StoreIdentity(q)
    <2> DEFINE says == [dev |-> d, key |-> keys + 1]
    <2>1. kind = "script" /\ d \in Devices
      BY <1>1, <1>2, <1>7 DEF StoreIdentity, WellFormed
    <2>2. says \in Idents /\ says.dev = d
      BY <1>1, <2>1 DEF Idents
    <2>3. Answers(q, "ok", says)
      BY <1>7 DEF StoreIdentity, Dev
    <2> HIDE DEF says
    <2>4. WellFormed(Answered(q, "ok", says))
      BY <1>4, <2>1, <2>2 DEF Pcs
    <2>5. row' \in [Devices -> Rows] /\ keys' \in Nat
      <3>1. /\ keys' = keys + 1
            /\ \/ row' = [row EXCEPT ![d] = [key |-> keys + 1, status |-> "pending"]]
               \/ row' = row
        BY <1>7 DEF StoreIdentity, Dev
      <3>2. [key |-> keys + 1, status |-> "pending"] \in Rows
        BY <1>1 DEF Rows, Statuses
      <3> QED
        BY <1>1, <3>1, <3>2
    <2>6. UNCHANGED <<allowed, page, history, clicks, changes>> /\ faults' \in Nat
      BY <1>1, <1>7 DEF StoreIdentity, Fault
    <2> QED
      BY <1>1, <2>3, <2>4, <2>5, <2>6, ServeInv
  <1>8. CASE AnswerFetch(q)
    <2> DEFINE says == [dev |-> d, key |-> IF Exists(d) THEN row[d].key ELSE 0]
    <2>1. kind = "fetch" /\ d \in Devices
      BY <1>2, <1>8 DEF AnswerFetch, Handles
    <2>2. says \in Idents /\ says.dev = d
      BY <1>1, <2>1 DEF Idents, Rows
    <2>3. Answers(q, "ok", says)
      BY <1>8 DEF AnswerFetch, Dev
    <2> HIDE DEF says
    <2>4. WellFormed(Answered(q, "ok", says))
      BY <1>4, <2>1, <2>2 DEF Pcs
    <2> QED
      BY <1>1, <1>8, <2>3, <2>4, ServeInv DEF AnswerFetch, server, bounds
  <1>9. CASE AnswerIps(q)
    <2>1. WellFormed(Answered(q, "ok", allowed \cap {d}))
      BY <1>4, <1>9 DEF AnswerIps, Handles, Pcs, Setup
    <2> QED
      BY <1>1, <1>9, <2>1, ServeInv DEF AnswerIps, Dev, server, bounds
  <1>10. ASSUME NEW pc \in {"ok", "error"}, Answers(q, pc, None), pc = "error" \/
                    kind \in {"add", "remove", "delete", "create"},
                row' \in [Devices -> Rows], allowed' \subseteq Devices, keys' \in Nat,
                UNCHANGED <<page, history, clicks, changes>>, faults' \in Nat
         PROVE  DevicePageInv'
    <2>1. WellFormed(Answered(q, pc, None))
      BY <1>4, <1>10 DEF Pcs, Setup
    <2> QED
      BY <1>10, <2>1, ServeInv
  <1>11. CASE InsertIp(q)
    <2>1. allowed' \subseteq Devices /\ kind = "add"
             /\ (Answers(q, "ok", None) \/ Answers(q, "error", None))
      BY <1>1, <1>2, <1>11 DEF InsertIp, Handles, Dev
    <2> QED
      BY <1>1, <1>10, <1>11, <2>1 DEF InsertIp, bounds
  <1>12. CASE DeleteIp(q)
    BY <1>1, <1>10, <1>12 DEF DeleteIp, Handles, bounds
  <1>13. CASE DeleteRow(q)
    <2>1. row' \in [Devices -> Rows]
      BY <1>1, <1>13 DEF DeleteRow, Rows, Statuses
    <2> QED
      BY <1>1, <1>10, <1>13, <2>1 DEF DeleteRow, Handles, bounds
  <1>14. CASE InsertRow(q)
    <2>1. row' \in [Devices -> Rows]
      BY <1>1, <1>14 DEF InsertRow, Fresh, Rows, Statuses
    <2> QED
      BY <1>1, <1>10, <1>14, <2>1 DEF InsertRow, Handles, bounds
  <1>15. CASE RequestFails(q)
    BY <1>1, <1>10, <1>15 DEF RequestFails, Fault, server
  <1> QED
    BY <1>5, <1>6, <1>7, <1>8, <1>9, <1>11, <1>12, <1>13, <1>14, <1>15 DEF Serve

-----------------------------------------------------------------------------
(* What is left to show of a click or a delivery, once the types are known: *)
(* SetupInv and ListInv.                                                    *)
PageTypes ==
    /\ shown' \in [Devices -> Rows] /\ failed' \in BOOLEAN
    /\ panel' \in Panels /\ ask' \in Devices \cup {NoDevice} /\ ips' \in Lists
    /\ mixed' \subseteq {"setup", "ips"} /\ told' \subseteq Devices /\ clicks' \in Nat
    /\ UNCHANGED <<row, allowed, keys, changes, faults>>
    /\ told \subseteq told' /\ (ask' # NoDevice => ask' \in told')

LEMMA SwapInv ==
  ASSUME DevicePageInv, PageTypes, NEW q \in Requests, NEW r, Swap(q, r), WellFormed(r),
         r.pc # "checked", r.sure => r.dev \in told'
  PROVE  DevicePageTypeOK' /\ Warned'
  <1>1. Warned'
    BY WarnedAlike DEF DevicePageInv, PageTypes
  <1>2. DevicePageTypeOK'
    BY SwapWellFormed DEF DevicePageInv, DevicePageTypeOK, PageTypes
  <1> QED
    BY <1>1, <1>2

LEMMA NoSwapInv ==
  ASSUME DevicePageInv, PageTypes, request' = request
  PROVE  DevicePageTypeOK' /\ Warned'
  BY DEF DevicePageInv, DevicePageTypeOK, PageTypes, Warned

(* Most steps leave most of the page alone.                                 *)
LEMMA PageTypesKept ==
  ASSUME DevicePageInv
  PROVE  /\ shown \in [Devices -> Rows] /\ failed \in BOOLEAN
         /\ panel \in Panels /\ ask \in Devices \cup {NoDevice} /\ ips \in Lists
         /\ mixed \subseteq {"setup", "ips"} /\ told \subseteq Devices /\ clicks \in Nat
         /\ ask # NoDevice => ask \in told
         /\ TRUE \in BOOLEAN /\ FALSE \in BOOLEAN
         /\ Click => clicks' \in Nat
  BY DEF DevicePageInv, DevicePageTypeOK, Warned, Click

(* A request of no panel is sent, or ends, and the panels stay.             *)
LEMMA ElsewhereInv ==
  ASSUME DevicePageInv, NEW q \in Requests, NEW r, Swap(q, r), WellFormed(r),
         r.pc # "checked", ~r.sure,
         r.kind \notin Setup \cup Listing, request[q].kind \notin Setup \cup Listing,
         shown' \in [Devices -> Rows], failed' \in BOOLEAN, clicks' \in Nat,
         UNCHANGED <<server, panel, ask, ips, history, changes, faults>>
  PROVE  DevicePageInv'
  <1>1. PageTypes
    BY PageTypesKept DEF PageTypes, server, history
  <1>2. DevicePageTypeOK' /\ Warned'
    BY <1>1, SwapInv
  <1>3. SetupInv' /\ ListInv'
    BY SetupAlike, ListAlike DEF DevicePageInv, history
  <1> QED
    BY <1>2, <1>3 DEF DevicePageInv

(* A request of the panel of addresses moves on, and the setup panel stays. *)
LEMMA ListRequestInv ==
  ASSUME DevicePageInv, NEW q \in Requests, NEW r, Swap(q, r), WellFormed(r),
         r.pc # "checked", ~r.sure,
         r.kind \in Listing \cup {"none"}, request[q].kind \in Listing \cup {"none"},
         r.kind # "none" /\ ips.open # NoDevice /\ "ips" \notin mixed => r.dev = ips.open,
         request[q].kind = "ips" => r.kind = "ips",
         clicks' \in Nat,
         UNCHANGED <<server, page, history, changes, faults>>
  PROVE  DevicePageInv'
  <1>1. PageTypes
    BY PageTypesKept DEF PageTypes, server, page, history
  <1>2. DevicePageTypeOK' /\ Warned'
    BY <1>1, SwapInv
  <1>3. SetupInv'
    BY SetupAlike DEF DevicePageInv, page, history, Setup, Listing
  <1>4. ListInv'
    <2>1. request'[q] = r /\ \A p \in Requests : p # q => request'[p] = request[p]
      BY Swapped DEF DevicePageInv
    <2>2. ips' = ips /\ mixed' = mixed
      BY DEF page, history
    <2>3. (\A p \in Requests : request'[p].kind # "ips") =>
             \A p \in Requests : request[p].kind # "ips"
      BY <2>1
    <2> QED
      BY <2>1, <2>2, <2>3 DEF DevicePageInv, ListInv, Listing
  <1> QED
    BY <1>2, <1>3, <1>4 DEF DevicePageInv

-----------------------------------------------------------------------------
LEMMA AskedIs ==
  ASSUME NEW k \in Kinds \ {"none"}, NEW d \in Devices \cup {NoDevice}, NEW sure \in BOOLEAN,
         k # "load" => d \in Devices
  PROVE  LET r == Asked(k, d, sure) IN
         /\ WellFormed(r) /\ r.kind = k /\ r.pc = "sent" /\ r.pc # "checked" /\ r.dev = d
         /\ r.sure => sure
  <1>1. Asked(k, d, sure).kind = k /\ Asked(k, d, sure).dev = d
    BY DEF Asked
  <1>2. Asked(k, d, sure).pc = "sent" /\ Asked(k, d, sure).pc # "checked"
    BY DEF Asked
  <1>3. Asked(k, d, sure).sure => sure
    BY Zenon DEF Asked
  <1> QED
    BY <1>1, <1>2, <1>3, SentWellFormed, Zenon

(* A request that is sent takes a slot that was free.                       *)
New(q, r, k, d) ==
    /\ Swap(q, r) /\ WellFormed(r) /\ r.kind = k /\ r.pc = "sent" /\ r.pc # "checked"
    /\ r.dev = d /\ request[q].kind = "none"

LEMMA SendsSwap ==
  ASSUME NEW q \in Requests, NEW k \in Kinds \ {"none"}, NEW d \in Devices \cup {NoDevice},
         NEW sure \in BOOLEAN, k # "load" => d \in Devices, Sends(q, k, d, sure)
  PROVE  \E r : New(q, r, k, d) /\ (r.sure => sure)
  <1>1. request[q] = Free /\ Swap(q, Asked(k, d, sure))
    BY Zenon DEF Sends, Swap
  <1>2. Free.kind = "none"
    BY FieldsOf
  <1>3. New(q, Asked(k, d, sure), k, d) /\ (Asked(k, d, sure).sure => sure)
    BY <1>1, <1>2, AskedIs DEF New
  <1> QED
    BY <1>3, Zenon

LEMMA SendsPlainly ==
  ASSUME NEW q \in Requests, NEW k \in Kinds \ {"none"}, NEW d \in Devices \cup {NoDevice},
         k # "load" => d \in Devices, Sends(q, k, d, FALSE)
  PROVE  \E r : New(q, r, k, d) /\ ~r.sure
  <1>1. PICK b \in BOOLEAN : b = FALSE
    OBVIOUS
  <1>2. Sends(q, k, d, b)
    BY <1>1, Zenon
  <1> QED
    BY <1>1, <1>2, SendsSwap

(* The setup panel is opened for d.                                         *)
LEMMA GenerateInv ==
  ASSUME DevicePageInv, NEW q \in Requests, NEW d \in Devices, NEW sure \in BOOLEAN,
         Generate(q, d, sure)
  PROVE  DevicePageInv'
  <1> USE DevicePageAssumption
  <1>a. PICK r : New(q, r, "script", d) /\ (r.sure => sure)
    <2>1. Sends(q, "script", d, sure)
      BY DEF Generate
    <2>2. "script" \in Kinds \ {"none"}
      BY DEF Kinds
    <2> QED
      BY <2>1, <2>2, SendsSwap
  <1>1. /\ Swap(q, r) /\ WellFormed(r) /\ r.kind = "script" /\ r.dev = d
        /\ r.pc # "checked" /\ (r.sure => sure) /\ request[q].kind = "none"
    BY <1>a DEF New
  <1>2. /\ panel' = [panel EXCEPT !.open = d, !.loading = TRUE] /\ ask' = NoDevice
        /\ Click /\ sure = (ask = d)
        /\ mixed' = IF Late(Setup) \/ panel.writing \notin {NoDevice, d}
                    THEN mixed \cup {"setup"} ELSE mixed \ {"setup"}
        /\ UNCHANGED <<row, allowed, keys, shown, failed, ips, told, changes, faults>>
    BY DEF Generate, OpensSetup, Opens, server, Click
  <1>3. panel' \in Panels /\ panel'.open = d /\ panel'.loading /\ panel'.writing = panel.writing
    BY <1>2, PageTypesKept DEF Panels
  <1>4. DevicePageTypeOK' /\ Warned'
    <2>1. PageTypes
      BY <1>2, <1>3, PageTypesKept DEF PageTypes
    <2>2. r.sure => r.dev \in told'
      BY <1>1, <1>2, PageTypesKept
    <2> QED
      BY <1>1, <2>1, <2>2, SwapInv
  <1>5. SetupInv'
    <2>1. request'[q] = r /\ \A p \in Requests : p # q => request'[p] = request[p]
      BY <1>1, Swapped DEF DevicePageInv
    <2>2. request'[q].kind = "script" /\ request'[q].dev = d
      BY <1>1, <2>1
    <2>3. "setup" \notin mixed' =>
             /\ \A p \in Requests : request'[p].kind \in Setup => p = q
             /\ panel.writing \in {NoDevice, d}
      BY <1>2, <2>1 DEF Late
    <2> QED
      BY <1>3, <2>2, <2>3 DEF SetupInv, Late, Setup
  <1>6. ListInv'
    BY <1>1, <1>2, ListAlike DEF DevicePageInv, Listing
  <1> QED
    BY <1>4, <1>5, <1>6 DEF DevicePageInv

LEMMA ShowBootstrapInv ==
  ASSUME DevicePageInv, NEW d \in Devices, ShowBootstrap(d)
  PROVE  DevicePageInv'
  <1> USE DevicePageAssumption
  <1>1. /\ panel' = Viewed(d) /\ Click /\ request' = request
        /\ mixed' = IF Late(Setup) \/ panel.writing \notin {NoDevice, d}
                    THEN mixed \cup {"setup"} ELSE mixed \ {"setup"}
        /\ UNCHANGED <<row, allowed, keys, shown, failed, ask, ips, told, changes, faults>>
    BY DEF ShowBootstrap, OpensSetup, Opens, server, Click
  <1>2. /\ panel' \in Panels /\ panel'.open = d /\ panel'.bootstrap = d
        /\ panel'.script.dev = NoDevice /\ panel'.copied = NoDevice
        /\ panel'.loading = panel.loading /\ panel'.writing = panel.writing
    BY <1>1, PageTypesKept DEF Viewed, Panels, None, Idents
  <1>3. DevicePageTypeOK' /\ Warned'
    BY <1>1, <1>2, PageTypesKept, NoSwapInv DEF PageTypes
  <1>4. SetupInv'
    BY <1>1, <1>2 DEF DevicePageInv, SetupInv, Late, Consistent
  <1>5. ListInv'
    BY <1>1 DEF DevicePageInv, ListInv
  <1> QED
    BY <1>3, <1>4, <1>5 DEF DevicePageInv

(* ClosePanel, CopyBootstrap, CancelRegenerate, CloseIpList.                *)
LEMMA CloseInv ==
  ASSUME DevicePageInv, ClosePanel \/ CopyBootstrap \/ CancelRegenerate \/ CloseIpList
  PROVE  DevicePageInv'
  <1> USE DevicePageAssumption
  <1>1. Click /\ UNCHANGED <<server, shown, failed, request, history, changes, faults>>
    BY DEF ClosePanel, CopyBootstrap, CancelRegenerate, CloseIpList, Click
  <1>2. /\ \/ panel' = panel
           \/ panel' = [panel EXCEPT !.open = NoDevice]
           \/ Readable /\ panel' = [panel EXCEPT !.writing = panel.bootstrap]
        /\ ask' \in {ask, NoDevice}
        /\ ips' = ips \/ ips' = [ips EXCEPT !.open = NoDevice]
    BY DEF ClosePanel, CopyBootstrap, CancelRegenerate, CloseIpList
  <1>3. panel \in Panels /\ ips \in Lists
    BY PageTypesKept
  <1>4. panel' \in Panels /\ ips' \in Lists
    BY <1>2, <1>3 DEF Panels, Lists
  <1>5. DevicePageTypeOK' /\ Warned'
    BY <1>1, <1>2, <1>4, PageTypesKept, NoSwapInv DEF PageTypes, server, history
  <1>6. SetupInv'
    <2>1. CASE panel' = panel
      BY <1>1, <2>1 DEF DevicePageInv, SetupInv, Late, Consistent, history
    <2>2. CASE panel' = [panel EXCEPT !.open = NoDevice]
      <3>1. panel'.open = NoDevice /\ panel'.loading = panel.loading
        BY <1>3, <2>2 DEF Panels
      <3> QED
        BY <1>1, <3>1 DEF DevicePageInv, SetupInv, Late, history
    <2>3. CASE Readable /\ panel' = [panel EXCEPT !.writing = panel.bootstrap]
      <3>1. /\ panel'.open = panel.open /\ panel'.loading = panel.loading
            /\ panel'.bootstrap = panel.bootstrap /\ panel'.script = panel.script
            /\ panel'.copied = panel.copied /\ panel'.writing = panel.bootstrap
        BY <1>3, <2>3 DEF Panels
      <3>2. "setup" \notin mixed => Consistent
        BY <2>3 DEF DevicePageInv, SetupInv, Readable, Setup
      <3> QED
        BY <1>1, <3>1, <3>2 DEF DevicePageInv, SetupInv, Late, Consistent, history
    <2> QED
      BY <1>2, <2>1, <2>2, <2>3
  <1>7. ListInv'
    <2>1. ips'.open = NoDevice \/ ips' = ips
      BY <1>2, <1>3 DEF Lists
    <2> QED
      BY <1>1, <2>1 DEF DevicePageInv, ListInv, history
  <1> QED
    BY <1>5, <1>6, <1>7 DEF DevicePageInv

(* The clipboard was written.                                               *)
LEMMA CopiedInv ==
  ASSUME DevicePageInv, Copied
  PROVE  DevicePageInv'
  <1> USE DevicePageAssumption
  <1>1. /\ panel' = [panel EXCEPT !.copied = panel.writing, !.writing = NoDevice]
        /\ UNCHANGED <<row, allowed, keys, shown, failed, ask, ips, request, mixed, told,
                       clicks, changes, faults>>
    BY Zenon DEF Copied, server, history, bounds
  <1>2. panel \in Panels /\ clicks \in Nat
    BY PageTypesKept
  <1>3. /\ panel' \in Panels /\ panel'.open = panel.open /\ panel'.loading = panel.loading
        /\ panel'.bootstrap = panel.bootstrap /\ panel'.script = panel.script
        /\ panel'.copied = panel.writing /\ panel'.writing = NoDevice
    BY <1>1, <1>2 DEF Panels
  <1>4. DevicePageTypeOK'
    BY <1>1, <1>3 DEF DevicePageInv, DevicePageTypeOK
  <1>5. Warned' /\ ListInv'
    BY <1>1 DEF DevicePageInv, Warned, ListInv
  <1>6. SetupInv'
    BY <1>1, <1>3 DEF DevicePageInv, SetupInv, Late, Consistent
  <1> QED
    BY <1>4, <1>5, <1>6 DEF DevicePageInv

LEMMA ToggleInv ==
  ASSUME DevicePageInv, NEW q \in Requests, ToggleFullScript(q)
  PROVE  DevicePageInv'
  <1> USE DevicePageAssumption
  <1>1. /\ Click /\ Readable
        /\ UNCHANGED <<row, allowed, keys, shown, failed, ask, ips, mixed, told, changes, faults>>
    BY DEF ToggleFullScript, server, history, Click
  <1>2. panel \in Panels /\ panel.open \in Devices /\ ~panel.loading
    BY <1>1, PageTypesKept DEF Readable, Panels
  <1>3. CASE request' = request /\ panel' = [panel EXCEPT !.full = ~@]
    <2>1. /\ panel' \in Panels /\ panel'.open = panel.open
          /\ panel'.loading = panel.loading /\ panel'.bootstrap = panel.bootstrap
          /\ panel'.script = panel.script /\ panel'.copied = panel.copied
          /\ panel'.writing = panel.writing
      BY <1>2, <1>3 DEF Panels
    <2>2. DevicePageTypeOK' /\ Warned'
      BY <1>1, <1>3, <2>1, PageTypesKept, NoSwapInv DEF PageTypes
    <2>3. SetupInv' /\ ListInv'
      BY <1>1, <1>3, <2>1 DEF DevicePageInv, SetupInv, ListInv, Late, Consistent
    <2> QED
      BY <2>2, <2>3 DEF DevicePageInv
  <1>4. CASE /\ Sends(q, "fetch", panel.open, FALSE)
             /\ panel' = [panel EXCEPT !.full = TRUE, !.loading = TRUE]
    <2>a. PICK r : New(q, r, "fetch", panel.open) /\ ~r.sure
      <3>1. "fetch" \in Kinds \ {"none"}
        BY DEF Kinds
      <3>2. Sends(q, "fetch", panel.open, FALSE)
        BY <1>4
      <3> QED
        BY <1>2, <3>1, <3>2, SendsPlainly, Zenon
    <2>1. /\ Swap(q, r) /\ WellFormed(r) /\ r.kind = "fetch"
          /\ r.pc # "checked" /\ r.dev = panel.open /\ ~r.sure /\ request[q].kind = "none"
      BY <2>a DEF New
    <2>2. /\ panel' \in Panels /\ panel'.open = panel.open
          /\ panel'.loading /\ panel'.bootstrap = panel.bootstrap
          /\ panel'.script = panel.script /\ panel'.copied = panel.copied
          /\ panel'.writing = panel.writing
      BY <1>2, <1>4 DEF Panels
    <2>3. DevicePageTypeOK' /\ Warned'
      BY <1>1, <2>1, <2>2, PageTypesKept, SwapInv DEF PageTypes
    <2>4. SetupInv'
      <3>1. request'[q] = r /\ \A p \in Requests : p # q => request'[p] = request[p]
        BY <2>1, Swapped DEF DevicePageInv
      <3>2. request'[q].kind = "fetch" /\ request'[q].dev = panel.open
        BY <2>1, <3>1
      <3>3. ASSUME "setup" \notin mixed
            PROVE  /\ \A p \in Requests : request[p].kind \notin Setup
                   /\ Consistent /\ panel.writing \in {NoDevice, panel.open}
        BY <1>2, <3>3 DEF DevicePageInv, SetupInv, Setup
      <3> QED
        BY <1>1, <2>2, <3>1, <3>2, <3>3 DEF SetupInv, Late, Setup, Consistent
    <2>5. ListInv'
      BY <1>1, <2>1, ListAlike DEF DevicePageInv, Listing
    <2> QED
      BY <2>3, <2>4, <2>5 DEF DevicePageInv
  <1> QED
    BY <1>3, <1>4 DEF ToggleFullScript

(* The panel of addresses is opened for d.                                  *)
LEMMA OpenIpListInv ==
  ASSUME DevicePageInv, NEW q \in Requests, NEW d \in Devices, OpenIpList(q, d)
  PROVE  DevicePageInv'
  <1> USE DevicePageAssumption
  <1>a. PICK r : New(q, r, "ips", d) /\ ~r.sure
    <2>1. Sends(q, "ips", d, FALSE)
      BY DEF OpenIpList
    <2>2. "ips" \in Kinds \ {"none"}
      BY DEF Kinds
    <2> QED
      BY <2>1, <2>2, SendsPlainly, Zenon
  <1>1. /\ Swap(q, r) /\ WellFormed(r) /\ r.kind = "ips" /\ r.dev = d
        /\ r.pc # "checked" /\ ~r.sure /\ request[q].kind = "none"
    BY <1>a DEF New
  <1>2. /\ ips' = [ips EXCEPT !.open = d] /\ Click
        /\ mixed' = IF Late(Listing) THEN mixed \cup {"ips"} ELSE mixed \ {"ips"}
        /\ UNCHANGED <<row, allowed, keys, shown, failed, panel, ask, told, changes, faults>>
    BY DEF OpenIpList, Opens, server, Click
  <1>3. ips' \in Lists /\ ips'.open = d
    BY <1>2, PageTypesKept DEF Lists
  <1>4. DevicePageTypeOK' /\ Warned'
    BY <1>1, <1>2, <1>3, PageTypesKept, SwapInv DEF PageTypes
  <1>5. SetupInv'
    BY <1>1, <1>2, SetupAlike DEF DevicePageInv, Setup
  <1>6. ListInv'
    <2>1. request'[q] = r /\ \A p \in Requests : p # q => request'[p] = request[p]
      BY <1>1, Swapped DEF DevicePageInv
    <2>2. "ips" \notin mixed' =>
             \A p \in Requests : request'[p].kind \in Listing => p = q
      BY <1>2, <2>1 DEF Late
    <2> QED
      BY <1>1, <1>3, <2>1, <2>2 DEF ListInv
  <1> QED
    BY <1>4, <1>5, <1>6 DEF DevicePageInv

(* Requests that no panel waits for: delete, create, load.                  *)
LEMMA SendElsewhereInv ==
  ASSUME DevicePageInv, NEW q \in Requests, NEW k \in {"load", "delete", "create"},
         NEW d \in Devices \cup {NoDevice}, k # "load" => d \in Devices, Sends(q, k, d, FALSE),
         failed' \in BOOLEAN, clicks' \in Nat,
         UNCHANGED <<server, shown, panel, ask, ips, history, changes, faults>>
  PROVE  DevicePageInv'
  <1>1. k \in Kinds \ {"none"}
    BY DEF Kinds
  <1>2. PICK r : New(q, r, k, d) /\ ~r.sure
    BY <1>1, SendsPlainly, Zenon
  <1>3. shown' \in [Devices -> Rows]
    BY PageTypesKept
  <1>4. "none" \notin Setup \cup Listing /\ k \notin Setup \cup Listing
    BY DEF Setup, Listing
  <1> QED
    BY <1>2, <1>3, <1>4, ElsewhereInv DEF New

LEMMA SendListInv ==
  ASSUME DevicePageInv, NEW q \in Requests,
         AddIp(q) \/ \E e \in Devices : RemoveIp(q, e)
  PROVE  DevicePageInv'
  <1> USE DevicePageAssumption
  <1>1. /\ Click /\ ips.open # NoDevice
        /\ UNCHANGED <<server, page, history, changes, faults>>
    BY DEF AddIp, RemoveIp, Click
  <1>2. ips.open \in Devices /\ clicks' \in Nat
    BY <1>1, PageTypesKept DEF Lists
  <1>3. \E r : /\ Swap(q, r) /\ WellFormed(r) /\ r.kind \in {"add", "remove"} /\ ~r.sure
               /\ r.pc # "checked" /\ r.dev = ips.open /\ request[q].kind = "none"
    <2>1. CASE AddIp(q)
      <3>1. "add" \in Kinds \ {"none"}
        BY DEF Kinds
      <3>2. Sends(q, "add", ips.open, FALSE)
        BY <2>1 DEF AddIp
      <3>3. PICK r : New(q, r, "add", ips.open) /\ ~r.sure
        BY <1>2, <3>1, <3>2, SendsPlainly, Zenon
      <3> QED
        BY <3>3 DEF New
    <2>2. ASSUME NEW e \in Devices, RemoveIp(q, e)
          PROVE  \E r : /\ Swap(q, r) /\ WellFormed(r) /\ r.kind \in {"add", "remove"} /\ ~r.sure
                        /\ r.pc # "checked" /\ r.dev = ips.open /\ request[q].kind = "none"
      <3>1. PICK b \in BOOLEAN : b = FALSE
        OBVIOUS
      <3>2. PICK r : r = [kind |-> "remove", pc |-> "sent", sure |-> b, dev |-> ips.open,
                          says |-> [dev |-> e, key |-> 0]]
        OBVIOUS
      <3>3. WellFormed(r) /\ r.kind = "remove" /\ ~r.sure /\ r.pc # "checked" /\ r.dev = ips.open
        <4>1. [dev |-> e, key |-> 0] \in Idents
          BY DEF Idents
        <4>2. r.kind = "remove" /\ r.pc = "sent" /\ r.sure = b /\ r.dev = ips.open
                 /\ r.says \in Idents
          BY <3>2, <4>1
        <4>3. r = [kind |-> r.kind, pc |-> r.pc, dev |-> r.dev, sure |-> r.sure, says |-> r.says]
          BY <3>2
        <4> QED
          BY <1>2, <3>1, <4>2, <4>3 DEF WellFormed, Kinds, Pcs, Setup
      <3>4. request[q] = Free /\ Swap(q, r)
        BY <2>2, <3>1, <3>2, Zenon DEF RemoveIp, Swap
      <3>5. request[q].kind = "none"
        BY <3>4, FieldsOf
      <3> QED
        BY <3>3, <3>4, <3>5
    <2> QED
      BY <2>1, <2>2
  <1>4. PICK r : /\ Swap(q, r) /\ WellFormed(r) /\ r.kind \in {"add", "remove"} /\ ~r.sure
                 /\ r.pc # "checked" /\ r.dev = ips.open /\ request[q].kind = "none"
    BY <1>3
  <1> QED
    BY <1>1, <1>2, <1>4, ListRequestInv DEF Listing

LEMMA ClicksInv ==
  ASSUME DevicePageInv, Clicks
  PROVE  DevicePageInv'
  <1>1. ASSUME NEW q \in Requests, NEW d \in Devices, DeleteDevice(q, d) \/ CreateDevice(q, d)
        PROVE  DevicePageInv'
    <2>1. /\ Sends(q, "delete", d, FALSE) \/ Sends(q, "create", d, FALSE)
          /\ Click /\ UNCHANGED <<server, page, history, changes, faults>>
      BY <1>1 DEF DeleteDevice, CreateDevice, Click
    <2>2. /\ failed' \in BOOLEAN /\ clicks' \in Nat
          /\ UNCHANGED <<server, shown, panel, ask, ips, history, changes, faults>>
      BY <2>1, PageTypesKept DEF page
    <2> QED
      BY <2>1, <2>2, SendElsewhereInv, Zenon
  <1>2. ASSUME NEW q \in Requests, Retry(q)
        PROVE  DevicePageInv'
    <2>1. /\ Sends(q, "load", NoDevice, FALSE) /\ failed' \in BOOLEAN
          /\ Click /\ UNCHANGED <<server, shown, panel, ask, ips, history, changes, faults>>
      BY <1>2 DEF Retry, Click
    <2>2. clicks' \in Nat
      BY <2>1, PageTypesKept
    <2> QED
      BY <2>1, <2>2, SendElsewhereInv, Zenon
  <1> QED
    BY <1>1, <1>2, GenerateInv, ShowBootstrapInv, CloseInv, ToggleInv, OpenIpListInv,
       SendListInv
    DEF Clicks

LEMMA PollInv ==
  ASSUME DevicePageInv, NEW q \in Requests, Poll(q)
  PROVE  DevicePageInv'
  <1>1. /\ Sends(q, "load", NoDevice, FALSE) /\ failed' \in BOOLEAN
        /\ UNCHANGED <<server, shown, panel, ask, ips, history, clicks, changes, faults>>
    BY DEF Poll, bounds
  <1>2. clicks' \in Nat
    BY <1>1, PageTypesKept
  <1> QED
    BY <1>1, <1>2, SendElsewhereInv, Zenon

-----------------------------------------------------------------------------
(* An answer is applied: its slot is free, or taken by the handler's next   *)
(* request.                                                                 *)
Follows(q, r, k, d) ==
    /\ Swap(q, r) /\ WellFormed(r) /\ r.kind = k /\ r.pc # "checked" /\ r.dev = d /\ ~r.sure

LEMMA DoneSwap ==
  ASSUME NEW q \in Requests, Done(q)
  PROVE  \E r : Follows(q, r, "none", NoDevice)
  <1>1. Swap(q, Free)
    BY Zenon DEF Done, Swap
  <1>2. /\ WellFormed(Free) /\ Free.kind = "none" /\ Free.pc = "free" /\ ~Free.sure
        /\ Free.dev = NoDevice
    BY FreeWellFormed, FieldsOf
  <1>3. "free" # "checked"
    OBVIOUS
  <1> QED
    BY <1>1, <1>2, <1>3, Zenon DEF Follows

LEMMA ReloadsSwap ==
  ASSUME NEW q \in Requests, NEW k \in {"load", "ips"}, NEW d \in Devices \cup {NoDevice},
         k # "load" => d \in Devices,
         request' = [request EXCEPT ![q] = Asked(k, d, FALSE)]
  PROVE  \E r : Follows(q, r, k, d)
  <1>1. k \in Kinds \ {"none"}
    BY DEF Kinds
  <1>2. PICK b \in BOOLEAN : b = FALSE
    OBVIOUS
  <1>3. Swap(q, Asked(k, d, b))
    BY <1>2, Zenon DEF Swap
  <1>4. Follows(q, Asked(k, d, b), k, d)
    BY <1>1, <1>2, <1>3, AskedIs DEF Follows
  <1> QED
    BY <1>4, Zenon

(* An answer to no panel.                                                   *)
LEMMA ElsewhereDelivered ==
  ASSUME DevicePageInv, NEW q \in Requests, Loaded(q) \/ Created(q) \/ Deleted(q)
  PROVE  DevicePageInv'
  <1> USE DevicePageAssumption
  <1>1. /\ request[q].kind \in {"load", "create", "delete"} /\ failed' \in BOOLEAN
        /\ UNCHANGED <<server, panel, ask, ips, history, clicks, changes, faults>>
        /\ Done(q) \/ Reloads(q)
    <2>1. failed \in BOOLEAN
      BY PageTypesKept
    <2>2. CASE Loaded(q)
      BY <2>1, <2>2, Zenon DEF Loaded, Arrives, bounds
    <2>3. CASE Created(q)
      BY <2>1, <2>3, Zenon DEF Created, Arrives, Reloads, bounds
    <2>4. CASE Deleted(q)
      BY <2>1, <2>4, Zenon DEF Deleted, Arrives, Reloads, bounds
    <2> QED
      BY <2>2, <2>3, <2>4
  <1>2. shown' \in [Devices -> Rows]
    <2>1. WellFormed(request[q])
      BY DEF DevicePageInv, DevicePageTypeOK
    <2>2. \/ shown' = shown
          \/ shown' = request[q].says /\ request[q].kind = "load" /\ request[q].pc = "ok"
      BY DEF Loaded, Created, Deleted, Arrives, Good, Says
    <2> QED
      BY <2>1, <2>2, PageTypesKept DEF WellFormed
  <1>3. PICK r : /\ Swap(q, r) /\ WellFormed(r) /\ r.kind \in {"none", "load"}
                 /\ r.pc # "checked" /\ ~r.sure
    <2>1. CASE Done(q)
      BY <2>1, DoneSwap DEF Follows
    <2>2. CASE Reloads(q)
      <3>1. \E r : Follows(q, r, "load", NoDevice)
        BY <2>2, ReloadsSwap, Zenon DEF Reloads
      <3> QED
        BY <3>1 DEF Follows
    <2> QED
      BY <1>1, <2>1, <2>2
  <1>4. clicks' \in Nat
    BY <1>1, PageTypesKept
  <1> QED
    BY <1>1, <1>2, <1>3, <1>4, ElsewhereInv DEF Setup, Listing

(* An answer to the setup panel: "Generating" goes, and if the panel was    *)
(* not mixed up before there is no further answer to come.                  *)
LEMMA SetupEnds ==
  ASSUME DevicePageInv, NEW q \in Requests, NEW r, Swap(q, r), r.kind \notin Setup,
         request[q].kind \in Setup,
         ~panel'.loading, "setup" \notin mixed' => "setup" \notin mixed,
         "setup" \notin mixed' /\ panel'.open # NoDevice =>
             Consistent' /\ panel'.writing \in {NoDevice, panel'.open}
  PROVE  SetupInv'
  <1>1. request'[q] = r /\ \A p \in Requests : p # q => request'[p] = request[p]
    BY Swapped DEF DevicePageInv
  <1>2. "setup" \notin mixed => \A p \in Requests : request'[p].kind \notin Setup
    BY <1>1 DEF DevicePageInv, SetupInv
  <1> QED
    BY <1>2 DEF SetupInv

LEMMA SetupDelivered ==
  ASSUME DevicePageInv, NEW q \in Requests,
         Generated(q) \/ AsksFirst(q) \/ GenerateFailed(q) \/ FullScriptLoaded(q)
  PROVE  DevicePageInv'
  <1> USE DevicePageAssumption
  <1>1. /\ request[q].kind \in Setup /\ request[q].dev \in Devices
        /\ request[q].pc = "ok" => request[q].says \in Idents /\ Says(q).dev = Dev(q)
    <2>1. WellFormed(request[q])
      BY DEF DevicePageInv, DevicePageTypeOK
    <2>2. request[q].kind \in Setup
      BY DEF Generated, AsksFirst, GenerateFailed, FullScriptLoaded, Arrives, Setup
    <2> QED
      BY <2>1, <2>2 DEF WellFormed, Setup, Says, Dev
  <1>2. /\ UNCHANGED <<row, allowed, keys, shown, ips, clicks, changes, faults>>
        /\ mixed' = mixed \/ mixed' = mixed \cup {"setup"}
        /\ failed' \in BOOLEAN
        /\ Done(q) \/ Reloads(q)
    <2>1. failed \in BOOLEAN
      BY PageTypesKept
    <2>2. CASE Generated(q)
      BY <2>2, Zenon DEF Generated, Reloads, server, history, bounds
    <2>3. CASE AsksFirst(q)
      BY <2>1, <2>3, Zenon DEF AsksFirst, server, history, bounds
    <2>4. CASE GenerateFailed(q)
      BY <2>1, <2>4, Zenon DEF GenerateFailed, server, history, bounds
    <2>5. CASE FullScriptLoaded(q)
      BY <2>1, <2>5, Zenon DEF FullScriptLoaded, server, history, bounds
    <2> QED
      BY <2>2, <2>3, <2>4, <2>5
  <1>3. /\ \/ ask' = ask /\ told' = told
           \/ ask' = Dev(q) /\ told' = told \cup {Dev(q)}
    BY DEF Generated, AsksFirst, GenerateFailed, FullScriptLoaded, history
  <1>4. PICK r : /\ Swap(q, r) /\ WellFormed(r) /\ r.kind \in {"none", "load"}
                 /\ r.pc # "checked" /\ ~r.sure
    <2>1. CASE Done(q)
      BY <2>1, DoneSwap DEF Follows
    <2>2. CASE Reloads(q)
      <3>1. \E r : Follows(q, r, "load", NoDevice)
        BY <2>2, ReloadsSwap, Zenon DEF Reloads
      <3> QED
        BY <3>1 DEF Follows
    <2> QED
      BY <1>2, <2>1, <2>2
  <1>5. panel \in Panels
    BY PageTypesKept
  <1>6. "setup" \notin mixed => panel.open \in {NoDevice, Dev(q)}
    BY <1>1 DEF DevicePageInv, SetupInv, Dev
  <1>7. /\ panel' \in Panels /\ ~panel'.loading
        /\ "setup" \notin mixed' /\ panel'.open # NoDevice =>
               Consistent' /\ panel'.writing \in {NoDevice, panel'.open}
    <2>w. "setup" \notin mixed /\ panel.open # NoDevice => panel.writing \in {NoDevice, panel.open}
      BY DEF DevicePageInv, SetupInv
    <2>1. CASE Generated(q)
      <3>1. /\ panel' = [panel EXCEPT !.loading = FALSE, !.script = Says(q), !.bootstrap = Dev(q),
                                      !.full = FALSE, !.copied = NoDevice]
            /\ request[q].pc = "ok" /\ mixed' = mixed
        BY <2>1 DEF Generated, Good, history
      <3>2. /\ panel' \in Panels /\ ~panel'.loading /\ panel'.open = panel.open
            /\ panel'.script = Says(q) /\ panel'.bootstrap = Dev(q) /\ panel'.copied = NoDevice
            /\ panel'.writing = panel.writing
        BY <1>1, <1>5, <3>1 DEF Panels, Says, Dev
      <3> QED
        BY <1>1, <1>6, <2>w, <3>1, <3>2 DEF Consistent
    <2>2. CASE AsksFirst(q)
      <3>1. panel' = [panel EXCEPT !.loading = FALSE, !.open = NoDevice]
        BY <2>2 DEF AsksFirst
      <3> QED
        BY <1>5, <3>1 DEF Panels
    <2>3. CASE GenerateFailed(q)
      <3>1. panel' = [panel EXCEPT !.loading = FALSE] /\ "setup" \in mixed'
        BY <2>3 DEF GenerateFailed
      <3> QED
        BY <1>5, <3>1 DEF Panels
    <2>4. CASE FullScriptLoaded(q)
      <3>1. /\ \/ panel' = [panel EXCEPT !.loading = FALSE, !.script = Says(q)] /\ request[q].pc = "ok"
               \/ panel' = [panel EXCEPT !.loading = FALSE, !.script = panel.script]
            /\ mixed' = mixed /\ request[q].kind = "fetch"
        BY <2>4 DEF FullScriptLoaded, Good, Arrives, history
      <3>2. /\ panel' \in Panels /\ ~panel'.loading /\ panel'.open = panel.open
            /\ panel'.bootstrap = panel.bootstrap /\ panel'.copied = panel.copied
            /\ panel'.writing = panel.writing
            /\ \/ panel'.script = Says(q) /\ request[q].pc = "ok"
               \/ panel'.script = panel.script
        BY <1>1, <1>5, <3>1 DEF Panels, Says
      <3>3. "setup" \notin mixed /\ panel.open # NoDevice => Consistent
        <4>1. "setup" \notin mixed => \A p \in Requests : request[p].kind # "script"
          BY <1>1, <3>1 DEF DevicePageInv, SetupInv, Setup
        <4> QED
          BY <4>1 DEF DevicePageInv, SetupInv
      <3> QED
        BY <1>1, <1>6, <2>w, <3>1, <3>2, <3>3 DEF Consistent
    <2> QED
      BY <2>1, <2>2, <2>3, <2>4
  <1>8. DevicePageTypeOK' /\ Warned'
    <2>1. PageTypes
      BY <1>1, <1>2, <1>3, <1>7, PageTypesKept DEF PageTypes, Dev
    <2> QED
      BY <1>4, <2>1, SwapInv
  <1>9. SetupInv'
    BY <1>1, <1>2, <1>4, <1>7, SetupEnds DEF Setup
  <1>10. ListInv'
    BY <1>1, <1>2, <1>4, ListAlike DEF DevicePageInv, Setup, Listing
  <1> QED
    BY <1>8, <1>9, <1>10 DEF DevicePageInv

(* The list arrives, for the device it was asked for.                       *)
LEMMA IpsLoadedInv ==
  ASSUME DevicePageInv, NEW q \in Requests, IpsLoaded(q)
  PROVE  DevicePageInv'
  <1> USE DevicePageAssumption
  <1>1. /\ request[q].kind = "ips" /\ request[q].dev \in Devices
        /\ request[q].pc = "ok" => request[q].says \subseteq {request[q].dev}
    <2>1. WellFormed(request[q])
      BY DEF DevicePageInv, DevicePageTypeOK
    <2> QED
      BY <2>1 DEF IpsLoaded, Arrives, WellFormed
  <1>2. /\ UNCHANGED <<row, allowed, keys, shown, failed, panel, ask, mixed, told, clicks,
                       changes, faults>>
        /\ Done(q)
    BY Zenon DEF IpsLoaded, server, history, bounds
  <1>3. PICK r : Follows(q, r, "none", NoDevice)
    BY <1>2, DoneSwap
  <1>4. /\ ips' \in Lists /\ ips'.open = ips.open
        /\ ips'.entries \subseteq {request[q].dev}
    <2>1. \/ ips' = [ips EXCEPT !.entries = Says(q)] /\ request[q].pc = "ok"
          \/ ips' = [ips EXCEPT !.entries = {}]
      BY DEF IpsLoaded, Good
    <2> QED
      BY <1>1, <2>1, PageTypesKept DEF Lists, Says
  <1>5. DevicePageTypeOK' /\ Warned'
    <2>1. PageTypes
      BY <1>2, <1>4, PageTypesKept DEF PageTypes
    <2> QED
      BY <1>3, <2>1, SwapInv DEF Follows
  <1>6. SetupInv'
    BY <1>1, <1>2, <1>3, SetupAlike DEF Follows, DevicePageInv, Setup
  <1>7. ListInv'
    <2>1. request'[q] = r /\ \A p \in Requests : p # q => request'[p] = request[p]
      BY <1>3, Swapped DEF Follows, DevicePageInv
    <2>2. "ips" \notin mixed /\ ips.open # NoDevice => ips.open = request[q].dev
      BY <1>1 DEF DevicePageInv, ListInv, Listing
    <2> QED
      BY <1>2, <1>3, <1>4, <2>1, <2>2 DEF Follows, DevicePageInv, ListInv, Listing
  <1> QED
    BY <1>5, <1>6, <1>7 DEF DevicePageInv

LEMMA IpsChangedInv ==
  ASSUME DevicePageInv, NEW q \in Requests, IpsChanged(q)
  PROVE  DevicePageInv'
  <1> USE DevicePageAssumption
  <1>1. /\ request[q].kind \in {"add", "remove"} /\ (Done(q) \/ ReloadsIps(q))
        /\ UNCHANGED <<server, page, history, clicks, changes, faults>>
    BY Zenon DEF IpsChanged, Arrives, bounds
  <1>2. request[q].dev \in Devices
    <2>1. WellFormed(request[q])
      BY DEF DevicePageInv, DevicePageTypeOK
    <2> QED
      BY <1>1, <2>1 DEF WellFormed
  <1>3. "ips" \notin mixed /\ ips.open # NoDevice => request[q].dev = ips.open
    BY <1>1 DEF DevicePageInv, ListInv, Listing
  <1>4. PICK r : /\ Swap(q, r) /\ WellFormed(r) /\ r.pc # "checked" /\ ~r.sure
                 /\ r.kind = "none" \/ (r.kind = "ips" /\ r.dev = request[q].dev)
    <2>1. CASE Done(q)
      BY <2>1, DoneSwap DEF Follows
    <2>2. CASE ReloadsIps(q)
      <3>1. \E r : Follows(q, r, "ips", request[q].dev)
        BY <1>2, <2>2, ReloadsSwap, Zenon DEF ReloadsIps, Dev
      <3> QED
        BY <3>1 DEF Follows
    <2> QED
      BY <1>1, <2>1, <2>2
  <1>5. clicks' \in Nat
    BY <1>1, PageTypesKept
  <1> QED
    BY <1>1, <1>3, <1>4, <1>5, ListRequestInv DEF Listing

LEMMA DevicePageStep == DevicePageInv /\ [Next]_vars => DevicePageInv'
  <1> SUFFICES ASSUME DevicePageInv, [Next]_vars PROVE DevicePageInv'
    OBVIOUS
  <1>1. CASE UNCHANGED vars
    BY <1>1, PageAlike
    DEF vars, server, page, history, bounds, DevicePageInv, DevicePageTypeOK
  <1>2. ASSUME NEW d \in Devices, Around(d) PROVE DevicePageInv'
    BY <1>2, AroundInv
  <1>3. CASE Clicks
    BY <1>3, ClicksInv
  <1>4. ASSUME NEW q \in Requests, Poll(q) PROVE DevicePageInv'
    BY <1>4, PollInv
  <1>7. CASE Copied
    BY <1>7, CopiedInv
  <1>5. ASSUME NEW q \in Requests, Serve(q) PROVE DevicePageInv'
    BY <1>5, AnswersInv
  <1>6. ASSUME NEW q \in Requests, Deliver(q) PROVE DevicePageInv'
    BY <1>6, ElsewhereDelivered, SetupDelivered, IpsLoadedInv, IpsChangedInv DEF Deliver
  <1> QED
    BY <1>1, <1>2, <1>3, <1>4, <1>5, <1>6, <1>7 DEF Next

(* The panels' strengthening holds in every reachable state, for any number *)
(* of devices, requests and clicks.                                         *)
THEOREM DevicePageInvariant == Spec => []DevicePageInv
  BY DevicePageInit, DevicePageStep, PTL DEF Spec

(* The page's state is well typed; in particular an answer under way is of  *)
(* the kind its handler reads (loadDevices, generateScript, loadIpList).    *)
THEOREM DevicePageTypes == Spec => []DevicePageTypeOK
  <1>1. DevicePageInv => DevicePageTypeOK
    BY DEF DevicePageInv
  <1> QED
    BY <1>1, DevicePageInvariant, PTL

(* What a panel shows is of the device it is open for (scriptFor,           *)
(* ipListFor), until an earlier answer or a failed generation mixes it up.  *)
THEOREM PanelsKeepToOneDevice == Spec => []PanelsAreOfOneDevice
  <1>1. ASSUME DevicePageInv PROVE PanelsAreOfOneDevice
    <2>1. ASSUME Readable, "setup" \notin mixed PROVE Consistent
      BY <1>1, <2>1 DEF DevicePageInv, SetupInv, Readable, Setup
    <2> QED
      BY <1>1, <2>1 DEF DevicePageInv, ListInv, PanelsAreOfOneDevice, Consistent
  <1> QED
    BY <1>1, DevicePageInvariant, PTL

-----------------------------------------------------------------------------
(* Only the call that stores the identity ends in "ok" from where it looked,*)
(* and it was let go on for a linked router only if that was confirmed.     *)
LEMMA CutOffByStep ==
  ASSUME DevicePageInv, Next, NEW q \in Requests
  PROVE  CutOffStep(q)
  <1> SUFFICES ASSUME request[q].pc = "checked", request[q].says.status = "linked"
               PROVE  request[q].sure /\ Dev(q) \in told
    BY DEF CutOffStep
  <1> QED
    BY DEF DevicePageInv, Warned, Dev

(* A router that was seen linked is cut off by a new identity only after    *)
(* its admin was warned (provisioning-script's 409, "Regenerate anyway").   *)
THEOREM LinkedAreWarnedOf == Spec => CutOffIsAnnounced
  <1>1. DevicePageInv /\ [Next]_vars => [\A q \in Requests : CutOffStep(q)]_vars
    BY CutOffByStep
  <1> QED
    BY <1>1, DevicePageInvariant, PTL DEF Spec, CutOffIsAnnounced
=============================================================================
