----------------------------- MODULE Accounting -----------------------------
(***************************************************************************)
(* RADIUS accounting: the packets a router sends about its sessions, and   *)
(* radius-service's bookkeeping of them in active_sessions and             *)
(* session_history.  A packet is acknowledged before it is handled, and    *)
(* every handler runs on its own: packets are lost, resent, overtaken, and *)
(* their handlers overlap at each await.  The two octet counters of a      *)
(* packet are treated alike, so one stands for both.                       *)
(*                                                                         *)
(* Sources: radius-service/src/{radius-acct,db}.js, migrations 0001, 0005  *)
(* and 0010.                                                               *)
(***************************************************************************)
EXTENDS Naturals, Sequences, FiniteSetsExt

CONSTANTS
    Sessions,       \* Acct-Session-Ids, never used again
    Handlers,       \* slots for concurrent Accounting-Requests
    NoRow, NoPacket,
    WordSize,       \* octet counters are below this (2^32 on the wire)
    MaxUse,         \* bound on the octets of a session
    MaxResends,     \* bound on packets received again
    MaxFaults       \* bound on lost packets, database errors and deletions

ASSUME AccountingAssumption ==
    /\ WordSize \in Nat \ {0} /\ MaxUse \in Nat
    /\ MaxResends \in Nat /\ MaxFaults \in Nat
    /\ NoRow \notin Nat

VARIABLES
    session,    \* session[s]: "new", "up" or "over", on the router
    used,       \* used[s]: the octets that went through
    net,        \* packets the router has sent and no ack came for
    handler,    \* radius-service's requests in progress
    registered, \* the router still has its mikrotik_devices row
    active,     \* active[s]: bytes of the active_sessions row, or NoRow
    history,    \* history[s]: the session_history rows of s
    recorded,   \* history variable: sessions that ever had a row
    orderly,    \* history variable: sessions nothing unusual happened to
    resends, faults

tables == <<registered, active, history, recorded>>
wire == <<session, used, net>>
vars == <<wire, handler, tables, orderly, resends, faults>>

Packets == [type : {"Start", "Interim-Update", "Stop"}, s : Sessions,
            octets : 0 .. (WordSize - 1)]
Archived == [octets : Nat, linked : BOOLEAN]
Requests == [pc : {"idle", "device", "type", "upsert", "stop"},
             packet : Packets \cup {NoPacket}]

Idle == [pc |-> "idle", packet |-> NoPacket]

Init ==
    /\ session = [s \in Sessions |-> "new"]
    /\ used = [s \in Sessions |-> 0]
    /\ net = {}
    /\ handler = [h \in Handlers |-> Idle]
    /\ registered = TRUE
    /\ active = [s \in Sessions |-> NoRow]
    /\ history = [s \in Sessions |-> <<>>]
    /\ recorded = {}
    /\ orderly = Sessions
    /\ resends = 0 /\ faults = 0

InFlight(s) == \/ \E p \in net : p.s = s
               \/ \E h \in Handlers : handler[h].pc # "idle" /\ handler[h].packet.s = s

(* A session is orderly as long as each of its packets arrives once and is  *)
(* dealt with before the router has the next one to send.                   *)
Disturbed(s) == orderly' = orderly \ {s}

-----------------------------------------------------------------------------
(* The router. *)

Send(s, type) ==
    /\ net' = net \cup {[type |-> type, s |-> s, octets |-> used[s] % WordSize]}
    /\ orderly' = IF InFlight(s) THEN orderly \ {s} ELSE orderly
    /\ UNCHANGED <<handler, tables, resends, faults>>

Connect(s) ==
    /\ session[s] = "new"
    /\ session' = [session EXCEPT ![s] = "up"]
    /\ UNCHANGED used
    /\ Send(s, "Start")

Transfer(s) ==
    /\ session[s] = "up" /\ used[s] < MaxUse
    /\ used' = [used EXCEPT ![s] = @ + 1]
    /\ UNCHANGED <<session, net, handler, tables, orderly, resends, faults>>

Update(s) ==
    /\ session[s] = "up"
    /\ UNCHANGED <<session, used>>
    /\ Send(s, "Interim-Update")

Disconnect(s) ==
    /\ session[s] = "up"
    /\ session' = [session EXCEPT ![s] = "over"]
    /\ UNCHANGED used
    /\ Send(s, "Stop")

(* The router resends a packet for a while, then forgets it. *)
Forget(p) ==
    /\ p \in net /\ faults < MaxFaults
    /\ net' = net \ {p}
    /\ faults' = faults + 1
    /\ Disturbed(p.s)
    /\ UNCHANGED <<session, used, handler, tables, resends>>

-----------------------------------------------------------------------------
(* radius-service. *)

Goto(h, pc) == handler' = [handler EXCEPT ![h].pc = pc]

Done(h) == handler' = [handler EXCEPT ![h] = Idle]

(* The ack goes out at once.  When it is lost the packet comes again.       *)
Receive(h, p) ==
    /\ handler[h] = Idle /\ p \in net
    /\ handler' = [handler EXCEPT ![h] = [pc |-> "device", packet |-> p]]
    /\ \/ net' = net \ {p} /\ UNCHANGED <<orderly, resends>>
       \/ /\ resends < MaxResends
          /\ resends' = resends + 1 /\ Disturbed(p.s) /\ UNCHANGED net
    /\ UNCHANGED <<session, used, tables, faults>>

(* handleAccounting looks the router up by its tunnel address, ...          *)
FindDevice(h) ==
    /\ handler[h].pc = "device"
    /\ IF ~registered THEN Done(h)
       ELSE Goto(h, IF handler[h].packet.type = "Stop" THEN "stop" ELSE "type")
    /\ UNCHANGED <<wire, tables, orderly, resends, faults>>

(* ... then, for a Start or an Interim-Update, what the username is.  Both  *)
(* lead to the same upsert.                                                 *)
InferSessionType(h) ==
    /\ handler[h].pc = "type"
    /\ Goto(h, "upsert")
    /\ UNCHANGED <<wire, tables, orderly, resends, faults>>

(* A slip, for mutation: the table without its foreign key to the device.   *)
UpsertDangling(s, octets) ==
    /\ active' = [active EXCEPT ![s] = octets]
    /\ recorded' = recorded \cup {s}
    /\ UNCHANGED <<registered, history>>

(* A slip, for mutation: counters that add up instead of being replaced.    *)
UpsertAdds(s, octets) ==
    /\ IF registered
       THEN /\ active' = [active EXCEPT ![s] = IF @ = NoRow THEN octets ELSE @ + octets]
            /\ recorded' = recorded \cup {s}
       ELSE UNCHANGED <<active, recorded>>
    /\ UNCHANGED <<registered, history>>

(* The insert, which the foreign key refuses when the device is gone.       *)
UpsertRow(s, octets) ==
    /\ IF registered
       THEN /\ active' = [active EXCEPT ![s] = octets]
            /\ recorded' = recorded \cup {s}
       ELSE UNCHANGED <<active, recorded>>
    /\ UNCHANGED <<registered, history>>

UpsertActiveSession(h) ==
    /\ handler[h].pc = "upsert"
    /\ UpsertRow(handler[h].packet.s, handler[h].packet.octets)
    /\ Done(h)
    /\ UNCHANGED <<wire, orderly, resends, faults>>

Greatest(m, n) == IF m > n THEN m ELSE n

(* A slip, for mutation: the row deleted and nothing archived.              *)
MoveDrops(s, octets) ==
    /\ active' = [active EXCEPT ![s] = NoRow]
    /\ UNCHANGED <<registered, history, recorded>>

(* A slip, for mutation: the Stop's own counters ignored, as they once were.*)
MoveStale(s, octets) ==
    /\ active[s] # NoRow =>
          /\ active' = [active EXCEPT ![s] = NoRow]
          /\ history' = [history EXCEPT ![s] =
                Append(@, [octets |-> active[s], linked |-> TRUE])]
    /\ active[s] = NoRow => UNCHANGED <<active, history>>
    /\ UNCHANGED <<registered, recorded>>

(* The move from one table to the other is one statement; a Stop without a  *)
(* row moves nothing.                                                       *)
MoveRow(s, octets) ==
    /\ active[s] # NoRow =>
          /\ active' = [active EXCEPT ![s] = NoRow]
          /\ history' = [history EXCEPT ![s] =
                Append(@, [octets |-> Greatest(active[s], octets), linked |-> TRUE])]
    /\ active[s] = NoRow => UNCHANGED <<active, history>>
    /\ UNCHANGED <<registered, recorded>>

DeleteActiveSession(h) ==
    /\ handler[h].pc = "stop"
    /\ MoveRow(handler[h].packet.s, handler[h].packet.octets)
    /\ Done(h)
    /\ UNCHANGED <<wire, orderly, resends, faults>>

(* A query throws: what was acknowledged is lost.                           *)
QueryThrows(h) ==
    /\ handler[h].pc # "idle" /\ faults < MaxFaults
    /\ Done(h)
    /\ faults' = faults + 1
    /\ Disturbed(handler[h].packet.s)
    /\ UNCHANGED <<wire, tables, resends>>

(* The process ends, and with it every request in progress.                 *)
Crash ==
    /\ faults < MaxFaults
    /\ handler' = [h \in Handlers |-> Idle]
    /\ faults' = faults + 1
    /\ orderly' = {s \in orderly : \A h \in Handlers :
                                       handler[h] # Idle => handler[h].packet.s # s}
    /\ UNCHANGED <<wire, tables, resends>>

-----------------------------------------------------------------------------
(* The devices page. *)

(* A slip, for mutation: the foreign key of session_history before          *)
(* migration 0010.                                                          *)
UnlinkedCascades(rows) == <<>>

Unlinked(rows) == [i \in 1 .. Len(rows) |-> [rows[i] EXCEPT !.linked = FALSE]]

(* Deleting the device cascades to active_sessions and unlinks the history. *)
DeleteDevice ==
    /\ registered /\ faults < MaxFaults
    /\ registered' = FALSE
    /\ active' = [s \in Sessions |-> NoRow]
    /\ history' = [s \in Sessions |-> Unlinked(history[s])]
    /\ faults' = faults + 1
    /\ orderly' = {}
    /\ UNCHANGED <<wire, handler, recorded, resends>>

-----------------------------------------------------------------------------
Next ==
    \/ \E s \in Sessions : Connect(s) \/ Transfer(s) \/ Update(s) \/ Disconnect(s)
    \/ \E p \in net : Forget(p)
    \/ \E h \in Handlers, p \in net : Receive(h, p)
    \/ \E h \in Handlers :
          \/ FindDevice(h) \/ InferSessionType(h)
          \/ UpsertActiveSession(h) \/ DeleteActiveSession(h)
          \/ QueryThrows(h)
    \/ Crash
    \/ DeleteDevice

Spec == Init /\ [][Next]_vars

-----------------------------------------------------------------------------
(* Properties. *)

(* Every variable keeps its range: the session's state on the router, the   *)
(* packets, the handlers and the two tables.                                *)
AccountingTypeOK ==
    /\ session \in [Sessions -> {"new", "up", "over"}]
    /\ used \in [Sessions -> 0 .. MaxUse]
    /\ net \subseteq Packets
    /\ handler \in [Handlers -> Requests]
    /\ \A h \in Handlers : handler[h].pc # "idle" => handler[h].packet \in Packets
    /\ registered \in BOOLEAN
    /\ active \in [Sessions -> Nat \cup {NoRow}]
    /\ history \in [Sessions -> Seq(Archived)]
    /\ recorded \subseteq Sessions /\ orderly \subseteq Sessions
    /\ resends \in 0 .. MaxResends /\ faults \in 0 .. MaxFaults

(* Once a session has been recorded it is in active_sessions or in          *)
(* session_history, whatever is lost, repeated or overtaken, unless the     *)
(* device was deleted with it (deleteActiveSession's one statement).        *)
NeverInNeither ==
    registered => \A s \in recorded : active[s] # NoRow \/ history[s] # <<>>

(* What the customers page adds up for a session. *)
Reported(s) ==
    MapThenSumSet(LAMBDA i : history[s][i].octets, DOMAIN history[s])
        + (IF active[s] = NoRow THEN 0 ELSE active[s])

(* No row ever claims more octets than went through, and as long as a       *)
(* session is orderly its rows together do not either: the customers page,  *)
(* which adds both tables up, never counts its use twice.                   *)
UseIsNotInflated ==
    \A s \in Sessions :
        /\ active[s] # NoRow => active[s] <= used[s]
        /\ \A i \in 1 .. Len(history[s]) : history[s][i].octets <= used[s]
        /\ s \in orderly => Reported(s) <= used[s]

(* An orderly session that is over and dealt with has left active_sessions  *)
(* and has one row in session_history, with all its octets if the router's  *)
(* counter never wrapped (handleAccounting, deleteActiveSession).           *)
OrderlyIsExact ==
    \A s \in orderly :
        session[s] = "over" /\ ~InFlight(s) =>
            /\ active[s] = NoRow
            /\ Len(history[s]) = 1
            /\ used[s] < WordSize => history[s][1].octets = used[s]

(* A deleted device leaves no active session and no link behind, though a   *)
(* handler that found the device before may still write (migration 0010).   *)
DeletedIsGone ==
    ~registered => \A s \in Sessions :
        /\ active[s] = NoRow
        /\ \A i \in 1 .. Len(history[s]) : ~history[s][i].linked

(* The accounting trail is permanent: an archived row stays, with its       *)
(* octets, whatever happens to the device (migration 0010).                 *)
HistoryIsPermanent ==
    [][\A s \in Sessions :
          /\ Len(history[s]) <= Len(history'[s])
          /\ \A i \in 1 .. Len(history[s]) :
                history'[s][i].octets = history[s][i].octets]_vars
=============================================================================
