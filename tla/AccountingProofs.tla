-------------------------- MODULE AccountingProofs --------------------------
(* Theorems about Accounting, for every value of its constants. *)
EXTENDS Accounting, TLAPS

LEMMA IdleIsRequest == Idle \in Requests /\ Idle.pc = "idle"
  BY DEF Idle, Requests

(* A handler that goes on keeps its packet. *)
LEMMA GotoType ==
  ASSUME AccountingTypeOK, NEW h \in Handlers, handler[h].pc # "idle",
         NEW pc \in {"device", "type", "upsert", "stop"}, Goto(h, pc)
  PROVE  /\ handler' \in [Handlers -> Requests]
         /\ \A k \in Handlers : handler'[k].pc # "idle" => handler'[k].packet \in Packets
         /\ \A k \in Handlers : handler'[k].packet = handler[k].packet
         /\ \A k \in Handlers : handler'[k].pc = IF k = h THEN pc ELSE handler[k].pc
  BY DEF AccountingTypeOK, Requests, Goto

LEMMA DoneType ==
  ASSUME AccountingTypeOK, NEW h \in Handlers, Done(h)
  PROVE  /\ handler' \in [Handlers -> Requests]
         /\ \A k \in Handlers : handler'[k].pc # "idle" => handler'[k].packet \in Packets
         /\ handler'[h].pc = "idle"
         /\ \A k \in Handlers : k # h => handler'[k] = handler[k]
  BY IdleIsRequest DEF AccountingTypeOK, Done

LEMMA SentPacket ==
  ASSUME AccountingTypeOK, NEW s \in Sessions,
         NEW type \in {"Start", "Interim-Update", "Stop"}
  PROVE  /\ [type |-> type, s |-> s, octets |-> used[s] % WordSize] \in Packets
         /\ used[s] % WordSize <= used[s]
         /\ used[s] < WordSize => used[s] % WordSize = used[s]
  <1>1. used[s] \in Nat /\ WordSize \in Nat \ {0}
    BY AccountingAssumption DEF AccountingTypeOK, AccountingAssumption
  <1>2. /\ used[s] % WordSize \in 0 .. (WordSize - 1)
        /\ used[s] % WordSize <= used[s]
        /\ used[s] < WordSize => used[s] % WordSize = used[s]
    BY <1>1, Z3
  <1> QED
    BY <1>2 DEF Packets

LEMMA AccountingTypeInit == Init => AccountingTypeOK
  BY AccountingAssumption, IdleIsRequest DEF Init, AccountingTypeOK, AccountingAssumption

LEMMA AccountingTypeRouter ==
  ASSUME AccountingTypeOK, NEW s \in Sessions,
         Connect(s) \/ Transfer(s) \/ Update(s) \/ Disconnect(s)
  PROVE  AccountingTypeOK'
  <1> USE DEF AccountingTypeOK, tables
  <1>1. ASSUME NEW type \in {"Start", "Interim-Update", "Stop"}, Send(s, type)
        PROVE  net' \subseteq Packets /\ orderly' \subseteq Sessions
    BY <1>1, SentPacket DEF Send
  <1>2. CASE Connect(s)
    BY <1>1, <1>2 DEF Connect, Send
  <1>3. CASE Transfer(s)
    <2>1. used' \in [Sessions -> 0 .. MaxUse]
      BY <1>3, AccountingAssumption DEF Transfer, AccountingAssumption
    <2> QED
      BY <1>3, <2>1 DEF Transfer
  <1>4. CASE Update(s)
    BY <1>1, <1>4 DEF Update, Send
  <1>5. CASE Disconnect(s)
    BY <1>1, <1>5 DEF Disconnect, Send
  <1> QED
    BY <1>2, <1>3, <1>4, <1>5

LEMMA AccountingTypeFault ==
  ASSUME AccountingTypeOK, faults < MaxFaults, faults' = faults + 1
  PROVE  faults' \in 0 .. MaxFaults
  BY AccountingAssumption DEF AccountingAssumption, AccountingTypeOK

LEMMA AccountingTypeReceive ==
  ASSUME AccountingTypeOK, NEW h \in Handlers, NEW p \in net, Receive(h, p)
  PROVE  AccountingTypeOK'
  <1> USE DEF AccountingTypeOK, tables
  <1>1. [pc |-> "device", packet |-> p] \in Requests
    BY DEF Requests
  <1>2. handler' \in [Handlers -> Requests]
    BY <1>1 DEF Receive
  <1>3. \A k \in Handlers : handler'[k].pc # "idle" => handler'[k].packet \in Packets
    BY DEF Receive
  <1>4. resends' \in 0 .. MaxResends /\ net' \subseteq Packets /\ orderly' \subseteq Sessions
    BY AccountingAssumption DEF Receive, Disturbed, AccountingAssumption
  <1> QED
    BY <1>2, <1>3, <1>4 DEF Receive

LEMMA GreatestType ==
  ASSUME NEW m \in Nat, NEW n \in Nat
  PROVE  Greatest(m, n) \in {m, n}
  BY DEF Greatest

(* What the two statements on the tables leave. *)
LEMMA UpsertType ==
  ASSUME AccountingTypeOK, NEW s \in Sessions, NEW n \in Nat, UpsertRow(s, n)
  PROVE  /\ active' \in [Sessions -> Nat \cup {NoRow}]
         /\ recorded' \subseteq Sessions
         /\ UNCHANGED <<registered, history>>
  BY DEF AccountingTypeOK, UpsertRow

LEMMA MoveType ==
  ASSUME AccountingTypeOK, NEW s \in Sessions, NEW n \in Nat, MoveRow(s, n)
  PROVE  /\ active' \in [Sessions -> Nat \cup {NoRow}]
         /\ history' \in [Sessions -> Seq(Archived)]
         /\ UNCHANGED <<registered, recorded>>
  <1>1. CASE active[s] = NoRow
    BY <1>1 DEF AccountingTypeOK, MoveRow
  <1>2. CASE active[s] # NoRow
    <2>1. active[s] \in Nat
      BY <1>2 DEF AccountingTypeOK
    <2>2. [octets |-> Greatest(active[s], n), linked |-> TRUE] \in Archived
      BY <2>1, GreatestType DEF Archived
    <2> DEFINE row == [octets |-> Greatest(active[s], n), linked |-> TRUE]
    <2>3. /\ active' = [active EXCEPT ![s] = NoRow]
          /\ history' = [history EXCEPT ![s] = Append(@, row)]
          /\ UNCHANGED <<registered, recorded>>
      BY <1>2 DEF MoveRow
    <2> HIDE DEF row
    <2>4. row \in Archived
      BY <2>2 DEF row
    <2>5. Append(history[s], row) \in Seq(Archived)
      BY <2>4 DEF AccountingTypeOK
    <2> QED
      BY <2>3, <2>5 DEF AccountingTypeOK
  <1> QED
    BY <1>1, <1>2

(* The packet a handler works on. *)
LEMMA HandledPacket ==
  ASSUME AccountingTypeOK, NEW h \in Handlers, handler[h].pc # "idle"
  PROVE  /\ handler[h].packet \in Packets
         /\ handler[h].packet.s \in Sessions /\ handler[h].packet.octets \in Nat
         /\ handler[h].packet.type \in {"Start", "Interim-Update", "Stop"}
  BY AccountingAssumption DEF AccountingTypeOK, Packets, AccountingAssumption

LEMMA AccountingTypeHandler ==
  ASSUME AccountingTypeOK, NEW h \in Handlers,
         \/ FindDevice(h) \/ InferSessionType(h)
         \/ UpsertActiveSession(h) \/ DeleteActiveSession(h) \/ QueryThrows(h)
  PROVE  AccountingTypeOK'
  <1> USE DEF tables, wire
  <1>1. CASE FindDevice(h)
    <2>1. handler[h].pc # "idle"
      BY <1>1 DEF FindDevice
    <2>2. \/ Done(h)
          \/ \E pc \in {"device", "type", "upsert", "stop"} : Goto(h, pc)
      BY <1>1 DEF FindDevice
    <2> QED
      BY <1>1, <2>1, <2>2, GotoType, DoneType DEF FindDevice, AccountingTypeOK
  <1>2. CASE InferSessionType(h)
    <2>1. handler[h].pc # "idle" /\ Goto(h, "upsert")
      BY <1>2 DEF InferSessionType
    <2> QED
      BY <1>2, <2>1, GotoType DEF InferSessionType, AccountingTypeOK
  <1>3. CASE UpsertActiveSession(h)
    <2>1. Done(h) /\ UpsertRow(handler[h].packet.s, handler[h].packet.octets)
      BY <1>3 DEF UpsertActiveSession
    <2>2. /\ active' \in [Sessions -> Nat \cup {NoRow}]
          /\ recorded' \subseteq Sessions
          /\ UNCHANGED <<registered, history>>
      BY <1>3, <2>1, HandledPacket, UpsertType DEF UpsertActiveSession
    <2> QED
      BY <1>3, <2>1, <2>2, DoneType DEF UpsertActiveSession, AccountingTypeOK
  <1>4. CASE DeleteActiveSession(h)
    <2>1. Done(h) /\ MoveRow(handler[h].packet.s, handler[h].packet.octets)
      BY <1>4 DEF DeleteActiveSession
    <2>2. /\ active' \in [Sessions -> Nat \cup {NoRow}]
          /\ history' \in [Sessions -> Seq(Archived)]
          /\ UNCHANGED <<registered, recorded>>
      BY <1>4, <2>1, HandledPacket, MoveType DEF DeleteActiveSession
    <2> QED
      BY <1>4, <2>1, <2>2, DoneType DEF DeleteActiveSession, AccountingTypeOK
  <1>5. CASE QueryThrows(h)
    BY <1>5, DoneType, AccountingTypeFault DEF QueryThrows, Disturbed, AccountingTypeOK
  <1> QED
    BY <1>1, <1>2, <1>3, <1>4, <1>5

(* Unlinking the archive changes no row but its link.                       *)
LEMMA UnlinkedRows ==
  ASSUME NEW rows \in Seq(Archived)
  PROVE  /\ Unlinked(rows) \in Seq(Archived)
         /\ Len(Unlinked(rows)) = Len(rows)
         /\ \A i \in 1 .. Len(rows) : /\ Unlinked(rows)[i].octets = rows[i].octets
                                      /\ ~Unlinked(rows)[i].linked
  <1>1. \A i \in 1 .. Len(rows) : rows[i] \in Archived
    OBVIOUS
  <1>2. \A i \in 1 .. Len(rows) :
           /\ [rows[i] EXCEPT !.linked = FALSE] \in Archived
           /\ [rows[i] EXCEPT !.linked = FALSE].octets = rows[i].octets
           /\ ~[rows[i] EXCEPT !.linked = FALSE].linked
    BY <1>1 DEF Archived
  <1> DEFINE row(i) == [rows[i] EXCEPT !.linked = FALSE]
  <1>3. Unlinked(rows) = [i \in 1 .. Len(rows) |-> row(i)]
    BY DEF Unlinked
  <1>4. \A i \in 1 .. Len(rows) :
           row(i) \in Archived /\ row(i).octets = rows[i].octets /\ ~row(i).linked
    BY <1>2
  <1> HIDE DEF row
  <1>5. [i \in 1 .. Len(rows) |-> row(i)] \in Seq(Archived)
    BY <1>4
  <1> QED
    BY <1>3, <1>4, <1>5

LEMMA AccountingTypeNext == AccountingTypeOK /\ [Next]_vars => AccountingTypeOK'
  <1> SUFFICES ASSUME AccountingTypeOK, [Next]_vars PROVE AccountingTypeOK'
    OBVIOUS
  <1>1. CASE \E s \in Sessions : Connect(s) \/ Transfer(s) \/ Update(s) \/ Disconnect(s)
    BY <1>1, AccountingTypeRouter
  <1>2. CASE \E p \in net : Forget(p)
    BY <1>2, AccountingTypeFault DEF Forget, Disturbed, AccountingTypeOK, tables
  <1>3. CASE \E h \in Handlers, p \in net : Receive(h, p)
    BY <1>3, AccountingTypeReceive
  <1>4. CASE \E h \in Handlers :
                \/ FindDevice(h) \/ InferSessionType(h)
                \/ UpsertActiveSession(h) \/ DeleteActiveSession(h) \/ QueryThrows(h)
    BY <1>4, AccountingTypeHandler
  <1>5. CASE Crash
    BY <1>5, AccountingTypeFault, IdleIsRequest DEF Crash, AccountingTypeOK, tables, wire
  <1>6. CASE DeleteDevice
    <2>1. history' \in [Sessions -> Seq(Archived)]
      BY <1>6, UnlinkedRows DEF DeleteDevice, AccountingTypeOK
    <2> QED
      BY <1>6, <2>1, AccountingTypeFault DEF DeleteDevice, AccountingTypeOK, wire
  <1>7. CASE UNCHANGED vars
    BY <1>7 DEF vars, wire, tables, AccountingTypeOK
  <1> QED
    BY <1>1, <1>2, <1>3, <1>4, <1>5, <1>6, <1>7 DEF Next

(* Every variable keeps its range, for any number of sessions, handlers and *)
(* faults, and for counters of any width (radius-acct.js, db.js).           *)
THEOREM AccountingTypeCorrect == Spec => []AccountingTypeOK
  BY AccountingTypeInit, AccountingTypeNext, PTL DEF Spec
-----------------------------------------------------------------------------
(* No row is lost, and none outlives its device.                            *)
RowsAreKept == NeverInNeither /\ DeletedIsGone

LEMMA RowsInit == Init => RowsAreKept
  BY DEF Init, RowsAreKept, NeverInNeither, DeletedIsGone

LEMMA RowsUpsert ==
  ASSUME AccountingTypeOK, RowsAreKept, NEW s \in Sessions, NEW n \in Nat, UpsertRow(s, n)
  PROVE  RowsAreKept'
  <1>1. n # NoRow
    BY AccountingAssumption DEF AccountingAssumption
  <1>2. CASE registered
    BY <1>1, <1>2 DEF UpsertRow, RowsAreKept, NeverInNeither, DeletedIsGone, AccountingTypeOK
  <1>3. CASE ~registered
    BY <1>3 DEF UpsertRow, RowsAreKept, NeverInNeither, DeletedIsGone
  <1> QED
    BY <1>2, <1>3

(* What the move appends, and to whom. *)
LEMMA Moved ==
  ASSUME AccountingTypeOK, NEW s \in Sessions, NEW n \in Nat, MoveRow(s, n),
         active[s] # NoRow
  PROVE  /\ active'[s] = NoRow
         /\ Len(history'[s]) = Len(history[s]) + 1
         /\ history'[s][Len(history[s]) + 1].octets = Greatest(active[s], n)
         /\ \A i \in 1 .. Len(history[s]) : history'[s][i] = history[s][i]
         /\ \A r \in Sessions : r # s => active'[r] = active[r] /\ history'[r] = history[r]
  <1> DEFINE row == [octets |-> Greatest(active[s], n), linked |-> TRUE]
  <1>1. /\ active' = [active EXCEPT ![s] = NoRow]
        /\ history' = [history EXCEPT ![s] = Append(@, row)]
    BY DEF MoveRow
  <1>2. row \in Archived /\ row.octets = Greatest(active[s], n)
    <2>1. active[s] \in Nat
      BY DEF AccountingTypeOK
    <2> QED
      BY <2>1, GreatestType DEF Archived
  <1> HIDE DEF row
  <1>3. history'[s] = Append(history[s], row) /\ history[s] \in Seq(Archived)
    BY <1>1 DEF AccountingTypeOK
  <1>4. /\ Len(history'[s]) = Len(history[s]) + 1
        /\ history'[s][Len(history[s]) + 1] = row
        /\ \A i \in 1 .. Len(history[s]) : history'[s][i] = history[s][i]
    BY <1>2, <1>3
  <1> QED
    BY <1>1, <1>2, <1>4 DEF AccountingTypeOK

LEMMA RowsMove ==
  ASSUME AccountingTypeOK, RowsAreKept, NEW s \in Sessions, NEW n \in Nat, MoveRow(s, n)
  PROVE  RowsAreKept'
  <1>1. CASE active[s] = NoRow
    BY <1>1 DEF MoveRow, RowsAreKept, NeverInNeither, DeletedIsGone
  <1>2. CASE active[s] # NoRow
    <2>1. registered /\ UNCHANGED <<registered, recorded>>
      BY <1>2 DEF MoveRow, RowsAreKept, DeletedIsGone
    <2>2. history[s] \in Seq(Archived)
      BY DEF AccountingTypeOK
    <2>3. history'[s] # <<>>
      BY <1>2, <2>2, Moved
    <2>4. ASSUME NEW r \in recorded PROVE active'[r] # NoRow \/ history'[r] # <<>>
      BY <1>2, <2>1, <2>3, Moved DEF RowsAreKept, NeverInNeither, AccountingTypeOK
    <2> QED
      BY <2>1, <2>4 DEF RowsAreKept, NeverInNeither, DeletedIsGone
  <1> QED
    BY <1>1, <1>2

LEMMA RowsNext == AccountingTypeOK /\ RowsAreKept /\ [Next]_vars => RowsAreKept'
  <1> SUFFICES ASSUME AccountingTypeOK, RowsAreKept, [Next]_vars PROVE RowsAreKept'
    OBVIOUS
  <1>1. ASSUME NEW h \in Handlers, UpsertActiveSession(h) PROVE RowsAreKept'
    BY <1>1, HandledPacket, RowsUpsert DEF UpsertActiveSession
  <1>2. ASSUME NEW h \in Handlers, DeleteActiveSession(h) PROVE RowsAreKept'
    BY <1>2, HandledPacket, RowsMove DEF DeleteActiveSession
  <1>3. CASE DeleteDevice
    BY <1>3, UnlinkedRows
    DEF DeleteDevice, RowsAreKept, NeverInNeither, DeletedIsGone, AccountingTypeOK
  <1>4. CASE UNCHANGED tables
    BY <1>4 DEF tables, RowsAreKept, NeverInNeither, DeletedIsGone
  <1>5. \/ UNCHANGED tables \/ DeleteDevice
        \/ \E h \in Handlers : UpsertActiveSession(h) \/ DeleteActiveSession(h)
    BY DEF Next, Connect, Transfer, Update, Disconnect, Send, Forget, Receive,
           FindDevice, InferSessionType, QueryThrows, Crash, vars
  <1> QED
    BY <1>1, <1>2, <1>3, <1>4, <1>5

(* A recorded session is in one of the two tables, whatever is lost,        *)
(* repeated or overtaken, unless its device was deleted (deleteActiveSession*)
(* moves the row in one statement).                                         *)
THEOREM RecordedStay == Spec => []NeverInNeither
  <1>1. RowsAreKept => NeverInNeither
    BY DEF RowsAreKept
  <1> QED
    BY <1>1, AccountingTypeInit, AccountingTypeNext, RowsInit, RowsNext, PTL DEF Spec

(* Nothing active and no link is left of a deleted device, also by handlers *)
(* that found it before (migration 0010, the foreign keys).                 *)
THEOREM DeletedDevicesAreGone == Spec => []DeletedIsGone
  <1>1. RowsAreKept => DeletedIsGone
    BY DEF RowsAreKept
  <1> QED
    BY <1>1, AccountingTypeInit, AccountingTypeNext, RowsInit, RowsNext, PTL DEF Spec

-----------------------------------------------------------------------------
(* The archive. *)
ArchiveStep ==
    \A s \in Sessions :
        /\ Len(history[s]) <= Len(history'[s])
        /\ \A i \in 1 .. Len(history[s]) : history'[s][i].octets = history[s][i].octets

LEMMA ArchiveMove ==
  ASSUME AccountingTypeOK, NEW s \in Sessions, NEW n \in Nat, MoveRow(s, n)
  PROVE  ArchiveStep
  <1>0. \A r \in Sessions : Len(history[r]) \in Nat
    BY DEF AccountingTypeOK
  <1>1. CASE active[s] = NoRow
    BY <1>0, <1>1 DEF MoveRow, ArchiveStep
  <1>2. CASE active[s] # NoRow
    BY <1>0, <1>2, Moved DEF ArchiveStep
  <1> QED
    BY <1>1, <1>2

LEMMA ArchiveNext == AccountingTypeOK /\ [Next]_vars => ArchiveStep
  <1> SUFFICES ASSUME AccountingTypeOK, [Next]_vars PROVE ArchiveStep
    OBVIOUS
  <1>0. \A r \in Sessions : Len(history[r]) \in Nat
    BY DEF AccountingTypeOK
  <1>1. ASSUME NEW h \in Handlers, DeleteActiveSession(h) PROVE ArchiveStep
    BY <1>1, HandledPacket, ArchiveMove DEF DeleteActiveSession
  <1>2. CASE DeleteDevice
    BY <1>0, <1>2, UnlinkedRows DEF DeleteDevice, ArchiveStep, AccountingTypeOK
  <1>3. CASE UNCHANGED history
    BY <1>0, <1>3 DEF ArchiveStep
  <1>4. \/ UNCHANGED history \/ DeleteDevice
        \/ \E h \in Handlers : DeleteActiveSession(h)
    BY DEF Next, Connect, Transfer, Update, Disconnect, Send, Forget, Receive,
           FindDevice, InferSessionType, UpsertActiveSession, UpsertRow, QueryThrows,
           Crash, vars, tables
  <1> QED
    BY <1>1, <1>2, <1>3, <1>4

(* The accounting trail is permanent: an archived row stays, with its       *)
(* octets, whatever happens to the device (migration 0010).                 *)
THEOREM TrailIsPermanent == Spec => HistoryIsPermanent
  <1>1. AccountingTypeOK /\ [Next]_vars => [ArchiveStep]_vars
    BY ArchiveNext
  <1> QED
    BY <1>1, AccountingTypeInit, AccountingTypeNext, PTL
    DEF Spec, HistoryIsPermanent, ArchiveStep
-----------------------------------------------------------------------------
(* What the packets say, and what is on its way for a session.              *)
Works(h, s) == handler[h].pc # "idle" /\ handler[h].packet.s = s

Truthful(p) ==
    /\ p.octets <= used[p.s] /\ session[p.s] # "new"
    /\ p.type = "Stop" => session[p.s] = "over" /\ p.octets = used[p.s] % WordSize

PacketsAreTrue ==
    /\ \A p \in net : Truthful(p)
    /\ \A h \in Handlers : handler[h].pc # "idle" => Truthful(handler[h].packet)
    /\ \A h \in Handlers :
          /\ handler[h].pc = "stop" => handler[h].packet.type = "Stop"
          /\ handler[h].pc \in {"type", "upsert"} => handler[h].packet.type # "Stop"

RowsWithinUse ==
    \A s \in Sessions :
        /\ active[s] # NoRow => active[s] <= used[s]
        /\ \A i \in 1 .. Len(history[s]) : history[s][i].octets <= used[s]

(* One packet of the session at a time ...                                  *)
Alone(s) ==
    /\ \A p, q \in net : p.s = s /\ q.s = s => p = q
    /\ \A p \in net, h \in Handlers : p.s = s => ~Works(h, s)
    /\ \A h, k \in Handlers : Works(h, s) /\ Works(k, s) => h = k

(* ... and the last of them is its Stop.                                    *)
Stopping(s) ==
    /\ \A p \in net : p.s = s => p.type = "Stop"
    /\ \A h \in Handlers : Works(h, s) => handler[h].packet.type = "Stop"

Exact(s) ==
    /\ active[s] = NoRow /\ Len(history[s]) = 1
    /\ used[s] < WordSize => history[s][1].octets = used[s]

Orderly(s) ==
    /\ registered /\ Alone(s)
    /\ session[s] = "new" => ~InFlight(s) /\ active[s] = NoRow
    /\ session[s] # "over" => history[s] = <<>>
    /\ session[s] = "up" /\ ~InFlight(s) => active[s] # NoRow
    /\ session[s] = "over" /\ InFlight(s) =>
          active[s] # NoRow /\ history[s] = <<>> /\ Stopping(s)
    /\ session[s] = "over" /\ ~InFlight(s) => Exact(s)

UseInv ==
    /\ PacketsAreTrue /\ RowsWithinUse
    /\ \A s \in orderly : Orderly(s)

LEMMA UseInit == Init => UseInv
  <1> SUFFICES ASSUME Init PROVE UseInv
    OBVIOUS
  <1>1. \A h \in Handlers : handler[h].pc = "idle"
    BY IdleIsRequest DEF Init
  <1>2. PacketsAreTrue /\ RowsWithinUse
    BY <1>1 DEF Init, PacketsAreTrue, RowsWithinUse
  <1>3. \A s \in orderly : Orderly(s)
    BY <1>1 DEF Init, Orderly, Alone, InFlight, Works
  <1> QED
    BY <1>2, <1>3 DEF UseInv

(* A session whose packets, rows and state a step leaves alone stays as it  *)
(* was.                                                                     *)
LEMMA Undisturbed ==
  ASSUME NEW s \in Sessions, Orderly(s),
         \A p \in net \cup net' : p.s = s => p \in net /\ p \in net',
         \A h \in Handlers : handler'[h] = handler[h] \/ (~Works(h, s) /\ ~Works(h, s)'),
         registered' = registered, session'[s] = session[s], used'[s] = used[s],
         active'[s] = active[s], history'[s] = history[s]
  PROVE  Orderly(s)'
  <1>1. \A h \in Handlers : Works(h, s)' <=> Works(h, s)
    BY DEF Works
  <1>2. \A h \in Handlers : Works(h, s) => handler'[h] = handler[h]
    OBVIOUS
  <1>3. InFlight(s) <=> (\E p \in net : p.s = s) \/ \E h \in Handlers : Works(h, s)
    BY DEF InFlight, Works
  <1>4. InFlight(s)' <=> (\E p \in net' : p.s = s) \/ \E h \in Handlers : Works(h, s)'
    BY DEF InFlight, Works
  <1>5. InFlight(s)' <=> InFlight(s)
    BY <1>1, <1>3, <1>4
  <1>6. Alone(s)'
    BY <1>1 DEF Orderly, Alone
  <1>7. Stopping(s) => Stopping(s)'
    BY <1>1, <1>2 DEF Stopping
  <1>8. Exact(s) => Exact(s)'
    BY DEF Exact
  <1> QED
    BY <1>5, <1>6, <1>7, <1>8 DEF Orderly

LEMMA PacketTypes ==
  ASSUME AccountingTypeOK, NEW p \in Packets
  PROVE  p.s \in Sessions /\ p.octets \in Nat /\ used[p.s] \in Nat
  BY AccountingAssumption DEF AccountingTypeOK, Packets, AccountingAssumption

LEMMA ArchivedOctets ==
  ASSUME AccountingTypeOK, NEW s \in Sessions
  PROVE  \A i \in 1 .. Len(history[s]) : history[s][i].octets \in Nat
  <1>1. history[s] \in Seq(Archived)
    BY DEF AccountingTypeOK
  <1>2. \A i \in 1 .. Len(history[s]) : history[s][i] \in Archived
    BY <1>1
  <1> QED
    BY <1>2 DEF Archived

(* The router: sessions go on, and packets are sent. *)
LEMMA TruthStays ==
  ASSUME AccountingTypeOK, NEW s \in Sessions,
         Connect(s) \/ Transfer(s) \/ Update(s) \/ Disconnect(s),
         NEW p \in Packets, Truthful(p)
  PROVE  Truthful(p)'
  <1>1. p.s \in Sessions /\ p.octets \in Nat /\ used[p.s] \in Nat
    BY PacketTypes
  <1>2. /\ used'[p.s] \in {used[p.s], used[p.s] + 1}
        /\ session[p.s] = "over" => used'[p.s] = used[p.s] /\ session'[p.s] = "over"
        /\ session[p.s] # "new" => session'[p.s] # "new"
    BY <1>1 DEF Connect, Transfer, Update, Disconnect, AccountingTypeOK
  <1> QED
    BY <1>1, <1>2 DEF Truthful

LEMMA UseRouterPackets ==
  ASSUME AccountingTypeOK, UseInv, NEW s \in Sessions,
         Connect(s) \/ Transfer(s) \/ Update(s) \/ Disconnect(s)
  PROVE  PacketsAreTrue' /\ RowsWithinUse'
  <1>1. ASSUME NEW type \in {"Start", "Interim-Update", "Stop"}, Send(s, type),
               UNCHANGED used, session'[s] # "new",
               type = "Stop" => session'[s] = "over"
        PROVE  \A p \in net' \ net : Truthful(p)'
    <2>1. \A p \in net' \ net :
             p = [type |-> type, s |-> s, octets |-> used[s] % WordSize]
      BY <1>1 DEF Send
    <2>2. used[s] % WordSize <= used[s]
      BY SentPacket
    <2> QED
      BY <1>1, <2>1, <2>2 DEF Truthful
  <1>2. \A p \in net' \ net : Truthful(p)'
    <2>1. CASE Connect(s)
      BY <1>1, <2>1 DEF Connect, AccountingTypeOK
    <2>2. CASE Transfer(s)
      BY <2>2 DEF Transfer
    <2>3. CASE Update(s)
      BY <1>1, <2>3 DEF Update, AccountingTypeOK
    <2>4. CASE Disconnect(s)
      BY <1>1, <2>4 DEF Disconnect, AccountingTypeOK
    <2> QED
      BY <2>1, <2>2, <2>3, <2>4
  <1>3. UNCHANGED <<handler, tables>>
    BY DEF Connect, Transfer, Update, Disconnect, Send
  <1>4. PacketsAreTrue'
    BY <1>2, <1>3, TruthStays DEF UseInv, PacketsAreTrue, AccountingTypeOK
  <1>5. \A r \in Sessions : used[r] \in Nat /\ used'[r] \in {used[r], used[r] + 1}
    BY DEF Connect, Transfer, Update, Disconnect, AccountingTypeOK
  <1>6. RowsWithinUse'
    <2>1. ASSUME NEW r \in Sessions
          PROVE  /\ active[r] # NoRow => active[r] <= used'[r]
                 /\ \A i \in 1 .. Len(history[r]) : history[r][i].octets <= used'[r]
      <3>1. active[r] # NoRow => active[r] \in Nat
        BY DEF AccountingTypeOK
      <3>2. \A i \in 1 .. Len(history[r]) : history[r][i].octets \in Nat
        BY ArchivedOctets
      <3> QED
        BY <1>5, <3>1, <3>2 DEF UseInv, RowsWithinUse
    <2> QED
      BY <1>3, <2>1 DEF RowsWithinUse, tables
  <1> QED
    BY <1>4, <1>6

(* A session that sends while nothing of it is on its way has one packet    *)
(* on its way.                                                              *)
LEMMA Sent ==
  ASSUME AccountingTypeOK, NEW s \in Sessions,
         NEW type \in {"Start", "Interim-Update", "Stop"}, Send(s, type), ~InFlight(s)
  PROVE  /\ InFlight(s)' /\ Alone(s)'
         /\ type = "Stop" => Stopping(s)'
  <1> DEFINE pkt == [type |-> type, s |-> s, octets |-> used[s] % WordSize]
  <1>1. net' = net \cup {pkt} /\ handler' = handler
    BY DEF Send
  <1>2. pkt.s = s /\ pkt.type = type
    OBVIOUS
  <1> HIDE DEF pkt
  <1>3. (\A p \in net : p.s # s) /\ \A h \in Handlers : ~Works(h, s)
    BY DEF InFlight, Works
  <1>4. \A h \in Handlers : ~Works(h, s)'
    BY <1>1, <1>3 DEF Works
  <1>5. InFlight(s)'
    BY <1>1, <1>2 DEF InFlight
  <1>6. Alone(s)'
    BY <1>1, <1>2, <1>3, <1>4 DEF Alone
  <1>7. type = "Stop" => Stopping(s)'
    BY <1>1, <1>2, <1>3, <1>4 DEF Stopping
  <1> QED
    BY <1>5, <1>6, <1>7

LEMMA UseRouter ==
  ASSUME AccountingTypeOK, UseInv, NEW s \in Sessions,
         Connect(s) \/ Transfer(s) \/ Update(s) \/ Disconnect(s)
  PROVE  UseInv'
  <1>1. /\ UNCHANGED <<handler, tables>> /\ orderly' \subseteq orderly
        /\ net \subseteq net' /\ \A p \in net' \ net : p.s = s
        /\ \A r \in Sessions : r # s => session'[r] = session[r] /\ used'[r] = used[r]
    BY DEF Connect, Transfer, Update, Disconnect, Send, AccountingTypeOK
  <1>2. ASSUME NEW r \in orderly', r # s
        PROVE  Orderly(r)'
    <2>1. r \in Sessions /\ Orderly(r)
      BY <1>1, <1>2 DEF UseInv, AccountingTypeOK
    <2> QED
      BY <1>1, <1>2, <2>1, Undisturbed DEF tables
  <1>3. ASSUME s \in orderly'
        PROVE  Orderly(s)'
    <2>1. Orderly(s)
      BY <1>1, <1>3 DEF UseInv
    <2>2. CASE Connect(s)
      <3>1. Send(s, "Start") /\ session[s] = "new" /\ session'[s] = "up"
        BY <2>2 DEF Connect, AccountingTypeOK
      <3>2. ~InFlight(s)
        BY <2>1, <3>1 DEF Orderly
      <3> QED
        BY <1>1, <2>1, <3>1, <3>2, Sent DEF Orderly, tables
    <2>3. CASE Transfer(s)
      <3>1. session[s] = "up" /\ session' = session /\ net' = net
        BY <2>3 DEF Transfer
      <3>2. InFlight(s)' <=> InFlight(s)
        BY <1>1, <3>1 DEF InFlight
      <3>3. Alone(s)'
        BY <1>1, <2>1, <3>1 DEF Orderly, Alone, Works
      <3> QED
        BY <1>1, <2>1, <3>1, <3>2, <3>3 DEF Orderly, tables
    <2>4. CASE Update(s)
      <3>1. Send(s, "Interim-Update") /\ session[s] = "up" /\ session' = session
        BY <2>4 DEF Update
      <3>2. ~InFlight(s)
        BY <1>3, <3>1 DEF Send
      <3> QED
        BY <1>1, <2>1, <3>1, <3>2, Sent DEF Orderly, tables
    <2>5. CASE Disconnect(s)
      <3>1. Send(s, "Stop") /\ session[s] = "up" /\ session'[s] = "over"
        BY <2>5 DEF Disconnect, AccountingTypeOK
      <3>2. ~InFlight(s)
        BY <1>3, <3>1 DEF Send
      <3> QED
        BY <1>1, <2>1, <3>1, <3>2, Sent DEF Orderly, tables
    <2> QED
      BY <2>2, <2>3, <2>4, <2>5
  <1> QED
    BY <1>2, <1>3, UseRouterPackets DEF UseInv

(* Packets only go: forgotten, or with the handlers that worked on them.    *)
LEMMA PacketsGo ==
  ASSUME AccountingTypeOK, PacketsAreTrue, net' \subseteq net,
         \A h \in Handlers : handler'[h].pc # "idle" => handler'[h] = handler[h],
         UNCHANGED <<session, used>>
  PROVE  PacketsAreTrue'
  BY DEF PacketsAreTrue, Truthful

LEMMA UseForget ==
  ASSUME AccountingTypeOK, UseInv, NEW p \in net, Forget(p)
  PROVE  UseInv'
  <1>1. PacketsAreTrue' /\ RowsWithinUse'
    BY PacketsGo DEF UseInv, Forget, tables, RowsWithinUse
  <1>2. ASSUME NEW r \in orderly' PROVE Orderly(r)'
    <2>1. r \in Sessions /\ Orderly(r) /\ p.s # r
      BY <1>2 DEF UseInv, AccountingTypeOK, Forget, Disturbed
    <2> QED
      BY <2>1, Undisturbed DEF Forget, tables
  <1> QED
    BY <1>1, <1>2 DEF UseInv

(* A packet goes from the network to a handler, or is there twice.          *)
LEMMA UseReceive ==
  ASSUME AccountingTypeOK, UseInv, NEW h \in Handlers, NEW p \in net, Receive(h, p)
  PROVE  UseInv'
  <1>1. /\ handler[h].pc = "idle" /\ handler'[h].pc = "device" /\ handler'[h].packet = p
        /\ \A k \in Handlers : k # h => handler'[k] = handler[k]
    BY IdleIsRequest DEF Receive, AccountingTypeOK
  <1>2. net' \subseteq net /\ UNCHANGED <<session, used, tables>>
    BY DEF Receive
  <1>3. PacketsAreTrue'
    BY <1>1, <1>2 DEF UseInv, PacketsAreTrue, Truthful
  <1>4. RowsWithinUse'
    BY <1>2 DEF UseInv, RowsWithinUse, tables
  <1>5. ASSUME NEW r \in orderly' PROVE Orderly(r)'
    <2>1. r \in Sessions /\ Orderly(r)
      BY <1>5 DEF UseInv, AccountingTypeOK, Receive, Disturbed
    <2>2. CASE p.s # r
      <3>1. \A q \in net : q.s = r => q \in net'
        BY <2>2 DEF Receive
      <3>2. ~Works(h, r) /\ ~Works(h, r)'
        BY <1>1, <2>2 DEF Works
      <3> QED
        BY <1>1, <1>2, <2>1, <3>1, <3>2, Undisturbed DEF tables
    <2>3. CASE p.s = r
      <3>1. net' = net \ {p}
        BY <1>5, <2>3 DEF Receive, Disturbed
      <3>2. \A k \in Handlers : ~Works(k, r)
        BY <2>1, <2>3 DEF Orderly, Alone
      <3>3. \A k \in Handlers : Works(k, r)' <=> k = h
        BY <1>1, <2>3, <3>2 DEF Works
      <3>4. \A q \in net' : q.s # r
        BY <2>1, <2>3, <3>1 DEF Orderly, Alone
      <3>5. Alone(r)'
        BY <3>3, <3>4 DEF Alone
      <3>6. Stopping(r) => Stopping(r)'
        BY <1>1, <2>3, <3>3, <3>4 DEF Stopping
      <3>7. InFlight(r) /\ InFlight(r)'
        BY <1>1, <2>3 DEF InFlight
      <3> QED
        BY <1>2, <2>1, <3>5, <3>6, <3>7 DEF Orderly, tables
    <2> QED
      BY <2>2, <2>3
  <1> QED
    BY <1>3, <1>4, <1>5 DEF UseInv

(* A handler goes on to its next query with the same packet.                *)
LEMMA UseGoto ==
  ASSUME AccountingTypeOK, UseInv, NEW h \in Handlers, handler[h].pc # "idle",
         NEW pc \in {"type", "upsert", "stop"}, Goto(h, pc),
         pc = "stop" <=> handler[h].packet.type = "Stop",
         UNCHANGED <<wire, tables, orderly>>
  PROVE  UseInv'
  <1>1. /\ \A k \in Handlers : handler'[k].packet = handler[k].packet
        /\ \A k \in Handlers : handler'[k].pc = IF k = h THEN pc ELSE handler[k].pc
    BY GotoType
  <1>2. PacketsAreTrue'
    BY <1>1 DEF UseInv, PacketsAreTrue, Truthful, wire
  <1>3. RowsWithinUse'
    BY DEF UseInv, RowsWithinUse, tables, wire
  <1>4. \A r \in Sessions, k \in Handlers : Works(k, r)' <=> Works(k, r)
    BY <1>1 DEF Works
  <1>5. ASSUME NEW r \in orderly' PROVE Orderly(r)'
    <2>1. r \in Sessions /\ Orderly(r)
      BY <1>5 DEF UseInv, AccountingTypeOK
    <2>2. InFlight(r)' <=> InFlight(r)
      BY <1>1 DEF InFlight, wire
    <2>3. (Alone(r) => Alone(r)') /\ (Stopping(r) => Stopping(r)')
      BY <1>1, <1>4, <2>1 DEF Alone, Stopping, wire
    <2>4. Exact(r) => Exact(r)'
      BY DEF Exact, tables, wire
    <2> QED
      BY <2>1, <2>2, <2>3, <2>4 DEF Orderly, tables, wire
  <1> QED
    BY <1>2, <1>3, <1>5 DEF UseInv

(* The last handler of an orderly session's packet leaves nothing on its    *)
(* way.                                                                     *)
LEMMA AfterDone ==
  ASSUME AccountingTypeOK, NEW h \in Handlers, NEW s \in Sessions, Works(h, s), Alone(s),
         Done(h), net' = net
  PROVE  InFlight(s) /\ ~InFlight(s)' /\ Alone(s)'
  <1>1. handler'[h].pc = "idle" /\ \A k \in Handlers : k # h => handler'[k] = handler[k]
    BY DoneType
  <1>2. (\A p \in net : p.s # s) /\ \A k \in Handlers : k # h => ~Works(k, s)
    BY DEF Alone
  <1>3. \A k \in Handlers : ~Works(k, s)'
    BY <1>1, <1>2 DEF Works
  <1> QED
    BY <1>2, <1>3 DEF Works, InFlight, Alone

(* A handler that is done disturbs no other session. *)
LEMMA OthersAfterDone ==
  ASSUME AccountingTypeOK, NEW h \in Handlers, Done(h), NEW r \in Sessions, ~Works(h, r),
         Orderly(r), net' = net, registered' = registered,
         UNCHANGED <<session, used>>, active'[r] = active[r], history'[r] = history[r]
  PROVE  Orderly(r)'
  <1>1. handler'[h].pc = "idle" /\ \A k \in Handlers : k # h => handler'[k] = handler[k]
    BY DoneType
  <1>2. ~Works(h, r)'
    BY <1>1 DEF Works
  <1> QED
    BY <1>1, <1>2, Undisturbed

LEMMA UseUpsert ==
  ASSUME AccountingTypeOK, UseInv, NEW h \in Handlers, UpsertActiveSession(h)
  PROVE  UseInv'
  <1>0. PICK s, n : s = handler[h].packet.s /\ n = handler[h].packet.octets
    OBVIOUS
  <1>1. /\ Done(h) /\ UpsertRow(s, n) /\ UNCHANGED <<wire, orderly>>
        /\ handler[h].pc = "upsert"
    BY <1>0 DEF UpsertActiveSession
  <1>2. s \in Sessions /\ n \in Nat /\ n # NoRow /\ Works(h, s)
    BY <1>0, <1>1, HandledPacket, AccountingAssumption DEF AccountingAssumption, Works
  <1>3. n <= used[s] /\ session[s] # "new" /\ handler[h].packet.type # "Stop"
    BY <1>0, <1>1 DEF UseInv, PacketsAreTrue, Truthful
  <1>4. PacketsAreTrue'
    BY <1>1, PacketsGo, DoneType DEF UseInv, wire
  <1>5. /\ UNCHANGED <<registered, history>>
        /\ \A r \in Sessions : r # s => active'[r] = active[r]
        /\ active'[s] \in {active[s], n} /\ (registered => active'[s] = n)
    BY <1>1, <1>2 DEF UpsertRow, AccountingTypeOK
  <1>6. RowsWithinUse'
    BY <1>1, <1>2, <1>3, <1>5 DEF UseInv, RowsWithinUse, wire
  <1>7. ASSUME NEW r \in orderly' PROVE Orderly(r)'
    <2>1. r \in Sessions /\ Orderly(r)
      BY <1>1, <1>7 DEF UseInv, AccountingTypeOK
    <2>2. CASE r # s
      <3>1. ~Works(h, r)
        BY <1>0, <2>2 DEF Works
      <3> QED
        BY <1>1, <1>5, <2>1, <2>2, <3>1, OthersAfterDone DEF wire
    <2>3. CASE r = s
      <3>1. InFlight(s) /\ ~InFlight(s)' /\ Alone(s)'
        BY <1>1, <1>2, <2>1, <2>3, AfterDone DEF Orderly, wire
      <3>2. session[s] = "up"
        <4>1. ~Stopping(s)
          BY <1>0, <1>2, <1>3 DEF Stopping
        <4> QED
          BY <1>2, <1>3, <2>1, <2>3, <3>1, <4>1 DEF Orderly, AccountingTypeOK
      <3> QED
        BY <1>1, <1>2, <1>5, <2>1, <2>3, <3>1, <3>2 DEF Orderly, wire
    <2> QED
      BY <2>2, <2>3
  <1> QED
    BY <1>4, <1>6, <1>7 DEF UseInv

LEMMA UseDelete ==
  ASSUME AccountingTypeOK, UseInv, NEW h \in Handlers, DeleteActiveSession(h)
  PROVE  UseInv'
  <1>0. PICK s, n : s = handler[h].packet.s /\ n = handler[h].packet.octets
    OBVIOUS
  <1>1. /\ Done(h) /\ MoveRow(s, n) /\ UNCHANGED <<wire, orderly>>
        /\ handler[h].pc = "stop"
    BY <1>0 DEF DeleteActiveSession
  <1>2. s \in Sessions /\ n \in Nat /\ Works(h, s)
    BY <1>0, <1>1, HandledPacket DEF Works
  <1>3. n <= used[s] /\ session[s] = "over" /\ n = used[s] % WordSize
    BY <1>0, <1>1 DEF UseInv, PacketsAreTrue, Truthful
  <1>4. PacketsAreTrue'
    BY <1>1, PacketsGo, DoneType DEF UseInv, wire
  <1>5. UNCHANGED registered /\ \A r \in Sessions : r # s =>
                                   active'[r] = active[r] /\ history'[r] = history[r]
    BY <1>1, <1>2, Moved DEF MoveRow
  <1>6. \A r \in Sessions : Len(history[r]) \in Nat
    BY DEF AccountingTypeOK
  <1>7. active[s] # NoRow =>
           active[s] \in Nat /\ active[s] <= used[s] /\ used[s] \in Nat
    BY <1>2 DEF UseInv, RowsWithinUse, AccountingTypeOK
  <1>8. RowsWithinUse'
    <2>1. ASSUME NEW r \in Sessions
          PROVE  /\ active'[r] # NoRow => active'[r] <= used[r]
                 /\ \A i \in 1 .. Len(history'[r]) : history'[r][i].octets <= used[r]
      <3>1. CASE r # s \/ active[s] = NoRow
        <4>1. active'[r] = active[r] /\ history'[r] = history[r]
          BY <1>1, <1>5, <3>1 DEF MoveRow
        <4> QED
          BY <4>1 DEF UseInv, RowsWithinUse
      <3>2. CASE r = s /\ active[s] # NoRow
        <4>1. Greatest(active[s], n) <= used[s]
          BY <1>2, <1>3, <1>7, <3>2, GreatestType
        <4>2. /\ active'[s] = NoRow /\ Len(history'[s]) = Len(history[s]) + 1
              /\ history'[s][Len(history[s]) + 1].octets = Greatest(active[s], n)
              /\ \A i \in 1 .. Len(history[s]) : history'[s][i] = history[s][i]
          BY <1>1, <1>2, <3>2, Moved
        <4>3. \A i \in 1 .. Len(history'[s]) :
                 i \in 1 .. Len(history[s]) \/ i = Len(history[s]) + 1
          BY <1>2, <1>6, <4>2
        <4>4. \A i \in 1 .. Len(history[s]) : history[s][i].octets <= used[s]
          BY <1>2 DEF UseInv, RowsWithinUse
        <4> QED
          BY <3>2, <4>1, <4>2, <4>3, <4>4
      <3> QED
        BY <3>1, <3>2
    <2> QED
      BY <1>1, <2>1 DEF RowsWithinUse, wire
  <1>9. ASSUME NEW r \in orderly' PROVE Orderly(r)'
    <2>1. r \in Sessions /\ Orderly(r)
      BY <1>1, <1>9 DEF UseInv, AccountingTypeOK
    <2>2. CASE r # s
      <3>1. ~Works(h, r)
        BY <1>0, <2>2 DEF Works
      <3> QED
        BY <1>1, <1>5, <2>1, <2>2, <3>1, OthersAfterDone DEF wire
    <2>3. CASE r = s
      <3>1. InFlight(s) /\ ~InFlight(s)' /\ Alone(s)'
        BY <1>1, <1>2, <2>1, <2>3, AfterDone DEF Orderly, wire
      <3>2. active[s] # NoRow /\ Len(history[s]) = 0
        BY <1>3, <2>1, <2>3, <3>1 DEF Orderly
      <3>3. used[s] < WordSize => Greatest(active[s], n) = used[s]
        <4>1. used[s] < WordSize => n = used[s]
          BY <1>2, <1>3, SentPacket
        <4> QED
          BY <1>7, <3>2, <4>1 DEF Greatest
      <3>4. /\ active'[s] = NoRow /\ Len(history'[s]) = 1
            /\ history'[s][1].octets = Greatest(active[s], n)
        <4>1. /\ active'[s] = NoRow /\ Len(history'[s]) = Len(history[s]) + 1
              /\ history'[s][Len(history[s]) + 1].octets = Greatest(active[s], n)
          BY <1>1, <1>2, <3>2, Moved
        <4> QED
          BY <3>2, <4>1
      <3>5. Exact(s)'
        BY <1>1, <3>3, <3>4 DEF Exact, wire
      <3> QED
        BY <1>1, <1>3, <1>5, <2>1, <2>3, <3>1, <3>5 DEF Orderly, wire
    <2> QED
      BY <2>2, <2>3
  <1> QED
    BY <1>4, <1>8, <1>9 DEF UseInv

LEMMA UseDeleteDevice ==
  ASSUME AccountingTypeOK, UseInv, DeleteDevice
  PROVE  UseInv'
  <1>1. PacketsAreTrue'
    BY DEF DeleteDevice, UseInv, PacketsAreTrue, Truthful, wire
  <1>2. RowsWithinUse'
    <2>1. \A s \in Sessions : active'[s] = NoRow /\ history'[s] = Unlinked(history[s])
      BY DEF DeleteDevice
    <2>2. ASSUME NEW s \in Sessions
          PROVE  \A i \in 1 .. Len(history'[s]) : history'[s][i].octets <= used[s]
      <3>1. /\ Len(history'[s]) = Len(history[s])
            /\ \A i \in 1 .. Len(history[s]) : history'[s][i].octets = history[s][i].octets
        BY <2>1, UnlinkedRows DEF AccountingTypeOK
      <3> QED
        BY <3>1 DEF UseInv, RowsWithinUse
    <2> QED
      BY <2>1, <2>2 DEF RowsWithinUse, DeleteDevice, wire
  <1> QED
    BY <1>1, <1>2 DEF UseInv, DeleteDevice

LEMMA UseLost ==
  ASSUME AccountingTypeOK, UseInv,
         Crash \/ \E h \in Handlers : QueryThrows(h)
  PROVE  UseInv'
  <1>1. /\ \A h \in Handlers : handler'[h].pc # "idle" => handler'[h] = handler[h]
        /\ UNCHANGED <<wire, tables>>
    BY DoneType, IdleIsRequest DEF Crash, QueryThrows
  <1>2. PacketsAreTrue' /\ RowsWithinUse'
    BY <1>1, PacketsGo DEF UseInv, RowsWithinUse, wire, tables
  <1>3. ASSUME NEW r \in orderly'
        PROVE  r \in orderly /\ \A h \in Handlers :
                  handler'[h] = handler[h] \/ (~Works(h, r) /\ ~Works(h, r)')
    <2>1. CASE Crash
      <3>1. \A h \in Handlers : handler[h] # Idle => handler[h].packet.s # r
        BY <1>3, <2>1 DEF Crash
      <3> QED
        BY <1>3, <2>1, <3>1, IdleIsRequest DEF Crash, Works
    <2>2. ASSUME NEW h \in Handlers, QueryThrows(h)
          PROVE  r \in orderly /\ \A k \in Handlers :
                    handler'[k] = handler[k] \/ (~Works(k, r) /\ ~Works(k, r)')
      <3>1. handler[h].packet.s # r /\ r \in orderly /\ Done(h)
        BY <1>3, <2>2 DEF QueryThrows, Disturbed
      <3> QED
        BY <3>1, DoneType DEF Works
    <2> QED
      BY <2>1, <2>2
  <1>4. ASSUME NEW r \in orderly' PROVE Orderly(r)'
    <2>1. r \in Sessions /\ Orderly(r)
      BY <1>3 DEF UseInv, AccountingTypeOK
    <2> QED
      BY <1>1, <1>3, <2>1, Undisturbed DEF wire, tables
  <1> QED
    BY <1>2, <1>4 DEF UseInv

LEMMA UseNext == AccountingTypeOK /\ UseInv /\ [Next]_vars => UseInv'
  <1> SUFFICES ASSUME AccountingTypeOK, UseInv, [Next]_vars PROVE UseInv'
    OBVIOUS
  <1>1. ASSUME NEW h \in Handlers, FindDevice(h) PROVE UseInv'
    <2>1. CASE registered
      <3>1. handler[h].packet.type \in {"Start", "Interim-Update", "Stop"}
        BY <1>1, HandledPacket DEF FindDevice
      <3> QED
        BY <1>1, <2>1, <3>1, UseGoto DEF FindDevice
    <2>2. CASE ~registered
      <3>1. orderly' = {}
        BY <1>1, <2>2 DEF FindDevice, UseInv, Orderly
      <3>2. \A k \in Handlers : handler'[k].pc # "idle" => handler'[k] = handler[k]
        BY <1>1, <2>2, DoneType DEF FindDevice
      <3> QED
        BY <1>1, <3>1, <3>2, PacketsGo DEF FindDevice, UseInv, RowsWithinUse, wire, tables
    <2> QED
      BY <2>1, <2>2
  <1>2. ASSUME NEW h \in Handlers, InferSessionType(h) PROVE UseInv'
    BY <1>2, UseGoto DEF InferSessionType, UseInv, PacketsAreTrue
  <1>3. CASE UNCHANGED vars
    <2>1. PacketsAreTrue' /\ RowsWithinUse'
      BY <1>3, PacketsGo DEF UseInv, RowsWithinUse, vars, wire, tables
    <2>2. ASSUME NEW r \in orderly' PROVE Orderly(r)'
      BY <1>3, <2>2, Undisturbed DEF UseInv, AccountingTypeOK, vars, wire, tables
    <2> QED
      BY <2>1, <2>2 DEF UseInv
  <1> QED
    BY <1>1, <1>2, <1>3, UseRouter, UseForget, UseReceive, UseUpsert, UseDelete,
       UseLost, UseDeleteDevice DEF Next

(* An orderly session that is over and dealt with has left active_sessions  *)
(* and has one archived row with all its octets (handleAccounting,          *)
(* deleteActiveSession).                                                    *)
THEOREM OrderlyIsExactAlways == Spec => []OrderlyIsExact
  <1>1. AccountingTypeOK /\ UseInv => OrderlyIsExact
    BY DEF UseInv, Orderly, Exact, OrderlyIsExact, AccountingTypeOK
  <1> QED
    BY <1>1, AccountingTypeInit, AccountingTypeNext, UseInit, UseNext, PTL DEF Spec

(* The sum over session_history of at most one row is that row's: the fold  *)
(* is a function chosen for its recursion, so one that unfolds as it does   *)
(* has to be shown to exist.                                                *)
LEMMA ReportedOfOne ==
  ASSUME AccountingTypeOK, NEW s \in Sessions,
         history[s] = <<>> \/ Len(history[s]) = 1
  PROVE  Reported(s) = (IF history[s] = <<>> THEN 0 ELSE history[s][1].octets)
                         + (IF active[s] = NoRow THEN 0 ELSE active[s])
  <1> DEFINE D == DOMAIN history[s]
             Unfolds(g) == g = [T \in SUBSET D |->
                IF T = {} THEN 0
                ELSE LET i == CHOOSE i \in T : TRUE IN history[s][i].octets + g[T \ {i}]]
             whole == [T \in SUBSET D |-> IF T = {} THEN 0 ELSE history[s][1].octets]
             sum == CHOOSE g : Unfolds(g)
  <1>1. \/ D = {} /\ history[s] = <<>>
        \/ D = {1} /\ history[s] # <<>> /\ history[s][1].octets \in Nat
    <2>1. history[s] \in Seq(Archived)
      BY DEF AccountingTypeOK
    <2>2. D = 1 .. Len(history[s]) /\ Len(history[s]) \in Nat
      BY <2>1
    <2>3. CASE history[s] = <<>>
      BY <2>3
    <2>4. CASE Len(history[s]) = 1
      <3>1. D = {1} /\ history[s] # <<>>
        BY <2>1, <2>2, <2>4
      <3>2. history[s][1] \in Archived
        BY <2>1, <2>4
      <3>3. history[s][1].octets \in Nat
        BY <3>2 DEF Archived
      <3> QED
        BY <3>1, <3>3
    <2> QED
      BY <2>3, <2>4, Zenon
  <1>2. \A T \in SUBSET D : T = {} \/ (T = {1} /\ history[s][1].octets \in Nat)
    BY <1>1
  <1>3. (CHOOSE i \in {1} : TRUE) = 1 /\ {1} \ {1} = {} /\ {1} # {}
    OBVIOUS
  <1>4. Unfolds(whole)
    <2>1. whole[{}] = 0
      OBVIOUS
    <2>2. ASSUME NEW T \in SUBSET D
          PROVE  whole[T] = IF T = {} THEN 0
                            ELSE LET i == CHOOSE i \in T : TRUE
                                 IN  history[s][i].octets + whole[T \ {i}]
      <3>1. CASE T = {}
        BY <2>1, <3>1
      <3>2. CASE T = {1} /\ history[s][1].octets \in Nat
        <4>1. whole[T] = history[s][1].octets
          BY <3>2
        <4>2. history[s][1].octets + 0 = history[s][1].octets
          BY <3>2
        <4> HIDE DEF whole
        <4>3. (LET i == CHOOSE i \in T : TRUE IN history[s][i].octets + whole[T \ {i}])
                 = history[s][1].octets + whole[{}]
          BY <1>3, <3>2
        <4> QED
          BY <1>3, <2>1, <3>2, <4>1, <4>2, <4>3
      <3> QED
        BY <1>2, <3>1, <3>2
    <2>3. whole = [T \in SUBSET D |-> whole[T]]
      OBVIOUS
    <2> HIDE DEF whole
    <2> QED
      BY <2>2, <2>3
  <1> HIDE DEF whole
  <1>5. Unfolds(sum)
    <2>1. \E g : Unfolds(g)
      BY <1>4
    <2> HIDE DEF Unfolds
    <2> QED
      BY <2>1
  <1>6. Reported(s) = sum[D] + (IF active[s] = NoRow THEN 0 ELSE active[s])
    BY Zenon DEF Reported, MapThenSumSet, MapThenFoldSet
  <1> HIDE DEF sum
  <1>7. sum[{}] = 0
    BY <1>5
  <1>8. CASE D = {1} /\ history[s] # <<>> /\ history[s][1].octets \in Nat
    <2>1. sum[D] = history[s][1].octets + sum[{}]
      BY <1>3, <1>5, <1>8
    <2> QED
      BY <1>6, <1>7, <1>8, <2>1
  <1> QED
    BY <1>1, <1>6, <1>7, <1>8

(* No row ever claims more octets than went through, whatever is lost,      *)
(* resent or overtaken; and of an orderly session the rows of both tables   *)
(* together do not, which is what the customers page adds up.               *)
THEOREM UseIsCountedOnce == Spec => []UseIsNotInflated
  <1>1. ASSUME AccountingTypeOK, UseInv PROVE UseIsNotInflated
    <2>1. RowsWithinUse
      BY <1>1 DEF UseInv
    <2>2. ASSUME NEW s \in Sessions, s \in orderly PROVE Reported(s) <= used[s]
      <3>1. \/ history[s] = <<>>
            \/ active[s] = NoRow /\ Len(history[s]) = 1
        BY <1>1, <2>2 DEF UseInv, Orderly, Exact, AccountingTypeOK
      <3>2. /\ history[s] \in Seq(Archived) /\ active[s] \in Nat \cup {NoRow}
            /\ used[s] \in Nat
        BY <1>1, AccountingAssumption DEF AccountingTypeOK, AccountingAssumption
      <3>3. Reported(s) = (IF history[s] = <<>> THEN 0 ELSE history[s][1].octets)
                            + (IF active[s] = NoRow THEN 0 ELSE active[s])
        BY <1>1, <3>1, ReportedOfOne, Zenon
      <3>4. CASE history[s] = <<>>
        <4>1. active[s] # NoRow => active[s] \in Nat /\ active[s] <= used[s]
          BY <2>1, <3>2 DEF RowsWithinUse
        <4>2. Reported(s) = 0 + (IF active[s] = NoRow THEN 0 ELSE active[s])
          BY <3>3, <3>4
        <4> QED
          BY <3>2, <4>1, <4>2
      <3>5. CASE active[s] = NoRow /\ Len(history[s]) = 1
        <4>1. history[s] # <<>> /\ history[s][1] \in Archived /\ 1 \in 1 .. Len(history[s])
          <5>1. PICK rows \in Seq(Archived) : rows = history[s] /\ Len(rows) = 1
            BY <3>2, <3>5
          <5>2. rows # <<>> /\ rows[1] \in Archived
            BY <5>1
          <5> QED
            BY <3>5, <5>1, <5>2
        <4>2. history[s][1].octets \in Nat /\ history[s][1].octets <= used[s]
          BY <2>1, <4>1 DEF RowsWithinUse, Archived
        <4>3. Reported(s) = history[s][1].octets + 0
          BY <3>3, <3>5, <4>1
        <4> QED
          BY <4>2, <4>3
      <3> QED
        BY <3>1, <3>4, <3>5
    <2> QED
      BY <2>1, <2>2 DEF UseIsNotInflated, RowsWithinUse
  <1> QED
    BY <1>1, AccountingTypeInit, AccountingTypeNext, UseInit, UseNext, PTL DEF Spec
=============================================================================
