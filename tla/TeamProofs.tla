----------------------------- MODULE TeamProofs -----------------------------
(* Theorems about Team, for every value of its constants. *)
EXTENDS Team, FiniteSetTheorems, TLAPS

(***************************************************************************)
(* The inductive invariant                                                 *)
(***************************************************************************)
(* Accounts that had a row, now or earlier. *)
Known == Members \cup left

(* What a call is about, by how far it is. *)
KindOf(pc) ==
    CASE pc \in {"create", "insert", "rollback"} -> {"add"}
      [] pc = "issue" -> {"issue"}
      [] pc \in {"lookup", "count", "audit"} -> {"remove", "role"}
      [] pc \in {"delete", "delete_user"} -> {"remove"}
      [] pc = "update" -> {"role"}
      [] OTHER -> {"none"}

CallsAreShaped ==
    \A r \in Requests : req[r].pc # "idle" =>
        /\ req[r].org \in organizations
        /\ req[r].caller \in Accounts /\ req[r].target \in Accounts
        /\ req[r].kind \in KindOf(req[r].pc)
        /\ req[r].kind \in {"add", "role"} => req[r].role \in Roles

(* An account is either under way to its row, by one of the two ways in,   *)
(* or was given it; only who was given it is changed or removed.           *)
SigningUp(a) == page[a] \in {"signed_up", "refused"}
Adding(r) == req[r].pc \in {"insert", "rollback"}
Changing(r) == req[r].pc \in {"count", "delete", "update"}

NewAccounts ==
    /\ users \subseteq used
    /\ \A a \in Accounts : page[a] = "form" => a \notin used
    /\ \A a \in Accounts : SigningUp(a) => a \in users /\ a \notin Known
    /\ \A r \in Requests : Adding(r) =>
           req[r].target \in users /\ req[r].target \notin Known
    /\ \A r \in Requests :
           Adding(r) \/ req[r].pc = "create" => page[req[r].target] = "closed"
    /\ \A r, s \in Requests :
           Adding(r) /\ Adding(s) /\ r # s => req[r].target # req[s].target

OldAccounts ==
    \A r \in Requests :
        /\ Changing(r) => req[r].target \in Known
        /\ req[r].pc = "delete_user" \/ (req[r].pc = "audit" /\ req[r].kind = "remove") =>
               req[r].target \in left

OneOrganization == organizations = {} \/ \E a \in Accounts : organizations = {a}

(* Unless changes overlap, a call that is about to take an owner away has  *)
(* another one to leave behind.                                            *)
TakesOwner(r) ==
    /\ req[r].pc = "delete" \/ (req[r].pc = "update" /\ req[r].role = "staff")
    /\ admin[req[r].target].role = "owner"
OwnersAreLeft ==
    ~raced =>
        /\ \A org \in organizations : Owners(org) # {}
        /\ \A r \in Requests : TakesOwner(r) =>
               \E o \in Owners(req[r].org) : o # req[r].target

(* An account without a row is being given one, or being deleted. *)
AccountsAreMinded ==
    faults = 0 => \A a \in users :
        \/ a \in Members \/ SigningUp(a)
        \/ \E r \in Requests :
               (Adding(r) \/ req[r].pc = "delete_user") /\ req[r].target = a

(* A removal is recorded by its call, whose caller has a row to name.      *)
Removing(r) == req[r].pc # "idle" /\ req[r].kind = "remove"
RemovalsAreMinded ==
    /\ \A r \in Requests : Removing(r) => req[r].target # req[r].caller
    /\ ~raced => \A r \in Requests : Removing(r) => req[r].caller \in Members
    /\ ~raced /\ faults = 0 => \A t \in left :
           \/ t \in log
           \/ \E r \in Requests :
                  /\ req[r].pc \in {"delete_user", "audit"}
                  /\ req[r].kind = "remove" /\ req[r].target = t

IInv ==
    /\ TeamTypeOK
    /\ CallsAreShaped
    /\ NewAccounts
    /\ OldAccounts
    /\ RemovedStaysRemoved
    /\ OneOrganization
    /\ OwnersAreLeft

(***************************************************************************)
(* How a step changes the calls, the tables and the members                *)
(***************************************************************************)
(* NoAccount is nobody's id, so that a row differs from NoRow. *)
LEMMA RowsAreRows ==
  ASSUME NEW row \in Rows
  PROVE  row # NoRow /\ row.org \in Accounts /\ row.role \in Roles
  BY TeamAssumption DEF TeamAssumption, Rows, NoRow

LEMMA RowType ==
  ASSUME TeamTypeOK, NEW a \in Accounts
  PROVE  /\ a \in Members <=> admin[a] \in Rows
         /\ a \in Members => admin[a].org \in organizations /\ a \in users
         /\ a \notin Members => admin[a] = NoRow
  BY RowsAreRows DEF TeamTypeOK, Members

(* A call that goes on keeps everything but its place. *)
LEMMA GotoKeeps ==
  ASSUME TeamTypeOK, NEW r \in Requests, NEW pc, Goto(r, pc),
         pc \in {"insert", "rollback", "count", "delete", "delete_user", "update", "audit"}
  PROVE  /\ req' \in [Requests -> Calls]
         /\ \A s \in Requests \ {r} : req'[s] = req[s]
         /\ req'[r].pc = pc /\ req'[r].kind = req[r].kind
         /\ req'[r].caller = req[r].caller /\ req'[r].org = req[r].org
         /\ req'[r].target = req[r].target /\ req'[r].role = req[r].role
  <1>1. req \in [Requests -> Calls]
    BY DEF TeamTypeOK
  <1>2. req' = [req EXCEPT ![r] = [req[r] EXCEPT !.pc = pc]]
    BY <1>1 DEF Goto
  <1>3. [req[r] EXCEPT !.pc = pc] \in Calls
    BY <1>1 DEF Calls
  <1> QED
    BY <1>1, <1>2, <1>3 DEF Calls

LEMMA FinishKeeps ==
  ASSUME TeamTypeOK, NEW r \in Requests, Finish(r)
  PROVE  /\ req' \in [Requests -> Calls]
         /\ \A s \in Requests \ {r} : req'[s] = req[s]
         /\ req'[r] = NoCall /\ req'[r].pc = "idle"
  BY DEF TeamTypeOK, Finish, NoCall, Calls

LEMMA FaultType ==
  ASSUME TeamTypeOK, Fault \/ faults' = faults
  PROVE  faults' \in 0 .. MaxFaults
  BY TeamAssumption DEF TeamAssumption, TeamTypeOK, Fault

(* An account without a row takes nothing but itself along. *)
LEMMA DeleteUserKeeps ==
  ASSUME TeamTypeOK, NEW a \in Accounts \ Members, DeleteUser(a)
  PROVE  users' = users \ {a} /\ admin' = admin
  <1>1. admin[a] = NoRow /\ admin \in [Accounts -> Rows \cup {NoRow}]
    BY RowType DEF TeamTypeOK
  <1>2. [admin EXCEPT ![a] = NoRow] = admin
    BY <1>1
  <1> QED
    BY <1>1, <1>2 DEF DeleteUser

(* A call that ends and leaves the accounts alone breaks nothing. *)
LEMMA CallEnds ==
  ASSUME IInv, NEW r \in Requests, Finish(r),
         UNCHANGED <<users, organizations, admin, page, used, left, raced>>,
         authors' \subseteq Accounts, log' \subseteq used, faults' \in 0 .. MaxFaults
  PROVE  IInv'
  <1> USE FinishKeeps DEF IInv
  <1>1. TeamTypeOK'
    BY DEF TeamTypeOK, Members
  <1>2. CallsAreShaped'
    BY DEF CallsAreShaped
  <1>3. NewAccounts'
    BY DEF NewAccounts, SigningUp, Known, Members, Adding
  <1>4. OldAccounts'
    BY DEF OldAccounts, Changing, Known, Members
  <1>5. RemovedStaysRemoved' /\ OneOrganization'
    BY DEF RemovedStaysRemoved, Members, OneOrganization
  <1>6. OwnersAreLeft'
    BY DEF OwnersAreLeft, TakesOwner, Owners
  <1> QED
    BY <1>1, <1>2, <1>3, <1>4, <1>5, <1>6

(***************************************************************************)
(* The first signup                                                        *)
(***************************************************************************)
LEMMA InitIInv == Init => IInv
  <1> SUFFICES ASSUME Init PROVE IInv
    OBVIOUS
  <1> USE DEF Init
  <1>1. Members = {}
    BY DEF Members
  <1>2. TeamTypeOK
    <2>1. NoCall \in Calls
      BY DEF NoCall, Calls
    <2>2. req \in [Requests -> Calls]
      BY <2>1
    <2>3. faults \in 0 .. MaxFaults
      BY TeamAssumption DEF TeamAssumption
    <2>4. raced \in BOOLEAN
      OBVIOUS
    <2>5. admin \in [Accounts -> Rows \cup {NoRow}]
      OBVIOUS
    <2> QED
      BY <1>1, <2>2, <2>3, <2>4, <2>5 DEF TeamTypeOK
  <1>3. CallsAreShaped /\ NewAccounts /\ OldAccounts
    BY <1>1
       DEF NoCall, CallsAreShaped, NewAccounts, OldAccounts, SigningUp, Adding, Changing, Known
  <1>4. RemovedStaysRemoved /\ OneOrganization /\ OwnersAreLeft
    BY DEF RemovedStaysRemoved, OneOrganization, OwnersAreLeft, TakesOwner, NoCall
  <1> QED
    BY <1>2, <1>3, <1>4 DEF IInv

(* Before there is an organization nobody can call a function.             *)
LEMMA NobodyYet ==
  ASSUME IInv, organizations = {}
  PROVE  Members = {} /\ \A r \in Requests : req[r].pc = "idle"
  BY DEF IInv, TeamTypeOK, Members, CallsAreShaped

(* A page that moves on without a row changes no member. *)
LEMMA PageMoves ==
  ASSUME IInv, NEW a \in Accounts,
         OpenSignup(a) \/ SignUp(a) \/ SignupBreaks(a)
  PROVE  IInv'
  <1> USE DEF IInv, OpenSignup, SignUp, SignupBreaks, tables
  <1>1. UNCHANGED <<organizations, admin, req, left, raced>>
    OBVIOUS
  <1>2. TeamTypeOK'
    <2>1. faults' \in 0 .. MaxFaults
      BY FaultType
    <2>2. UNCHANGED <<authors, log>> /\ users \subseteq users'
      OBVIOUS
    <2>3. page' \in [Accounts -> {"closed", "form", "signed_up", "refused"}]
      BY DEF TeamTypeOK
    <2>4. users' \subseteq Accounts /\ used' \subseteq Accounts /\ used \subseteq used'
      BY DEF TeamTypeOK
    <2> QED
      BY <1>1, <2>1, <2>2, <2>3, <2>4 DEF TeamTypeOK, Members
  <1>3. NewAccounts'
    <2>1. CASE OpenSignup(a)
      BY <2>1, NobodyYet DEF TeamTypeOK, NewAccounts, SigningUp, Known, Members, Adding
    <2>2. CASE SignUp(a)
      BY <2>2, RowType DEF TeamTypeOK, NewAccounts, SigningUp, Known, Members, Adding
    <2>3. CASE SignupBreaks(a)
      BY <2>3 DEF TeamTypeOK, NewAccounts, SigningUp, Known, Members, Adding
    <2> QED
      BY <2>1, <2>2, <2>3
  <1>4. CallsAreShaped' /\ OldAccounts'
    BY <1>1 DEF CallsAreShaped, OldAccounts, Changing, Known, Members
  <1>5. RemovedStaysRemoved' /\ OneOrganization' /\ OwnersAreLeft'
    BY <1>1
       DEF RemovedStaysRemoved, Members, OneOrganization, OwnersAreLeft, TakesOwner, Owners
  <1> QED
    BY <1>2, <1>3, <1>4, <1>5

LEMMA BootstrapKeeps ==
  ASSUME IInv, NEW a \in Accounts, Bootstrap(a)
  PROVE  IInv'
  <1> USE DEF IInv
  <1>1. CASE MayFound
    <2> DEFINE row == [org |-> a, role |-> "owner"]
    <2>1. /\ Members = {} /\ \A r \in Requests : req[r].pc = "idle"
          /\ a \in users /\ a \notin left
      BY <1>1, NobodyYet DEF MayFound, Bootstrap, NewAccounts, SigningUp, Known
    <2>2. /\ organizations' = {a} /\ admin' = [admin EXCEPT ![a] = row]
          /\ page' = [page EXCEPT ![a] = "closed"]
          /\ UNCHANGED <<users, authors, log, req, used, left, raced, faults>>
      BY <1>1 DEF MayFound, Bootstrap
    <2>3. row \in Rows /\ row # NoRow
      BY RowsAreRows DEF Rows, Roles
    <2>4. Members' = {a} /\ Owners(a)' = {a}
      BY <2>1, <2>2, <2>3 DEF Members, Owners, TeamTypeOK, NoRow
    <2>5. TeamTypeOK'
      BY <2>1, <2>2, <2>3, <2>4 DEF TeamTypeOK
    <2>6. CallsAreShaped' /\ OldAccounts'
      BY <2>1, <2>2 DEF CallsAreShaped, OldAccounts, Changing
    <2>7. NewAccounts'
      BY <2>1, <2>2, <2>4 DEF TeamTypeOK, NewAccounts, SigningUp, Known, Adding
    <2>8. RemovedStaysRemoved' /\ OneOrganization'
      BY <2>1, <2>2, <2>4 DEF RemovedStaysRemoved, OneOrganization
    <2>9. OwnersAreLeft'
      BY <2>1, <2>2, <2>4 DEF OwnersAreLeft, TakesOwner
    <2> QED
      BY <2>5, <2>6, <2>7, <2>8, <2>9
  <1>2. CASE ~MayFound
    <2>1. /\ page[a] = "signed_up" /\ page' = [page EXCEPT ![a] = "refused"]
          /\ UNCHANGED <<users, organizations, admin, authors, log, req, used,
                         left, raced, faults>>
      BY <1>2 DEF Bootstrap
    <2>2. TeamTypeOK'
      BY <2>1 DEF TeamTypeOK, Members
    <2>3. NewAccounts'
      BY <2>1 DEF TeamTypeOK, NewAccounts, SigningUp, Known, Members, Adding
    <2>4. CallsAreShaped' /\ OldAccounts'
      BY <2>1 DEF CallsAreShaped, OldAccounts, Changing, Known, Members
    <2>5. RemovedStaysRemoved' /\ OneOrganization' /\ OwnersAreLeft'
      BY <2>1
         DEF RemovedStaysRemoved, Members, OneOrganization, OwnersAreLeft, TakesOwner, Owners
    <2> QED
      BY <2>2, <2>3, <2>4, <2>5
  <1> QED
    BY <1>1, <1>2

LEMMA CleanUpKeeps ==
  ASSUME IInv, NEW a \in Accounts, CleanUp(a)
  PROVE  IInv'
  <1> USE DEF IInv
  <1>1. a \notin Known
    BY DEF CleanUp, NewAccounts, SigningUp
  <1>2. /\ users' = users \ {a} \/ users' = users
        /\ faults' \in 0 .. MaxFaults
        /\ page[a] = "refused" /\ page' = [page EXCEPT ![a] = "closed"]
        /\ UNCHANGED <<organizations, admin, authors, log, req, used, left, raced>>
    BY <1>1, DeleteUserKeeps, FaultType DEF CleanUp, Known
  <1>3. TeamTypeOK'
    BY <1>1, <1>2 DEF TeamTypeOK, Members, Known
  <1>4. NewAccounts'
    BY <1>1, <1>2 DEF TeamTypeOK, NewAccounts, SigningUp, Known, Members, Adding
  <1>5. CallsAreShaped' /\ OldAccounts'
    BY <1>2 DEF CallsAreShaped, OldAccounts, Changing, Known, Members
  <1>6. RemovedStaysRemoved' /\ OneOrganization' /\ OwnersAreLeft'
    BY <1>2
       DEF RemovedStaysRemoved, Members, OneOrganization, OwnersAreLeft, TakesOwner, Owners
  <1> QED
    BY <1>3, <1>4, <1>5, <1>6

(***************************************************************************)
(* The calls                                                               *)
(***************************************************************************)
LEMMA CallerIsMember ==
  ASSUME TeamTypeOK, NEW a \in Accounts, Authorized(a)
  PROVE  a \in Members
  BY DEF Authorized, Members, NoRow

(* A call starts before it has anything to do with its target's row. *)
LEMMA CallBegins ==
  ASSUME IInv, NEW r \in Requests, NEW a \in Members, NEW t \in Accounts,
         NEW kind, NEW pc, NEW role, Begin(r, kind, pc, a, t, role),
         pc \in {"create", "lookup", "issue"}, kind \in KindOf(pc),
         role \in Roles \/ (role = "none" /\ kind \notin {"add", "role"}),
         pc = "create" => page[t] = "closed"
  PROVE  IInv'
  <1> DEFINE new == [pc |-> pc, kind |-> kind, caller |-> a, org |-> admin[a].org,
                     target |-> t, role |-> role]
  <1> USE DEF IInv
  <1>1. a \in Accounts /\ admin[a].org \in organizations /\ admin[a].org \in Accounts
    BY RowType DEF Members, TeamTypeOK
  <1>2. kind \in {"add", "remove", "role", "issue"}
    BY DEF KindOf
  <1>3. new \in Calls
    BY <1>1, <1>2 DEF Calls
  <1>4. req' = [req EXCEPT ![r] = new]
        /\ UNCHANGED <<tables, page, used, left, raced, faults>>
    BY DEF Begin
  <1>5. req' \in [Requests -> Calls] /\ req'[r] = new
        /\ \A s \in Requests \ {r} : req'[s] = req[s]
    BY <1>3, <1>4 DEF TeamTypeOK
  <1>6. UNCHANGED <<users, organizations, admin, authors, log, page, used, left,
                    raced, faults>>
    BY <1>4 DEF tables
  <1> HIDE DEF new
  <1>7. /\ new.pc \in {"create", "lookup", "issue"} /\ new.kind \in KindOf(new.pc)
        /\ new.org \in organizations /\ new.caller \in Accounts /\ new.target \in Accounts
        /\ new.kind \in {"add", "role"} => new.role \in Roles
        /\ new.pc = "create" => page[new.target] = "closed"
    BY <1>1 DEF new
  <1>8. TeamTypeOK'
    BY <1>5, <1>6 DEF TeamTypeOK, Members
  <1>9. CallsAreShaped'
    BY <1>5, <1>6, <1>7 DEF CallsAreShaped
  <1>10. NewAccounts'
    BY <1>5, <1>6, <1>7 DEF NewAccounts, SigningUp, Known, Members, Adding
  <1>11. OldAccounts'
    BY <1>5, <1>6, <1>7 DEF OldAccounts, Changing, Known, Members
  <1>12. RemovedStaysRemoved' /\ OneOrganization'
    BY <1>6 DEF RemovedStaysRemoved, Members, OneOrganization
  <1>13. OwnersAreLeft'
    BY <1>5, <1>6, <1>7 DEF OwnersAreLeft, TakesOwner, Owners
  <1> QED
    BY <1>8, <1>9, <1>10, <1>11, <1>12, <1>13

LEMMA EnterKeeps ==
  ASSUME IInv, NEW r \in Requests,
         AddUser(r) \/ RemoveUser(r) \/ UpdateRole(r) \/ GenerateVouchers(r)
  PROVE  IInv'
  <1> USE DEF IInv
  <1>1. CASE AddUser(r)
    <2>1. PICK a \in Accounts, t \in Accounts, role \in Roles :
            Authorized(a) /\ page[t] = "closed" /\ Begin(r, "add", "create", a, t, role)
      BY <1>1 DEF AddUser
    <2> QED
      BY <2>1, CallerIsMember, CallBegins DEF KindOf
  <1>2. CASE RemoveUser(r)
    <2>1. PICK a \in Accounts, t \in Accounts :
            Authorized(a) /\ Begin(r, "remove", "lookup", a, t, "none")
      BY <1>2 DEF RemoveUser, TeamTypeOK
    <2> QED
      BY <2>1, CallerIsMember, CallBegins DEF KindOf
  <1>3. CASE UpdateRole(r)
    <2>1. PICK a \in Accounts, t \in Accounts, role \in Roles :
            Authorized(a) /\ Begin(r, "role", "lookup", a, t, role)
      BY <1>3 DEF UpdateRole, TeamTypeOK
    <2> QED
      BY <2>1, CallerIsMember, CallBegins DEF KindOf
  <1>4. CASE GenerateVouchers(r)
    <2>1. PICK a \in Members : Begin(r, "issue", "issue", a, a, "none")
      BY <1>4 DEF GenerateVouchers, TeamTypeOK, Members
    <2>2. a \in Accounts
      BY DEF Members
    <2> QED
      BY <2>1, <2>2, CallBegins DEF KindOf
  <1> QED
    BY <1>1, <1>2, <1>3, <1>4

LEMMA CreateUserKeeps ==
  ASSUME IInv, NEW r \in Requests, CreateUser(r)
  PROVE  IInv'
  <1> DEFINE t == req[r].target
  <1> USE DEF IInv
  <1>1. CASE t \in used
    <2>1. Finish(r) /\ UNCHANGED <<users, organizations, admin, authors, log, page,
                                   used, left, raced, faults>>
      BY <1>1 DEF CreateUser
    <2> QED
      BY <2>1, CallEnds DEF TeamTypeOK
  <1>2. CASE t \notin used
    <2>1. /\ req[r].pc = "create" /\ Goto(r, "insert")
          /\ users' = users \cup {t} /\ used' = used \cup {t}
          /\ UNCHANGED <<organizations, admin, authors, log, page, left, raced, faults>>
      BY <1>2 DEF CreateUser
    <2>2. t \in Accounts /\ req[r].kind = "add" /\ req[r].kind \in KindOf("insert")
      BY <2>1 DEF CallsAreShaped, KindOf
    <2>3. t \notin Known /\ page[t] = "closed"
      BY <1>2, <2>1, <2>2 DEF NewAccounts, TeamTypeOK, Known, Members
    <2> HIDE DEF t
    <2>4. /\ req' \in [Requests -> Calls]
          /\ \A s \in Requests \ {r} : req'[s] = req[s]
          /\ req'[r].pc = "insert" /\ req'[r].kind = req[r].kind
          /\ req'[r].caller = req[r].caller /\ req'[r].org = req[r].org
          /\ req'[r].target = t /\ req'[r].role = req[r].role
      BY <2>1, GotoKeeps DEF t
    <2>5. TeamTypeOK'
      BY <2>1, <2>2, <2>4 DEF TeamTypeOK, Members
    <2>6. CallsAreShaped'
      BY <2>1, <2>2, <2>4 DEF CallsAreShaped, t
    <2>7. NewAccounts'
      <3>1. \A s \in Requests \ {r} : Adding(s)' => req'[s].target # t
        BY <1>2, <2>4 DEF NewAccounts, Adding
      <3> QED
        BY <2>1, <2>2, <2>3, <2>4, <3>1
           DEF NewAccounts, SigningUp, Known, Members, Adding, TeamTypeOK
    <2>8. OldAccounts'
      BY <2>1, <2>4 DEF OldAccounts, Changing, Known, Members
    <2>9. RemovedStaysRemoved' /\ OneOrganization'
      BY <2>1 DEF RemovedStaysRemoved, Members, OneOrganization
    <2>10. OwnersAreLeft'
      BY <2>1, <2>4 DEF OwnersAreLeft, TakesOwner, Owners
    <2> QED
      BY <2>5, <2>6, <2>7, <2>8, <2>9, <2>10
  <1> QED
    BY <1>1, <1>2

(* A call that only goes on breaks nothing if what it will do is right.    *)
LEMMA CallGoesOn ==
  ASSUME IInv, NEW r \in Requests, NEW pc, Goto(r, pc),
         req[r].pc # "idle", pc \in {"rollback", "count", "delete", "update"},
         UNCHANGED <<tables, page, used, left, raced, faults>>,
         req[r].kind \in KindOf(pc),
         pc = "rollback" => Adding(r),
         pc \in {"count", "delete", "update"} => req[r].target \in Known,
         (/\ pc = "delete" \/ (pc = "update" /\ req[r].role = "staff")
          /\ admin[req[r].target].role = "owner" /\ ~raced) =>
             \E o \in Owners(req[r].org) : o # req[r].target
  PROVE  IInv'
  <1> USE DEF IInv
  <1>1. UNCHANGED <<users, organizations, admin, authors, log, page, used, left,
                    raced, faults>>
    BY DEF tables
  <1>2. /\ req' \in [Requests -> Calls]
        /\ \A s \in Requests \ {r} : req'[s] = req[s]
        /\ req'[r].pc = pc /\ req'[r].kind = req[r].kind
        /\ req'[r].caller = req[r].caller /\ req'[r].org = req[r].org
        /\ req'[r].target = req[r].target /\ req'[r].role = req[r].role
    BY GotoKeeps
  <1>3. TeamTypeOK'
    BY <1>1, <1>2 DEF TeamTypeOK, Members
  <1>4. CallsAreShaped'
    BY <1>1, <1>2 DEF CallsAreShaped
  <1>5. NewAccounts'
    BY <1>1, <1>2 DEF NewAccounts, SigningUp, Known, Members, Adding
  <1>6. OldAccounts'
    BY <1>1, <1>2 DEF OldAccounts, Changing, Known, Members
  <1>7. RemovedStaysRemoved' /\ OneOrganization'
    BY <1>1 DEF RemovedStaysRemoved, Members, OneOrganization
  <1>8. OwnersAreLeft'
    BY <1>1, <1>2 DEF OwnersAreLeft, TakesOwner, Owners
  <1> QED
    BY <1>3, <1>4, <1>5, <1>6, <1>7, <1>8

LEMMA InsertAdminKeeps ==
  ASSUME IInv, NEW r \in Requests, InsertAdmin(r)
  PROVE  IInv'
  <1> DEFINE t == req[r].target
             row == NewMember(r)
  <1> USE DEF IInv
  <1>1. CASE Goto(r, "rollback") /\ UNCHANGED admin
    BY <1>1, CallGoesOn DEF InsertAdmin, tables, Adding, CallsAreShaped, KindOf
  <1>2. CASE Finish(r) /\ admin' = [admin EXCEPT ![t] = row]
    <2>1. /\ req[r].pc = "insert"
          /\ UNCHANGED <<users, organizations, authors, log, page, used, left,
                         raced, faults>>
      BY <1>2 DEF InsertAdmin
    <2>2. /\ req[r].org \in organizations /\ req[r].org \in Accounts
          /\ req[r].role \in Roles /\ t \in Accounts
      BY <2>1 DEF CallsAreShaped, KindOf, TeamTypeOK
    <2>3. row \in Rows /\ row # NoRow /\ row.org = req[r].org
      BY <2>2, RowsAreRows DEF NewMember, Rows
    <2>4. t \in users /\ t \notin Known /\ page[t] = "closed"
      BY <2>1 DEF NewAccounts, Adding
    <2> HIDE DEF t, row
    <2>5. Members' = Members \cup {t} /\ admin[t] = NoRow
      BY <1>2, <2>2, <2>3, <2>4, RowType DEF Members, TeamTypeOK, Known
    <2>6. \A org \in organizations : Owners(org) \subseteq Owners(org)'
      BY <1>2, <2>1, <2>5, RowsAreRows, TeamAssumption
         DEF Owners, TeamTypeOK, NoRow, TeamAssumption
    <2>7. req' \in [Requests -> Calls] /\ req'[r].pc = "idle"
          /\ \A s \in Requests \ {r} : req'[s] = req[s]
      BY <1>2, FinishKeeps
    <2>8. TeamTypeOK'
      BY <1>2, <2>1, <2>2, <2>3, <2>4, <2>5, <2>7 DEF TeamTypeOK
    <2>9. CallsAreShaped'
      BY <2>1, <2>7 DEF CallsAreShaped
    <2>10. NewAccounts'
      <3>1. \A s \in Requests \ {r} : Adding(s) => req[s].target # t
        BY <2>1 DEF NewAccounts, Adding, t
      <3> QED
        BY <2>1, <2>4, <2>5, <2>7, <3>1 DEF NewAccounts, SigningUp, Known, Adding
    <2>11. OldAccounts'
      BY <2>1, <2>5, <2>7 DEF OldAccounts, Changing, Known
    <2>12. RemovedStaysRemoved' /\ OneOrganization'
      BY <2>1, <2>4, <2>5 DEF RemovedStaysRemoved, Known, OneOrganization
    <2>13. OwnersAreLeft'
      <3>1. \A s \in Requests : TakesOwner(s)' =>
              TakesOwner(s) /\ req'[s] = req[s] /\ req[s].org \in organizations
        <4>1. \A s \in Requests \ {r} : Changing(s) => req[s].target \in Accounts \ {t}
          BY <2>4 DEF OldAccounts, CallsAreShaped, Changing
        <4> QED
          BY <1>2, <2>1, <2>7, <4>1 DEF TakesOwner, Changing, TeamTypeOK, CallsAreShaped
      <3> QED
        BY <2>1, <2>6, <3>1 DEF OwnersAreLeft
    <2> QED
      BY <2>8, <2>9, <2>10, <2>11, <2>12, <2>13
  <1> QED
    BY <1>1, <1>2 DEF InsertAdmin

(* Deleting an account that is not a member harms no other one. *)
LEMMA RollbackKeeps ==
  ASSUME IInv, NEW r \in Requests, Rollback(r)
  PROVE  IInv'
  <1> DEFINE t == req[r].target
  <1> USE DEF IInv
  <1>1. t \in Accounts /\ t \notin Known /\ page[t] = "closed"
        /\ \A s \in Requests \ {r} : Adding(s) => req[s].target # t
    BY DEF Rollback, NewAccounts, Adding, CallsAreShaped
  <1>2. /\ users' = users \ {t} \/ users' = users
        /\ faults' \in 0 .. MaxFaults /\ Finish(r)
        /\ UNCHANGED <<organizations, admin, authors, log, page, used, left, raced>>
    BY <1>1, DeleteUserKeeps, FaultType DEF Rollback, Known
  <1> HIDE DEF t
  <1>3. /\ req' \in [Requests -> Calls] /\ req'[r].pc = "idle"
        /\ \A s \in Requests \ {r} : req'[s] = req[s]
    BY <1>2, FinishKeeps
  <1>4. TeamTypeOK'
    BY <1>1, <1>2, <1>3 DEF TeamTypeOK, Members, Known
  <1>5. CallsAreShaped'
    BY <1>2, <1>3 DEF CallsAreShaped
  <1>6. NewAccounts'
    BY <1>1, <1>2, <1>3 DEF NewAccounts, SigningUp, Known, Members, Adding
  <1>7. OldAccounts'
    BY <1>2, <1>3 DEF OldAccounts, Changing, Known, Members
  <1>8. RemovedStaysRemoved' /\ OneOrganization'
    BY <1>2 DEF RemovedStaysRemoved, Members, OneOrganization
  <1>9. OwnersAreLeft'
    BY <1>2, <1>3 DEF OwnersAreLeft, TakesOwner, Owners
  <1> QED
    BY <1>4, <1>5, <1>6, <1>7, <1>8, <1>9

(* The count that a removal or a demotion looks at. *)
LEMMA AnotherOwner ==
  ASSUME NEW r \in Requests, ~IsLastOwner(r)
  PROVE  \E o \in Owners(req[r].org) : o # req[r].target
  <1> SUFFICES ASSUME Owners(req[r].org) \subseteq {req[r].target}
               PROVE  Cardinality(Owners(req[r].org)) <= 1
    BY DEF IsLastOwner
  <1>1. Owners(req[r].org) = {} \/ Owners(req[r].org) = {req[r].target}
    OBVIOUS
  <1>2. Cardinality(Owners(req[r].org)) = 0 \/ Cardinality(Owners(req[r].org)) = 1
    BY <1>1, FS_EmptySet, FS_Singleton
  <1> QED
    BY <1>2

LEMMA LookUpTargetKeeps ==
  ASSUME IInv, NEW r \in Requests, LookUpTarget(r)
  PROVE  IInv'
  <1> DEFINE row == admin[req[r].target]
             pc == IF row.role = "owner" /\ LosesOwner(r) THEN "count" ELSE Write(r)
  <1> USE DEF IInv
  <1>1. /\ req[r].pc = "lookup" /\ req[r].kind \in {"remove", "role"}
        /\ req[r].target \in Accounts
        /\ UNCHANGED <<tables, page, used, left, raced, faults>>
    BY DEF LookUpTarget, CallsAreShaped, KindOf
  <1>2. CASE Finish(r)
    BY <1>1, <1>2, CallEnds DEF tables, TeamTypeOK
  <1>3. CASE row # NoRow /\ Goto(r, pc)
    <2>1. pc \in {"count", "delete", "update"} /\ req[r].kind \in KindOf(pc)
      BY <1>1 DEF Write, KindOf
    <2>2. req[r].target \in Known
      BY <1>1, <1>3 DEF Known, Members
    <2>3. pc = "delete" \/ (pc = "update" /\ req[r].role = "staff") => row.role # "owner"
      BY <1>1 DEF Write, LosesOwner
    <2> QED
      BY <1>1, <1>3, <2>1, <2>2, <2>3, CallGoesOn
  <1> QED
    BY <1>2, <1>3 DEF LookUpTarget

LEMMA CountOwnersKeeps ==
  ASSUME IInv, NEW r \in Requests, CountOwners(r)
  PROVE  IInv'
  <1> USE DEF IInv
  <1>1. /\ req[r].pc = "count" /\ req[r].kind \in {"remove", "role"}
        /\ req[r].target \in Known
        /\ UNCHANGED <<tables, page, used, left, raced, faults>>
    BY DEF CountOwners, CallsAreShaped, KindOf, OldAccounts, Changing
  <1>2. CASE Finish(r)
    BY <1>1, <1>2, CallEnds DEF tables, TeamTypeOK
  <1>3. CASE ~IsLastOwner(r) /\ Goto(r, Write(r))
    <2>1. Write(r) \in {"delete", "update"} /\ req[r].kind \in KindOf(Write(r))
      BY <1>1 DEF Write, KindOf
    <2> QED
      BY <1>1, <1>3, <2>1, AnotherOwner, CallGoesOn
  <1> QED
    BY <1>2, <1>3 DEF CountOwners

(***************************************************************************)
(* The writes.  Unless they overlap, no other call is about to take an     *)
(* owner away while one is written.                                        *)
(***************************************************************************)
LEMMA Alone ==
  ASSUME IInv, NEW r \in Requests, ~Amid(r), NEW s \in Requests \ {r}
  PROVE  ~TakesOwner(s)
  BY DEF IInv, Amid, CallsAreShaped, KindOf, TakesOwner

LEMMA DeleteRowKeeps ==
  ASSUME IInv, NEW r \in Requests, DeleteRow(r)
  PROVE  IInv'
  <1> DEFINE t == req[r].target
  <1> USE DEF IInv
  <1>1. /\ req[r].pc = "delete" /\ req[r].kind = "remove" /\ req[r].org \in organizations
        /\ t \in Accounts /\ t \in Known
        /\ UNCHANGED <<users, organizations, authors, log, page, used, faults>>
    BY DEF DeleteRow, CallsAreShaped, KindOf, OldAccounts, Changing
  <1>2. CASE Finish(r) /\ UNCHANGED <<admin, left, raced>>
    BY <1>1, <1>2, CallEnds DEF TeamTypeOK
  <1>3. CASE /\ admin' = [admin EXCEPT ![t] = NoRow]
             /\ left' = left \cup ({t} \cap Members)
             /\ raced' = (raced \/ Amid(r))
             /\ Goto(r, "delete_user")
    <2>1. /\ req' \in [Requests -> Calls]
          /\ \A s \in Requests \ {r} : req'[s] = req[s]
          /\ req'[r].pc = "delete_user" /\ req'[r].kind = req[r].kind
          /\ req'[r].caller = req[r].caller /\ req'[r].org = req[r].org
          /\ req'[r].target = t /\ req'[r].role = req[r].role
      BY <1>3, GotoKeeps
    <2>2. raced' \in BOOLEAN
      BY <1>3 DEF TeamTypeOK
    <2>3. ~raced' => ~raced /\ ~Amid(r)
      BY <1>3
    <2>4. TakesOwner(r) <=> admin[t].role = "owner"
      BY <1>1 DEF TakesOwner
    <2> HIDE DEF t
    <2>5. /\ Members' = Members \ {t} /\ left' \subseteq left \cup {t}
          /\ t \in left' /\ Known' = Known
          /\ \A a \in Accounts \ {t} : admin'[a] = admin[a]
      BY <1>1, <1>3 DEF TeamTypeOK, Members, Known
    <2>6. t \in used
      BY <1>1 DEF Known, TeamTypeOK, NewAccounts, Members
    <2>7. TeamTypeOK'
      BY <1>1, <1>3, <2>1, <2>2, <2>5, <2>6 DEF TeamTypeOK, Members
    <2>8. CallsAreShaped'
      BY <1>1, <2>1 DEF CallsAreShaped, KindOf, t
    <2>9. NewAccounts'
      BY <1>1, <2>1, <2>5 DEF NewAccounts, SigningUp, Adding
    <2>10. OldAccounts'
      BY <1>1, <1>3, <2>1, <2>5 DEF OldAccounts, Changing
    <2>11. RemovedStaysRemoved' /\ OneOrganization'
      BY <1>1, <2>5 DEF RemovedStaysRemoved, OneOrganization
    <2>12. OwnersAreLeft'
      <3> SUFFICES ASSUME ~raced' PROVE OwnersAreLeft'
        BY DEF OwnersAreLeft
      <3>1. \A s \in Requests : ~TakesOwner(s)'
        <4>1. \A s \in Requests \ {r} : ~TakesOwner(s)
          BY <2>3, Alone
        <4>2. \A s \in Requests \ {r} : TakesOwner(s)' => TakesOwner(s)
          <5> SUFFICES ASSUME NEW s \in Requests \ {r}, TakesOwner(s)' PROVE TakesOwner(s)
            OBVIOUS
          <5>1. req[s].target \in Accounts
            BY <2>1 DEF TakesOwner, CallsAreShaped
          <5>2. req[s].target # t
            BY <1>1, <1>3, <2>1, <5>1 DEF TakesOwner, NoRow, TeamTypeOK
          <5> QED
            BY <2>1, <2>5, <5>1, <5>2 DEF TakesOwner
        <4> QED
          BY <2>1, <4>1, <4>2 DEF TakesOwner
      <3>2. \A org \in organizations : Owners(org)' # {}
        <4> SUFFICES ASSUME NEW org \in organizations PROVE Owners(org)' # {}
          OBVIOUS
        <4>1. \E o \in Owners(org) : o # t
          <5>1. CASE admin[t].role = "owner"
            BY <1>1, <2>3, <2>4, <5>1 DEF OwnersAreLeft, OneOrganization, t
          <5>2. CASE admin[t].role # "owner"
            <6>1. t \notin Owners(org)
              BY <5>2 DEF Owners
            <6> QED
              BY <2>3, <6>1 DEF OwnersAreLeft
          <5> QED
            BY <5>1, <5>2
        <4> QED
          BY <2>5, <4>1 DEF Owners
      <3> QED
        BY <1>1, <3>1, <3>2 DEF OwnersAreLeft
    <2> QED
      BY <2>7, <2>8, <2>9, <2>10, <2>11, <2>12
  <1> QED
    BY <1>2, <1>3 DEF DeleteRow

(* The account goes after its row, so it takes no other row along. *)
LEMMA DeleteTargetKeeps ==
  ASSUME IInv, NEW r \in Requests, DeleteTarget(r)
  PROVE  IInv'
  <1> DEFINE t == req[r].target
  <1> USE DEF IInv
  <1>1. /\ req[r].pc = "delete_user" /\ Goto(r, "audit") /\ req[r].kind = "remove"
        /\ t \in Accounts /\ t \in left /\ t \notin Members
    BY DEF DeleteTarget, CallsAreShaped, KindOf, OldAccounts, RemovedStaysRemoved
  <1>2. /\ users' = users \ {t} \/ users' = users
        /\ faults' \in 0 .. MaxFaults
        /\ UNCHANGED <<organizations, admin, authors, log, page, used, left, raced>>
    BY <1>1, DeleteUserKeeps, FaultType DEF DeleteTarget
  <1>3. /\ req' \in [Requests -> Calls]
        /\ \A s \in Requests \ {r} : req'[s] = req[s]
        /\ req'[r].pc = "audit" /\ req'[r].kind = req[r].kind
        /\ req'[r].caller = req[r].caller /\ req'[r].org = req[r].org
        /\ req'[r].target = t /\ req'[r].role = req[r].role
    BY <1>1, GotoKeeps
  <1>4. \A s \in Requests : Adding(s) => req[s].target # t
    BY <1>1 DEF NewAccounts, Known
  <1> HIDE DEF t
  <1>5. TeamTypeOK'
    BY <1>1, <1>2, <1>3 DEF TeamTypeOK, Members
  <1>6. CallsAreShaped'
    BY <1>1, <1>2, <1>3 DEF CallsAreShaped, KindOf
  <1>7. NewAccounts'
    BY <1>1, <1>2, <1>3, <1>4 DEF NewAccounts, SigningUp, Known, Members, Adding
  <1>8. OldAccounts'
    BY <1>1, <1>2, <1>3 DEF OldAccounts, Changing, Known, Members
  <1>9. RemovedStaysRemoved' /\ OneOrganization'
    BY <1>2 DEF RemovedStaysRemoved, Members, OneOrganization
  <1>10. OwnersAreLeft'
    BY <1>2, <1>3 DEF OwnersAreLeft, TakesOwner, Owners
  <1> QED
    BY <1>5, <1>6, <1>7, <1>8, <1>9, <1>10

(* A row that is gone is not written again. *)
LEMMA StoreRoleKeeps ==
  ASSUME IInv, NEW r \in Requests, StoreRole(r)
  PROVE  IInv'
  <1> DEFINE t == req[r].target
             row == Updated(r, admin[t])
  <1> USE DEF IInv
  <1>1. /\ req[r].pc = "update" /\ req[r].kind = "role" /\ Goto(r, "audit")
        /\ req[r].role \in Roles /\ req[r].org \in organizations
        /\ t \in Accounts
        /\ admin' = [admin EXCEPT ![t] = row] /\ raced' = (raced \/ Amid(r))
        /\ UNCHANGED <<users, organizations, authors, log, page, used, left, faults>>
    BY DEF StoreRole, CallsAreShaped, KindOf
  <1>2. /\ admin[t] = NoRow => row = NoRow
        /\ admin[t] # NoRow => /\ row \in Rows /\ row # NoRow
                               /\ row.org = admin[t].org /\ row.role = req[r].role
    <2>1. CASE admin[t] = NoRow
      BY <2>1 DEF Updated
    <2>2. CASE admin[t] # NoRow
      <3>1. admin[t] \in Rows
        BY <1>1, <2>2 DEF TeamTypeOK
      <3>2. row = [admin[t] EXCEPT !.role = req[r].role]
        BY <2>2 DEF Updated
      <3>3. row \in Rows /\ row.org = admin[t].org /\ row.role = req[r].role
        BY <1>1, <3>1, <3>2 DEF Rows
      <3> QED
        BY <2>2, <3>3, RowsAreRows
    <2> QED
      BY <2>1, <2>2
  <1>3. /\ req' \in [Requests -> Calls]
        /\ \A s \in Requests \ {r} : req'[s] = req[s]
        /\ req'[r].pc = "audit" /\ req'[r].kind = req[r].kind
        /\ req'[r].caller = req[r].caller /\ req'[r].org = req[r].org
        /\ req'[r].target = t /\ req'[r].role = req[r].role
    BY <1>1, GotoKeeps
  <1>4. raced' \in BOOLEAN
    BY <1>1 DEF TeamTypeOK
  <1>5. ~raced' => ~raced /\ ~Amid(r)
    BY <1>1
  <1>6. req[r].role = "staff" /\ admin[t].role = "owner" => TakesOwner(r)
    BY <1>1 DEF TakesOwner
  <1> HIDE DEF t, row
  <1>7. /\ admin' \in [Accounts -> Rows \cup {NoRow}] /\ Members' = Members
        /\ admin'[t] = row /\ \A a \in Accounts \ {t} : admin'[a] = admin[a]
        /\ \A a \in Members : admin'[a].org = admin[a].org
    BY <1>1, <1>2 DEF TeamTypeOK, Members
  <1>8. TeamTypeOK'
    BY <1>1, <1>3, <1>4, <1>7 DEF TeamTypeOK
  <1>9. CallsAreShaped'
    BY <1>1, <1>3 DEF CallsAreShaped, KindOf
  <1>10. NewAccounts'
    BY <1>1, <1>3, <1>7 DEF NewAccounts, SigningUp, Known, Adding
  <1>11. OldAccounts'
    BY <1>1, <1>3, <1>7 DEF OldAccounts, Changing, Known
  <1>12. RemovedStaysRemoved' /\ OneOrganization'
    BY <1>1, <1>7 DEF RemovedStaysRemoved, OneOrganization
  <1>13. OwnersAreLeft'
    <2> SUFFICES ASSUME ~raced' PROVE OwnersAreLeft'
      BY DEF OwnersAreLeft
    <2>1. \A s \in Requests : ~TakesOwner(s)'
      <3> SUFFICES ASSUME NEW s \in Requests, TakesOwner(s)' PROVE FALSE
        OBVIOUS
      <3>1. s # r /\ req'[s] = req[s]
        BY <1>3 DEF TakesOwner
      <3>2. req[s].kind \in {"remove", "role"}
        BY <3>1 DEF TakesOwner, CallsAreShaped, KindOf
      <3> QED
        BY <1>5, <3>1, <3>2 DEF Amid
    <2>2. \A org \in organizations : Owners(org)' # {}
      <3> SUFFICES ASSUME NEW org \in organizations PROVE Owners(org)' # {}
        OBVIOUS
      <3>1. CASE TakesOwner(r)
        <4>1. \E o \in Owners(org) : o # t
          BY <1>1, <1>5, <3>1 DEF OwnersAreLeft, OneOrganization, t
        <4> QED
          BY <1>7, <4>1 DEF Owners
      <3>2. CASE ~TakesOwner(r)
        <4>1. PICK o \in Owners(org) : TRUE
          BY <1>5 DEF OwnersAreLeft
        <4>2. CASE o # t
          BY <1>7, <4>1, <4>2 DEF Owners
        <4>3. CASE o = t
          <5>1. admin[t] = [org |-> org, role |-> "owner"]
            BY <4>1, <4>3 DEF Owners
          <5>2. admin[t] # NoRow /\ req[r].role = "owner"
            BY <1>1, <1>6, <3>2, <5>1 DEF Roles, NoRow
          <5>3. row = [org |-> org, role |-> "owner"]
            BY <1>2, <5>1, <5>2 DEF Rows
          <5> QED
            BY <1>1, <1>7, <5>3 DEF Owners
        <4> QED
          BY <4>2, <4>3
      <3> QED
        BY <3>1, <3>2
    <2> QED
      BY <1>1, <2>1, <2>2 DEF OwnersAreLeft
  <1> QED
    BY <1>8, <1>9, <1>10, <1>11, <1>12, <1>13

(* The calls that only end. *)
LEMMA EndKeeps ==
  ASSUME IInv, NEW r \in Requests, IssueVouchers(r) \/ Audit(r) \/ CallBreaks(r)
  PROVE  IInv'
  <1> USE DEF IInv
  <1>1. Finish(r) /\ UNCHANGED <<users, organizations, admin, page, used, left, raced>>
    BY DEF IssueVouchers, Audit, CallBreaks, tables
  <1>2. faults' \in 0 .. MaxFaults
    BY FaultType DEF IssueVouchers, Audit, CallBreaks
  <1>3. authors' \subseteq Accounts
    BY DEF IssueVouchers, Audit, CallBreaks, tables, TeamTypeOK, CallsAreShaped
  <1>4. log' \subseteq used
    <2>1. CASE Audit(r)
      <3>1. log' = log \/ (req[r].kind = "remove" /\ log' = log \cup {req[r].target})
        BY <2>1 DEF Audit, Logged
      <3>2. req[r].kind = "remove" /\ req[r].pc = "audit" => req[r].target \in used
        BY DEF OldAccounts, TeamTypeOK
      <3> QED
        BY <2>1, <3>1, <3>2 DEF Audit, TeamTypeOK
    <2>2. CASE IssueVouchers(r) \/ CallBreaks(r)
      BY <2>2 DEF IssueVouchers, CallBreaks, tables, TeamTypeOK
    <2> QED
      BY <2>1, <2>2
  <1> QED
    BY <1>1, <1>2, <1>3, <1>4, CallEnds

LEMMA IInvNext == IInv /\ [Next]_vars => IInv'
  <1> SUFFICES ASSUME IInv, [Next]_vars PROVE IInv'
    OBVIOUS
  <1>1. ASSUME NEW a \in Visitors,
               OpenSignup(a) \/ SignUp(a) \/ Bootstrap(a) \/ CleanUp(a) \/ SignupBreaks(a)
        PROVE  IInv'
    <2>1. a \in Accounts
      BY TeamAssumption DEF TeamAssumption
    <2> QED
      BY <1>1, <2>1, PageMoves, BootstrapKeeps, CleanUpKeeps
  <1>2. ASSUME NEW r \in Requests,
               AddUser(r) \/ RemoveUser(r) \/ UpdateRole(r) \/ GenerateVouchers(r)
        PROVE  IInv'
    BY <1>2, EnterKeeps
  <1>3. ASSUME NEW r \in Requests, Step(r) \/ CallBreaks(r)
        PROVE  IInv'
    BY <1>3, CreateUserKeeps, InsertAdminKeeps, RollbackKeeps, LookUpTargetKeeps,
       CountOwnersKeeps, DeleteRowKeeps, DeleteTargetKeeps, StoreRoleKeeps, EndKeeps
       DEF Step
  <1>4. CASE UNCHANGED vars
    BY <1>4 DEF vars, tables, IInv, TeamTypeOK, CallsAreShaped, NewAccounts, SigningUp,
       Known, Members, Adding, OldAccounts, Changing, RemovedStaysRemoved,
       OneOrganization, OwnersAreLeft, TakesOwner, Owners
  <1> QED
    BY <1>1, <1>2, <1>3, <1>4 DEF Next

(***************************************************************************)
(* Nothing left behind                                                     *)
(***************************************************************************)
(* How a call's step moves: it goes on, ends or begins, and others wait.   *)
LEMMA OthersWait ==
  ASSUME TeamTypeOK, NEW r \in Requests,
         \/ AddUser(r) \/ RemoveUser(r) \/ UpdateRole(r) \/ GenerateVouchers(r)
         \/ Step(r) \/ CallBreaks(r)
  PROVE  \A s \in Requests \ {r} : req'[s] = req[s]
  <1>1. req \in [Requests -> Calls]
    BY DEF TeamTypeOK
  <1>2. \E c : req' = [req EXCEPT ![r] = c]
    <2>1. CASE AddUser(r) \/ RemoveUser(r) \/ UpdateRole(r) \/ GenerateVouchers(r)
      BY <2>1 DEF AddUser, RemoveUser, UpdateRole, GenerateVouchers, Begin
    <2>2. CASE \E pc : Goto(r, pc)
      BY <1>1, <2>2 DEF Goto
    <2>3. CASE Finish(r)
      BY <2>3 DEF Finish
    <2> QED
      BY <2>1, <2>2, <2>3 DEF Step, CreateUser, InsertAdmin, Rollback, IssueVouchers,
         LookUpTarget, CountOwners, DeleteRow, DeleteTarget, StoreRole, Audit, CallBreaks
  <1> QED
    BY <1>1, <1>2

LEMMA FaultsGrow ==
  ASSUME TeamTypeOK, Next, faults' = 0
  PROVE  faults = 0 /\ ~(\E r \in Requests : CallBreaks(r)) /\ ~Fault
  <1>1. ~Fault
    BY TeamAssumption DEF TeamAssumption, TeamTypeOK, Fault
  <1>2. faults' = faults
    BY <1>1 DEF Next, Step, OpenSignup, SignUp, Bootstrap, CleanUp, SignupBreaks,
       AddUser, RemoveUser, UpdateRole, GenerateVouchers, Begin, CreateUser, InsertAdmin,
       Rollback, IssueVouchers, LookUpTarget, CountOwners, DeleteRow, DeleteTarget,
       StoreRole, Audit, CallBreaks
  <1> QED
    BY <1>1, <1>2 DEF CallBreaks

LEMMA AccountsMindedNext ==
  ASSUME IInv, AccountsAreMinded, Next
  PROVE  AccountsAreMinded'
  <1> DEFINE Minded(a) == \E r \in Requests :
               (Adding(r) \/ req[r].pc = "delete_user") /\ req[r].target = a
  <1> SUFFICES ASSUME faults' = 0, NEW b \in users'
               PROVE  b \in Members' \/ SigningUp(b)' \/ Minded(b)'
    BY DEF AccountsAreMinded
  <1> USE DEF IInv
  <1>1. faults = 0 /\ ~Fault
    BY FaultsGrow
  <1>2. ASSUME NEW a \in Visitors,
               OpenSignup(a) \/ SignUp(a) \/ Bootstrap(a) \/ CleanUp(a) \/ SignupBreaks(a)
        PROVE  b \in Members' \/ SigningUp(b)' \/ Minded(b)'
    <2> a \in Accounts
      BY TeamAssumption DEF TeamAssumption
    <2>1. CASE OpenSignup(a) \/ SignupBreaks(a)
      BY <1>1, <2>1 DEF AccountsAreMinded, OpenSignup, SignupBreaks, tables, SigningUp,
         Members, Adding, TeamTypeOK
    <2>2. CASE SignUp(a)
      BY <1>1, <2>2
         DEF AccountsAreMinded, SignUp, SigningUp, Members, Adding, TeamTypeOK
    <2>3. CASE Bootstrap(a)
      <3>1. CASE MayFound
        <4>1. [org |-> a, role |-> "owner"] # NoRow
          BY RowsAreRows DEF Rows, Roles
        <4> QED
          BY <1>1, <2>3, <3>1, <4>1 DEF AccountsAreMinded, Bootstrap, SigningUp,
             Members, Adding, TeamTypeOK
      <3>2. CASE ~MayFound
        BY <1>1, <2>3, <3>2
           DEF AccountsAreMinded, Bootstrap, SigningUp, Members, Adding,
           TeamTypeOK
      <3> QED
        BY <3>1, <3>2
    <2>4. CASE CleanUp(a)
      <3>1. a \notin Members
        BY <2>4 DEF CleanUp, NewAccounts, SigningUp, Known
      <3>2. users' = users \ {a} /\ admin' = admin
        BY <1>1, <2>4, <3>1, DeleteUserKeeps DEF CleanUp
      <3> QED
        BY <1>1, <2>4, <3>2 DEF AccountsAreMinded, CleanUp, SigningUp, Members, Adding,
           TeamTypeOK
    <2> QED
      BY <1>2, <2>1, <2>2, <2>3, <2>4
  <1>3. ASSUME NEW r \in Requests,
               AddUser(r) \/ RemoveUser(r) \/ UpdateRole(r) \/ GenerateVouchers(r)
        PROVE  b \in Members' \/ SigningUp(b)' \/ Minded(b)'
    <2>1. req[r].pc = "idle" /\ UNCHANGED <<tables, page>>
      BY <1>3 DEF AddUser, RemoveUser, UpdateRole, GenerateVouchers, Begin
    <2>2. \A s \in Requests \ {r} : req'[s] = req[s]
      BY <1>3, OthersWait
    <2> QED
      BY <1>1, <2>1, <2>2 DEF AccountsAreMinded, tables, SigningUp, Members, Adding
  <1>4. ASSUME NEW r \in Requests, Step(r)
        PROVE  b \in Members' \/ SigningUp(b)' \/ Minded(b)'
    <2> DEFINE t == req[r].target
    <2>1. \A s \in Requests \ {r} : req'[s] = req[s]
      BY <1>4, OthersWait
    <2>2. CASE /\ req[r].pc \notin {"insert", "rollback", "delete_user"}
               /\ users' = users /\ admin' = admin
      BY <1>1, <1>4, <2>1, <2>2 DEF AccountsAreMinded, Step, CreateUser, InsertAdmin,
         Rollback, IssueVouchers, LookUpTarget, CountOwners, DeleteRow, DeleteTarget,
         StoreRole, Audit, tables, SigningUp, Members, Adding
    <2>3. CASE CreateUser(r)
      <3>1. CASE t \in used
        BY <1>1, <2>1, <2>3, <3>1
           DEF AccountsAreMinded, CreateUser, SigningUp, Members, Adding
      <3>2. CASE t \notin used
        <4>1. Goto(r, "insert") /\ users' = users \cup {t}
              /\ UNCHANGED <<admin, page>> /\ req[r].pc = "create"
          BY <2>3, <3>2 DEF CreateUser
        <4>2. req'[r].pc = "insert" /\ req'[r].target = t
          BY <4>1, GotoKeeps
        <4> QED
          BY <1>1, <2>1, <4>1, <4>2 DEF AccountsAreMinded, SigningUp, Members, Adding
      <3> QED
        BY <3>1, <3>2
    <2>4. CASE InsertAdmin(r)
      <3>1. CASE Goto(r, "rollback") /\ UNCHANGED admin
        <4>1. req'[r].pc = "rollback" /\ req'[r].target = t
          BY <3>1, GotoKeeps
        <4> QED
          BY <1>1, <2>1, <2>4, <3>1, <4>1 DEF AccountsAreMinded, InsertAdmin, SigningUp,
             Members, Adding
      <3>2. CASE admin' = [admin EXCEPT ![t] = NewMember(r)]
        <4>1. NewMember(r) \in Rows /\ t \in Accounts
          BY <2>4 DEF NewMember, InsertAdmin, CallsAreShaped, KindOf, TeamTypeOK, Rows
        <4>2. NewMember(r) # NoRow
          BY <4>1, RowsAreRows
        <4>3. Members' = Members \cup {t}
          BY <3>2, <4>1, <4>2 DEF Members, TeamTypeOK
        <4> QED
          BY <1>1, <2>1, <2>4, <4>3
             DEF AccountsAreMinded, InsertAdmin, SigningUp, Adding
      <3> QED
        BY <2>4, <3>1, <3>2 DEF InsertAdmin
    <2>5. CASE Rollback(r) \/ DeleteTarget(r)
      <3>1. t \in Accounts \ Members /\ req[r].pc \in {"rollback", "delete_user"}
        BY <2>5 DEF Rollback, DeleteTarget, CallsAreShaped, NewAccounts, OldAccounts,
           Adding, Known, RemovedStaysRemoved
      <3>2. users' = users \ {t} /\ admin' = admin /\ page' = page
        BY <1>1, <2>5, <3>1, DeleteUserKeeps DEF Rollback, DeleteTarget
      <3> QED
        BY <1>1, <2>1, <3>1, <3>2 DEF AccountsAreMinded, SigningUp, Members, Adding
    <2>6. CASE DeleteRow(r)
      <3>1. CASE Finish(r) /\ UNCHANGED admin
        BY <1>1, <2>1, <2>6, <3>1
           DEF AccountsAreMinded, DeleteRow, SigningUp, Members, Adding
      <3>2. CASE Goto(r, "delete_user") /\ admin' = [admin EXCEPT ![t] = NoRow]
        <4>1. req'[r].pc = "delete_user" /\ req'[r].target = t
          BY <3>2, GotoKeeps
        <4>2. Members \subseteq Members' \cup {t}
          BY <3>2 DEF Members, TeamTypeOK
        <4> QED
          BY <1>1, <2>1, <2>6, <4>1, <4>2
             DEF AccountsAreMinded, DeleteRow, SigningUp, Adding
      <3> QED
        BY <2>6, <3>1, <3>2 DEF DeleteRow
    <2>7. CASE StoreRole(r)
      <3>1. Members \subseteq Members'
        <4>1. \A a \in Members : Updated(r, admin[a]).org = admin[a].org
              /\ admin[a].org \in Accounts
          BY RowType DEF Members, Updated, TeamTypeOK, Rows
        <4>2. \A a \in Members : Updated(r, admin[a]) # NoRow
          BY <4>1, TeamAssumption DEF TeamAssumption, NoRow
        <4> QED
          BY <2>7, <4>2 DEF StoreRole, Members, TeamTypeOK
      <3> QED
        BY <1>1, <2>1, <2>7, <3>1 DEF AccountsAreMinded, StoreRole, SigningUp, Adding
    <2> QED
      BY <1>4, <2>2, <2>3, <2>4, <2>5, <2>6, <2>7 DEF Step, IssueVouchers, LookUpTarget,
         CountOwners, Audit, tables
  <1> QED
    BY <1>2, <1>3, <1>4, FaultsGrow DEF Next

(***************************************************************************)
(* Every removal recorded                                                  *)
(***************************************************************************)
LEMMA RemovalsMindedNext ==
  ASSUME IInv, RemovalsAreMinded, Next
  PROVE  RemovalsAreMinded'
  <1> USE DEF IInv
  <1>1. ASSUME NEW a \in Visitors,
               OpenSignup(a) \/ SignUp(a) \/ Bootstrap(a) \/ CleanUp(a) \/ SignupBreaks(a)
        PROVE  RemovalsAreMinded'
    <2> a \in Accounts
      BY TeamAssumption DEF TeamAssumption
    <2>1. UNCHANGED <<req, left, raced, log>>
      BY <1>1 DEF OpenSignup, SignUp, Bootstrap, CleanUp, SignupBreaks, tables
    <2>2. Members \subseteq Members'
      <3>1. CASE Bootstrap(a) /\ MayFound
        BY <3>1, NobodyYet DEF MayFound
      <3>2. CASE CleanUp(a)
        <4>1. a \notin Members
          BY <3>2 DEF CleanUp, NewAccounts, SigningUp, Known
        <4> QED
          BY <3>2, <4>1, DeleteUserKeeps DEF CleanUp, Members
      <3>3. CASE OpenSignup(a) \/ SignUp(a) \/ SignupBreaks(a) \/ (Bootstrap(a) /\ ~MayFound)
        BY <3>3 DEF OpenSignup, SignUp, Bootstrap, SignupBreaks, tables, Members
      <3> QED
        BY <1>1, <3>1, <3>2, <3>3
    <2> QED
      BY <2>1, <2>2, FaultsGrow DEF RemovalsAreMinded, Removing
  <1>2. ASSUME NEW r \in Requests,
               AddUser(r) \/ RemoveUser(r) \/ UpdateRole(r) \/ GenerateVouchers(r)
        PROVE  RemovalsAreMinded'
    <2>1. req[r].pc = "idle" /\ UNCHANGED <<tables, left, raced, faults>>
      BY <1>2 DEF AddUser, RemoveUser, UpdateRole, GenerateVouchers, Begin
    <2>2. \A s \in Requests \ {r} : req'[s] = req[s]
      BY <1>2, OthersWait
    <2>3. Removing(r)' => req'[r].target # req'[r].caller /\ req'[r].caller \in Members
      <3>1. CASE RemoveUser(r)
        <4>1. PICK a \in Accounts, t \in Accounts : Authorized(a) /\ t # a
                     /\ Begin(r, "remove", "lookup", a, t, "none")
          BY <3>1 DEF RemoveUser, TeamTypeOK
        <4>2. req'[r].caller = a /\ req'[r].target = t
          BY <4>1 DEF Begin, TeamTypeOK
        <4> QED
          BY <4>1, <4>2, CallerIsMember
      <3>2. CASE AddUser(r) \/ UpdateRole(r) \/ GenerateVouchers(r)
        BY <3>2 DEF AddUser, UpdateRole, GenerateVouchers, Begin, TeamTypeOK, Removing
      <3> QED
        BY <1>2, <3>1, <3>2
    <2> QED
      BY <2>1, <2>2, <2>3 DEF RemovalsAreMinded, Removing, tables, Members
  <1>3. ASSUME NEW r \in Requests, CallBreaks(r)
        PROVE  RemovalsAreMinded'
    <2>1. \A s \in Requests \ {r} : req'[s] = req[s]
      BY <1>3, OthersWait
    <2>2. ~Removing(r)'
      BY <1>3, FinishKeeps DEF CallBreaks, Removing
    <2> QED
      BY <1>3, <2>1, <2>2, FaultsGrow
         DEF RemovalsAreMinded, Removing, CallBreaks, tables, Members
  <1>4. ASSUME NEW r \in Requests, Step(r)
        PROVE  RemovalsAreMinded'
    <2> DEFINE t == req[r].target
    <2>1. \A s \in Requests \ {r} : req'[s] = req[s]
      BY <1>4, OthersWait
    <2>2. faults' = 0 => faults = 0
      BY FaultsGrow
    <2>3. CASE CreateUser(r) \/ IssueVouchers(r) \/ LookUpTarget(r) \/ CountOwners(r)
      <3>1. /\ UNCHANGED <<admin, log, left, raced, faults>>
            /\ Removing(r)' => /\ Removing(r) /\ req'[r].target = t
                               /\ req'[r].caller = req[r].caller
            /\ req[r].pc \notin {"delete_user", "audit"}
        <4>1. CASE Finish(r)
          BY <2>3, <4>1, FinishKeeps
             DEF CreateUser, IssueVouchers, LookUpTarget, CountOwners,
             tables, Removing
        <4>2. CASE \E pc \in {"insert", "count", "delete", "update"} : Goto(r, pc)
          BY <2>3, <4>2, GotoKeeps
             DEF CreateUser, IssueVouchers, LookUpTarget, CountOwners,
             tables, Removing
        <4> QED
          BY <2>3, <4>1, <4>2
             DEF CreateUser, IssueVouchers, LookUpTarget, CountOwners, Write
      <3>2. Members' = Members
        BY <3>1 DEF Members
      <3> QED
        <4>1. (~raced' => ~raced) /\ log' = log /\ left' = left
          BY <3>1
        <4> QED
          BY <2>1, <2>2, <3>1, <3>2, <4>1 DEF RemovalsAreMinded, Removing
    <2>4. CASE InsertAdmin(r) \/ Rollback(r)
      <3>1. req[r].kind = "add" /\ t \in Accounts \ Members
        BY <2>4
           DEF InsertAdmin, Rollback, CallsAreShaped, KindOf, NewAccounts, Adding, Known
      <3>2. ~Removing(r)'
        BY <2>4, <3>1, FinishKeeps, GotoKeeps DEF InsertAdmin, Rollback, Removing
      <3>3. UNCHANGED <<log, left, raced>> /\ Members \subseteq Members'
        BY <2>4, <3>1, DeleteUserKeeps DEF InsertAdmin, Rollback, Members, TeamTypeOK
      <3> QED
        BY <2>1, <2>2, <3>1, <3>2, <3>3 DEF RemovalsAreMinded, Removing
    <2>5. CASE DeleteRow(r)
      <3>1. req[r].pc = "delete" /\ req[r].kind = "remove" /\ UNCHANGED <<log, faults>>
        BY <2>5 DEF DeleteRow, CallsAreShaped, KindOf
      <3>2. CASE Finish(r) /\ UNCHANGED <<admin, left, raced>>
        BY <2>1, <2>2, <3>1, <3>2, FinishKeeps DEF RemovalsAreMinded, Removing, Members
      <3>3. CASE /\ admin' = [admin EXCEPT ![t] = NoRow]
                 /\ left' = left \cup ({t} \cap Members)
                 /\ raced' = (raced \/ Amid(r)) /\ Goto(r, "delete_user")
        <4>1. /\ req'[r].pc = "delete_user" /\ req'[r].kind = "remove"
              /\ req'[r].target = t /\ req'[r].caller = req[r].caller
          BY <3>1, <3>3, GotoKeeps
        <4>2. ~raced' => ~raced /\ ~Amid(r)
          BY <3>3
        <4>3. Members \ {t} \subseteq Members'
          BY <3>3 DEF Members, TeamTypeOK
        <4>4. \A s \in Requests : Removing(s)' =>
                Removing(s) /\ req'[s].target = req[s].target /\ req'[s].caller = req[s].caller
          BY <2>1, <3>1, <4>1 DEF Removing
        <4>5. ASSUME ~raced', NEW s \in Requests, Removing(s)'
              PROVE  req'[s].caller \in Members'
          <5>1. s = r
            BY <2>1, <4>2, <4>4, <4>5 DEF Amid, Removing
          <5> QED
            BY <4>2, <4>3, <4>4, <4>5, <5>1 DEF RemovalsAreMinded
        <4>6. ASSUME ~raced', faults' = 0, NEW a \in left', a \notin log'
              PROVE  \E s \in Requests : /\ req'[s].pc \in {"delete_user", "audit"}
                                         /\ req'[s].kind = "remove" /\ req'[s].target = a
          BY <2>1, <2>2, <3>1, <3>3, <4>1, <4>2, <4>6 DEF RemovalsAreMinded
        <4> QED
          BY <4>4, <4>5, <4>6 DEF RemovalsAreMinded
      <3> QED
        BY <2>5, <3>2, <3>3 DEF DeleteRow
    <2>6. CASE DeleteTarget(r)
      <3>1. req[r].pc = "delete_user" /\ req[r].kind = "remove" /\ t \in Accounts \ Members
        BY <2>6
           DEF DeleteTarget, CallsAreShaped, KindOf, OldAccounts, RemovedStaysRemoved
      <3>2. /\ req'[r].pc = "audit" /\ req'[r].kind = "remove"
            /\ req'[r].target = t /\ req'[r].caller = req[r].caller
        BY <2>6, <3>1, GotoKeeps DEF DeleteTarget
      <3>3. UNCHANGED <<log, left, raced, admin>>
        BY <2>6, <3>1, DeleteUserKeeps DEF DeleteTarget
      <3> QED
        BY <2>1, <2>2, <3>1, <3>2, <3>3 DEF RemovalsAreMinded, Removing, Members
    <2>7. CASE StoreRole(r)
      <3>1. req[r].pc = "update" /\ req[r].kind = "role" /\ UNCHANGED <<log, left,
                                                                        faults>>
        BY <2>7 DEF StoreRole, CallsAreShaped, KindOf
      <3>2. ~Removing(r)'
        BY <2>7, <3>1, GotoKeeps DEF StoreRole, Removing
      <3>3. ~raced' => ~raced
        BY <2>7 DEF StoreRole
      <3>4. Members \subseteq Members'
        <4>1. \A a \in Members : Updated(r, admin[a]).org = admin[a].org
              /\ admin[a].org \in Accounts
          BY RowType DEF Members, Updated, TeamTypeOK, Rows
        <4>2. \A a \in Members : Updated(r, admin[a]) # NoRow
          BY <4>1, TeamAssumption DEF TeamAssumption, NoRow
        <4> QED
          BY <2>7, <4>2 DEF StoreRole, Members, TeamTypeOK
      <3> QED
        BY <2>1, <2>2, <3>1, <3>2, <3>3, <3>4 DEF RemovalsAreMinded, Removing
    <2>8. CASE Audit(r)
      <3>1. ~Removing(r)' /\ UNCHANGED <<admin, left, raced>> /\ req[r].pc = "audit"
            /\ log \subseteq log'
        BY <2>8, FinishKeeps DEF Audit, Removing, Logged
      <3>2. ~raced' /\ faults' = 0 /\ req[r].kind = "remove" => t \in log'
        <4>1. ~raced' /\ req[r].kind = "remove" => admin[req[r].caller] # NoRow
          BY <3>1 DEF RemovalsAreMinded, Removing, Members
        <4> QED
          BY <2>8, <4>1, FaultsGrow DEF Audit, Logged
      <3> QED
        <4>1. (~raced' => ~raced) /\ left' = left /\ Members' = Members
          BY <3>1 DEF Members
        <4> QED
          BY <2>1, <2>2, <3>1, <3>2, <4>1 DEF RemovalsAreMinded, Removing
    <2> QED
      BY <1>4, <2>3, <2>4, <2>5, <2>6, <2>7, <2>8 DEF Step
  <1> QED
    BY <1>1, <1>2, <1>3, <1>4 DEF Next

(***************************************************************************)
(* The theorems                                                            *)
(***************************************************************************)
(* What every reachable state satisfies, however many calls of the admin   *)
(* functions and signups overlap.                                          *)
THEOREM Inductive == Spec => []IInv
  BY InitIInv, IInvNext, PTL DEF Spec

(* Every variable keeps its type, and every row the account and the        *)
(* organization it refers to.                                              *)
THEOREM TeamTypeCorrect == Spec => []TeamTypeOK
  <1>1. IInv => TeamTypeOK
    BY DEF IInv
  <1> QED
    BY <1>1, Inductive, PTL

(* However many calls overlap and whatever fails, no call brings back the  *)
(* row of a removed teammate (admin-remove-user, admin-update-role).       *)
THEOREM RemovedNeverReturns == Spec => []RemovedStaysRemoved
  <1>1. IInv => RemovedStaysRemoved
    BY DEF IInv
  <1> QED
    BY <1>1, Inductive, PTL

(* Any number of people signing up at once make one organization, and any  *)
(* sequence of calls leaves it an owner, as long as no team change is      *)
(* written while another is under way (org-bootstrap, admin-remove-user,   *)
(* admin-update-role).                                                     *)
THEOREM AnOwnerRemains == Spec => []OwnerRemains
  <1>1. IInv => OwnerRemains
    <2> SUFFICES ASSUME IInv PROVE OwnerRemains
      OBVIOUS
    <2>1. Cardinality(organizations) <= 1
      <3>1. CASE organizations = {}
        BY <3>1, FS_EmptySet
      <3>2. CASE organizations # {}
        <4>1. PICK a \in Accounts : organizations = {a}
          BY <3>2 DEF IInv, OneOrganization
        <4>2. Cardinality({a}) = 1
          BY FS_Singleton
        <4> QED
          BY <4>1, <4>2
      <3> QED
        BY <3>1, <3>2
    <2> QED
      BY <2>1 DEF IInv, OwnersAreLeft, OwnerRemains
  <1> QED
    BY <1>1, Inductive, PTL

LEMMA MindedInit == Init => AccountsAreMinded /\ RemovalsAreMinded
  BY DEF Init, AccountsAreMinded, RemovalsAreMinded, Removing, NoCall

LEMMA MindedStutter ==
  ASSUME UNCHANGED vars, AccountsAreMinded /\ RemovalsAreMinded
  PROVE  AccountsAreMinded' /\ RemovalsAreMinded'
  BY
     DEF vars, tables, AccountsAreMinded, RemovalsAreMinded, Removing, SigningUp, Adding,
     Members

(* In every reachable state an account without a row, and a removal not    *)
(* yet recorded, has a call that will see to it.                           *)
THEOREM Minded == Spec => [](AccountsAreMinded /\ RemovalsAreMinded)
  <1>1. IInv /\ AccountsAreMinded /\ RemovalsAreMinded /\ [Next]_vars
          => (AccountsAreMinded /\ RemovalsAreMinded)'
    BY AccountsMindedNext, RemovalsMindedNext, MindedStutter
  <1> QED
    BY <1>1, MindedInit, Inductive, PTL DEF Spec

(* Once all is done, and unless a call was cut off or a deletion failed,   *)
(* every account that can sign in has a row (org-bootstrap,                *)
(* admin-add-user, admin-remove-user).                                     *)
THEOREM NoAccountIsOrphaned == Spec => []NoOrphanAccounts
  <1>1. IInv /\ AccountsAreMinded => NoOrphanAccounts
    BY
       DEF IInv, TeamTypeOK, AccountsAreMinded, NoOrphanAccounts, AtRest, SigningUp, Adding,
       Members
  <1> QED
    BY <1>1, Inductive, Minded, PTL

(* Every removal is in the audit log in the end, unless team changes       *)
(* overlap or a call is cut off (admin-remove-user).                       *)
THEOREM RemovalsAreRecorded == Spec => []RemovalsAreOnRecord
  <1>1. RemovalsAreMinded => RemovalsAreOnRecord
    BY DEF RemovalsAreMinded, RemovalsAreOnRecord, AtRest
  <1> QED
    BY <1>1, Minded, PTL

(***************************************************************************)
(* The abstract specification                                              *)
(***************************************************************************)
(* A change of the team leaves an owner, unless changes overlap: the       *)
(* member's organization is the only one, and the invariant still holds    *)
(* after the change.                                                       *)
LEMMA OwnerStays ==
  ASSUME IInv, IInv', NEW t \in Members, organizations' = organizations,
         raced' \in BOOLEAN, raced => raced'
  PROVE  Promise!OwnerIsLeft
  <1>1. CASE raced'
    BY <1>1 DEF Promise!OwnerIsLeft
  <1>2. CASE ~raced'
    <2>1. PICK o \in organizations : o = admin[t].org
      BY RowType DEF IInv, Members
    <2>2. PICK a \in Accounts : admin'[a] = [org |-> o, role |-> "owner"]
      BY <1>2 DEF IInv, OwnersAreLeft, Owners
    <2>3. Promise!IsOwner(a)'
      BY <2>2 DEF Promise!IsOwner
    <2> QED
      BY <2>3 DEF Promise!OwnerIsLeft
  <1> QED
    BY <1>1, <1>2

(* A removal removes a member, or finds nobody to remove.                  *)
LEMMA DeleteRowIsPromised ==
  ASSUME IInv, IInv', NEW r \in Requests, DeleteRow(r)
  PROVE  [Promise!Next]_(Promise!mvars)
  <1>1. PICK t \in Accounts : t = req[r].target
    BY DEF DeleteRow, IInv, CallsAreShaped
  <1>2. organizations' = organizations
    BY DEF DeleteRow
  <1>3. CASE UNCHANGED <<admin, left, raced>>
    BY <1>2, <1>3 DEF Promise!mvars
  <1>4. CASE /\ admin' = [admin EXCEPT ![t] = NoRow]
             /\ left' = left \cup ({t} \cap Members)
             /\ raced' = (raced \/ Amid(r))
    <2>1. raced' \in BOOLEAN /\ (raced => raced')
      BY <1>4 DEF IInv, TeamTypeOK
    <2>2. CASE t \in Members
      <3>1. left' = left \cup {t} /\ admin[t] # NoRow
        BY <1>4, <2>2 DEF Members
      <3>2. Promise!NoRow = NoRow
        BY DEF Promise!NoRow, NoRow
      <3>3. Promise!OwnerIsLeft
        BY <1>2, <2>1, <2>2, OwnerStays
      <3>4. Promise!Remove(t)
        BY <1>2, <1>4, <3>1, <3>2, <3>3 DEF Promise!Remove
      <3> QED
        BY <3>4 DEF Promise!Next
    <2>3. CASE t \notin Members
      <3>1. admin[t] = NoRow /\ left' = left
        BY <1>4, <2>3 DEF Members
      <3>2. admin' = admin
        BY <1>4, <3>1 DEF IInv, TeamTypeOK
      <3>3. CASE raced' = raced
        BY <1>2, <3>1, <3>2, <3>3 DEF Promise!mvars
      <3>4. CASE raced' = TRUE
        <4>1. Promise!Overlap
          BY <1>2, <3>1, <3>2, <3>4 DEF Promise!Overlap
        <4> QED
          BY <4>1 DEF Promise!Next
      <3>5. raced' = raced \/ raced' = TRUE
        BY <2>1 DEF IInv, TeamTypeOK
      <3> QED
        BY <3>3, <3>4, <3>5
    <2> QED
      BY <2>2, <2>3
  <1> QED
    BY <1>1, <1>3, <1>4 DEF DeleteRow

LEMMA StoreRoleIsPromised ==
  ASSUME IInv, IInv', NEW r \in Requests, StoreRole(r)
  PROVE  [Promise!Next]_(Promise!mvars)
  <1>1. PICK t \in Accounts : t = req[r].target
    BY DEF StoreRole, IInv, CallsAreShaped
  <1>2. PICK role \in {"owner", "staff"} : role = req[r].role
    BY DEF StoreRole, IInv, CallsAreShaped, KindOf, Roles
  <1>3. /\ admin' = [admin EXCEPT ![t] = Updated(r, admin[t])]
        /\ raced' = (raced \/ Amid(r)) /\ UNCHANGED <<organizations, left>>
    BY <1>1 DEF StoreRole
  <1>4. raced' \in BOOLEAN /\ (raced => raced')
    BY <1>3 DEF IInv, TeamTypeOK
  <1>5. CASE t \in Members
    <2>1. admin[t] # NoRow /\ Updated(r, admin[t]) = [admin[t] EXCEPT !.role = role]
      BY <1>2, <1>5 DEF Members, Updated
    <2>2. admin' = [admin EXCEPT ![t].role = role]
      BY <1>3, <2>1
    <2>3. Promise!NoRow = NoRow
      BY DEF Promise!NoRow, NoRow
    <2>4. Promise!OwnerIsLeft
      BY <1>3, <1>4, <1>5, OwnerStays
    <2>5. Promise!ChangeRole(t, role)
      BY <1>3, <2>1, <2>2, <2>3, <2>4 DEF Promise!ChangeRole
    <2> QED
      BY <2>5 DEF Promise!Next
  <1>6. CASE t \notin Members
    <2>1. admin[t] = NoRow /\ Updated(r, admin[t]) = NoRow
      BY <1>6 DEF Members, Updated
    <2>2. admin' = admin
      BY <1>3, <2>1 DEF IInv, TeamTypeOK
    <2>3. CASE raced' = raced
      BY <1>3, <2>2, <2>3 DEF Promise!mvars
    <2>4. CASE raced' = TRUE
      <3>1. Promise!Overlap
        BY <1>3, <2>2, <2>4 DEF Promise!Overlap
      <3> QED
        BY <3>1 DEF Promise!Next
    <2>5. raced' = raced \/ raced' = TRUE
      BY <1>4 DEF IInv, TeamTypeOK
    <2> QED
      BY <2>3, <2>4, <2>5
  <1> QED
    BY <1>5, <1>6

LEMMA BootstrapIsPromised ==
  ASSUME IInv, NEW a \in Accounts, Bootstrap(a)
  PROVE  [Promise!Next]_(Promise!mvars)
  <1>1. UNCHANGED <<left, raced>>
    BY DEF Bootstrap
  <1>2. CASE UNCHANGED <<organizations, admin>>
    BY <1>1, <1>2 DEF Promise!mvars
  <1>3. CASE /\ MayFound
             /\ organizations' = organizations \cup {a}
             /\ admin' = [admin EXCEPT ![a] = [org |-> a, role |-> "owner"]]
    <2>1. organizations = {} /\ organizations' = {a}
      BY <1>3 DEF MayFound
    <2>2. a \notin Known
      BY DEF Bootstrap, IInv, NewAccounts, SigningUp
    <2>3. Promise!IsNew(a)
      BY <2>2 DEF Known, Members, NoRow, Promise!IsNew, Promise!NoRow
    <2>4. Promise!Found(a)
      BY <1>1, <1>3, <2>1, <2>3 DEF Promise!Found
    <2> QED
      BY <2>4 DEF Promise!Next
  <1> QED
    BY <1>2, <1>3 DEF Bootstrap

LEMMA InsertAdminIsPromised ==
  ASSUME IInv, NEW r \in Requests, InsertAdmin(r)
  PROVE  [Promise!Next]_(Promise!mvars)
  <1>1. UNCHANGED <<organizations, left, raced>>
    BY DEF InsertAdmin
  <1>2. CASE UNCHANGED admin
    BY <1>1, <1>2 DEF Promise!mvars
  <1>3. CASE admin' = [admin EXCEPT ![req[r].target] = NewMember(r)]
    <2>1. PICK t \in Accounts, o \in organizations, role \in {"owner", "staff"} :
             t = req[r].target /\ o = req[r].org /\ role = req[r].role
      BY DEF InsertAdmin, IInv, CallsAreShaped, KindOf, Roles
    <2>2. t \notin Known
      BY <2>1 DEF InsertAdmin, IInv, NewAccounts, Adding
    <2>3. Promise!IsNew(t)
      BY <2>2 DEF Known, Members, NoRow, Promise!IsNew, Promise!NoRow
    <2>4. admin' = [admin EXCEPT ![t] = [org |-> o, role |-> role]]
      BY <1>3, <2>1 DEF NewMember
    <2>5. Promise!Join(t, role)
      BY <1>1, <2>3, <2>4 DEF Promise!Join
    <2> QED
      BY <2>5 DEF Promise!Next
  <1> QED
    BY <1>2, <1>3 DEF InsertAdmin

(* Only accounts without a row are deleted.                                *)
LEMMA DeletionsAreHidden ==
  ASSUME IInv,
         \/ \E a \in Accounts : CleanUp(a)
         \/ \E r \in Requests : Rollback(r) \/ DeleteTarget(r)
  PROVE  UNCHANGED Promise!mvars
  <1>1. ASSUME NEW a \in Accounts, CleanUp(a) PROVE UNCHANGED admin
    <2>1. a \in Accounts \ Members
      BY <1>1 DEF CleanUp, IInv, NewAccounts, SigningUp, Known
    <2> QED
      BY <1>1, <2>1, DeleteUserKeeps DEF CleanUp, IInv
  <1>2. ASSUME NEW r \in Requests, Rollback(r) \/ DeleteTarget(r) PROVE UNCHANGED admin
    <2>1. req[r].target \in Accounts \ Members
      BY <1>2 DEF Rollback, DeleteTarget, IInv, CallsAreShaped, NewAccounts, Adding, Known,
                  OldAccounts, RemovedStaysRemoved
    <2> QED
      BY <1>2, <2>1, DeleteUserKeeps DEF Rollback, DeleteTarget, IInv
  <1> QED
    BY <1>1, <1>2 DEF CleanUp, Rollback, DeleteTarget, Promise!mvars

LEMMA MembershipNext == IInv /\ IInv' /\ [Next]_vars => [Promise!Next]_(Promise!mvars)
  <1> SUFFICES ASSUME IInv, IInv', [Next]_vars PROVE [Promise!Next]_(Promise!mvars)
    OBVIOUS
  <1>1. Visitors \subseteq Accounts
    BY TeamAssumption DEF TeamAssumption
  <1>2. \/ UNCHANGED <<organizations, admin, left, raced>>
        \/ \E a \in Accounts : Bootstrap(a) \/ CleanUp(a)
        \/ \E r \in Requests :
              \/ InsertAdmin(r) \/ Rollback(r) \/ DeleteTarget(r)
              \/ DeleteRow(r) \/ StoreRole(r)
    BY <1>1 DEF Next, OpenSignup, SignUp, SignupBreaks, AddUser, RemoveUser, UpdateRole,
                GenerateVouchers, Begin, Step, CreateUser, IssueVouchers, LookUpTarget,
                CountOwners, Audit, CallBreaks, vars, tables
  <1> QED
    BY <1>2, BootstrapIsPromised, InsertAdminIsPromised, DeletionsAreHidden,
       DeleteRowIsPromised, StoreRoleIsPromised DEF Promise!mvars

(* The sign-up page and the admin-* functions, a few requests each and     *)
(* several under way at once, implement Membership.                        *)
THEOREM KeepsTheMembership == Spec => MembershipKept
  <1>1. Init => Promise!Init
    BY DEF Init, Promise!Init, NoRow, Promise!NoRow
  <1> QED
    BY <1>1, Inductive, MembershipNext, PTL DEF Spec, MembershipKept, Promise!Spec
=============================================================================
