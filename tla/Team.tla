-------------------------------- MODULE Team --------------------------------
(***************************************************************************)
(* The console's accounts: the first signup, which makes the organization  *)
(* and its owner, and the owner-only functions that add and remove         *)
(* teammates and change their roles.  A function is several requests to    *)
(* the database, and several of them may be under way at once.             *)
(*                                                                         *)
(* Sources: signup/page.tsx, org-exists, org-bootstrap, admin-add-user,    *)
(* admin-remove-user, admin-update-role, voucher-generate, _shared/auth.ts,*)
(* migrations 0001 and 0002.                                               *)
(***************************************************************************)
EXTENDS Naturals, FiniteSets

CONSTANTS
    Accounts,   \* ids of auth.users, each given out once
    Visitors,   \* those made on the signup page, if at all
    Requests,   \* slots for concurrent calls of the admin-* functions
    NoAccount,
    MaxFaults   \* bound on failed and cut-off calls

ASSUME TeamAssumption ==
    Visitors \subseteq Accounts /\ NoAccount \notin Accounts /\ MaxFaults \in Nat

VARIABLES
    users,          \* auth.users
    organizations,  \* the organizations, each named by its founder
    admin,          \* admin_users: the organization and role of an account
    authors,        \* accounts that vouchers or audit_log refer to
    log,            \* audit_log: whose removal is recorded
    page,           \* the signup page, by the account it is to make
    req,            \* the admin-* functions in progress
    used,           \* history variable: accounts that were ever made
    left,           \* history variable: accounts whose row was removed
    raced,          \* history variable: a change was made amid another
    faults

tables == <<users, organizations, admin, authors, log>>
vars == <<tables, page, req, used, left, raced, faults>>

Roles == {"owner", "staff"}
Rows == [org : Accounts, role : Roles]
NoRow == [org |-> NoAccount, role |-> "none"]
Calls == [pc : {"idle", "create", "insert", "rollback", "issue", "lookup",
                "count", "delete", "delete_user", "update", "audit"},
          kind : {"none", "add", "remove", "role", "issue"},
          caller : Accounts \cup {NoAccount}, org : Accounts \cup {NoAccount},
          target : Accounts \cup {NoAccount}, role : Roles \cup {"none"}]
NoCall == [pc |-> "idle", kind |-> "none", caller |-> NoAccount,
           org |-> NoAccount, target |-> NoAccount, role |-> "none"]

Members == {a \in Accounts : admin[a] # NoRow}
Owners(org) == {a \in Accounts : admin[a] = [org |-> org, role |-> "owner"]}

Init ==
    /\ users = {} /\ organizations = {} /\ authors = {} /\ log = {}
    /\ admin = [a \in Accounts |-> NoRow]
    /\ page = [a \in Accounts |-> "closed"]
    /\ req = [r \in Requests |-> NoCall]
    /\ used = {} /\ left = {} /\ raced = FALSE /\ faults = 0

Fault == faults < MaxFaults /\ faults' = faults + 1

(***************************************************************************)
(* The database's own rules.  A row goes only when no voucher and no audit *)
(* entry refers to it, and an account takes its row along.                 *)
(***************************************************************************)
RowCanGo(a) == a \notin authors

DeleteUser(a) ==
    IF admin[a] = NoRow \/ RowCanGo(a)
    THEN users' = users \ {a} /\ admin' = [admin EXCEPT ![a] = NoRow]
    ELSE UNCHANGED <<users, admin>>

(***************************************************************************)
(* The first signup                                                        *)
(***************************************************************************)
(* The page offers its form only while there is no organization. *)
OpenSignup(a) ==
    /\ a \notin used /\ page[a] = "closed" /\ organizations = {}
    /\ page' = [page EXCEPT ![a] = "form"]
    /\ UNCHANGED <<tables, req, used, left, raced, faults>>

SignUp(a) ==
    /\ page[a] = "form"
    /\ users' = users \cup {a} /\ used' = used \cup {a}
    /\ page' = [page EXCEPT ![a] = "signed_up"]
    /\ UNCHANGED <<organizations, admin, authors, log, req, left, raced, faults>>

(* bootstrap_organization, a transaction under a table lock. *)
MayFound == organizations = {}
Bootstrap(a) ==
    /\ page[a] = "signed_up"
    /\ IF MayFound
       THEN /\ organizations' = organizations \cup {a}
            /\ admin' = [admin EXCEPT ![a] = [org |-> a, role |-> "owner"]]
            /\ page' = [page EXCEPT ![a] = "closed"]
       ELSE /\ page' = [page EXCEPT ![a] = "refused"]
            /\ UNCHANGED <<organizations, admin>>
    /\ UNCHANGED <<users, authors, log, req, used, left, raced, faults>>

\* Mutant: the loser's account is left.
CleanUpForgets(a) ==
    /\ page[a] = "refused" /\ page' = [page EXCEPT ![a] = "closed"]
    /\ UNCHANGED <<tables, req, used, left, raced, faults>>

(* The loser's account is deleted again; an error is not looked at. *)
CleanUp(a) ==
    /\ page[a] = "refused" /\ page' = [page EXCEPT ![a] = "closed"]
    /\ \/ DeleteUser(a) /\ faults' = faults
       \/ UNCHANGED <<users, admin>> /\ Fault
    /\ UNCHANGED <<organizations, authors, log, req, used, left, raced>>

(* The browser goes, or the function ends with another error. *)
SignupBreaks(a) ==
    /\ page[a] \in {"signed_up", "refused"} /\ Fault
    /\ page' = [page EXCEPT ![a] = "closed"]
    /\ UNCHANGED <<tables, req, used, left, raced>>

(***************************************************************************)
(* The functions an admin calls.  getCallerAdmin reads the caller's row    *)
(* once, at the start.                                                     *)
(***************************************************************************)
Authorized(a) == a \in users /\ admin[a].role = "owner"

Begin(r, kind, pc, a, t, role) ==
    /\ req[r].pc = "idle"
    /\ req' = [req EXCEPT ![r] =
           [pc |-> pc, kind |-> kind, caller |-> a, org |-> admin[a].org,
            target |-> t, role |-> role]]
    /\ UNCHANGED <<tables, page, used, left, raced, faults>>
Goto(r, pc) == req' = [req EXCEPT ![r].pc = pc]
Finish(r) == req' = [req EXCEPT ![r] = NoCall]

AddUser(r) ==
    \E a \in Accounts, t \in Accounts \ used, role \in Roles :
        /\ Authorized(a) /\ page[t] = "closed"
        /\ Begin(r, "add", "create", a, t, role)

(* The page lists the team as it was, so the target may be gone. *)
RemoveUser(r) ==
    \E a \in Accounts, t \in used :
        Authorized(a) /\ t # a /\ Begin(r, "remove", "lookup", a, t, "none")

UpdateRole(r) ==
    \E a \in Accounts, t \in used, role \in Roles :
        Authorized(a) /\ Begin(r, "role", "lookup", a, t, role)

GenerateVouchers(r) ==
    \E a \in users : admin[a] # NoRow /\ Begin(r, "issue", "issue", a, a, "none")

CreateUser(r) ==
    LET t == req[r].target IN
    /\ req[r].pc = "create"
    /\ IF t \notin used
       THEN users' = users \cup {t} /\ used' = used \cup {t} /\ Goto(r, "insert")
       ELSE Finish(r) /\ UNCHANGED <<users, used>>
    /\ UNCHANGED <<organizations, admin, authors, log, page, left, raced, faults>>

NewMember(r) == [org |-> req[r].org, role |-> req[r].role]
InsertAdmin(r) ==
    /\ req[r].pc = "insert"
    /\ \/ Finish(r) /\ admin' = [admin EXCEPT ![req[r].target] = NewMember(r)]
       \/ Goto(r, "rollback") /\ UNCHANGED admin    \* the insert fails
    /\ UNCHANGED <<users, organizations, authors, log, page, used, left, raced, faults>>

Rollback(r) ==
    /\ req[r].pc = "rollback"
    /\ \/ DeleteUser(req[r].target) /\ faults' = faults
       \/ UNCHANGED <<users, admin>> /\ Fault
    /\ Finish(r)
    /\ UNCHANGED <<organizations, authors, log, page, used, left, raced>>

(* created_by must name a row. *)
IssueVouchers(r) ==
    /\ req[r].pc = "issue"
    /\ authors' = IF admin[req[r].caller] # NoRow
                  THEN authors \cup {req[r].caller} ELSE authors
    /\ Finish(r)
    /\ UNCHANGED <<users, organizations, admin, log, page, used, left, raced, faults>>

(***************************************************************************)
(* Changing and removing a teammate                                        *)
(***************************************************************************)
Write(r) == IF req[r].kind = "remove" THEN "delete" ELSE "update"
LosesOwner(r) == req[r].kind = "remove" \/ req[r].role = "staff"

LookUpTarget(r) ==
    LET row == admin[req[r].target] IN
    /\ req[r].pc = "lookup"
    /\ IF row = NoRow \/ row.org # req[r].org
       THEN Finish(r)
       ELSE Goto(r, IF row.role = "owner" /\ LosesOwner(r)
                    THEN "count" ELSE Write(r))
    /\ UNCHANGED <<tables, page, used, left, raced, faults>>

\* Mutant: off by one.
IsLastOwnerStrict(r) == Cardinality(Owners(req[r].org)) < 1
IsLastOwner(r) == Cardinality(Owners(req[r].org)) <= 1
CountOwners(r) ==
    /\ req[r].pc = "count"
    /\ IF IsLastOwner(r) THEN Finish(r) ELSE Goto(r, Write(r))
    /\ UNCHANGED <<tables, page, used, left, raced, faults>>

(* Two team changes at once. *)
Amid(r) == \E other \in Requests \ {r} : req[other].kind \in {"remove", "role"}

DeleteRow(r) ==
    LET t == req[r].target IN
    /\ req[r].pc = "delete"
    /\ IF admin[t] = NoRow \/ RowCanGo(t)
       THEN /\ admin' = [admin EXCEPT ![t] = NoRow]
            /\ left' = left \cup ({t} \cap Members)
            /\ raced' = (raced \/ Amid(r))
            /\ Goto(r, "delete_user")
       ELSE Finish(r) /\ UNCHANGED <<admin, left, raced>>
    /\ UNCHANGED <<users, organizations, authors, log, page, used, faults>>

\* Mutant: the function answers before the audit entry is written.
DeleteTargetUnlogged(r) ==
    /\ req[r].pc = "delete_user" /\ Finish(r) /\ DeleteUser(req[r].target)
    /\ UNCHANGED <<organizations, authors, log, page, used, left, raced, faults>>

DeleteTarget(r) ==
    /\ req[r].pc = "delete_user" /\ Goto(r, "audit")
    /\ \/ DeleteUser(req[r].target) /\ faults' = faults
       \/ UNCHANGED <<users, admin>> /\ Fault
    /\ UNCHANGED <<organizations, authors, log, page, used, left, raced>>

\* Mutant: an upsert in place of the update.
UpdatedOrMade(r, row) == [org |-> req[r].org, role |-> req[r].role]

(* An update of a row that is gone changes nothing and is no error. *)
Updated(r, row) == IF row = NoRow THEN NoRow ELSE [row EXCEPT !.role = req[r].role]
StoreRole(r) ==
    LET t == req[r].target IN
    /\ req[r].pc = "update"
    /\ admin' = [admin EXCEPT ![t] = Updated(r, admin[t])]
    /\ raced' = (raced \/ Amid(r))
    /\ Goto(r, "audit")
    /\ UNCHANGED <<users, organizations, authors, log, page, used, left, faults>>

(* admin_user_id must name a row; the result is not looked at. *)
Logged(r) == IF req[r].kind = "remove" THEN log \cup {req[r].target} ELSE log
Audit(r) ==
    /\ req[r].pc = "audit"
    /\ \/ /\ admin[req[r].caller] # NoRow /\ faults' = faults
          /\ log' = Logged(r)
          /\ authors' = authors \cup {req[r].caller}
       \/ /\ admin[req[r].caller] = NoRow /\ UNCHANGED <<log, authors, faults>>
       \/ Fault /\ UNCHANGED <<log, authors>>
    /\ Finish(r)
    /\ UNCHANGED <<users, organizations, admin, page, used, left, raced>>

(* A query's error or the end of the invocation, at any step. *)
CallBreaks(r) ==
    /\ req[r].pc # "idle" /\ Fault /\ Finish(r)
    /\ UNCHANGED <<tables, page, used, left, raced>>

Step(r) ==
    \/ CreateUser(r) \/ InsertAdmin(r) \/ Rollback(r) \/ IssueVouchers(r)
    \/ LookUpTarget(r) \/ CountOwners(r) \/ DeleteRow(r) \/ DeleteTarget(r)
    \/ StoreRole(r) \/ Audit(r)

Next ==
    \/ \E a \in Visitors :
         OpenSignup(a) \/ SignUp(a) \/ Bootstrap(a) \/ CleanUp(a) \/ SignupBreaks(a)
    \/ \E r \in Requests :
         \/ AddUser(r) \/ RemoveUser(r) \/ UpdateRole(r) \/ GenerateVouchers(r)
         \/ Step(r) \/ CallBreaks(r)

Spec == Init /\ [][Next]_vars

(***************************************************************************)
(* Properties                                                              *)
(***************************************************************************)
(* Every variable has its type, and a row belongs to an organization that  *)
(* exists and, until it is removed, to an account that exists (migration   *)
(* 0001's references).                                                     *)
TeamTypeOK ==
    /\ users \subseteq Accounts /\ organizations \subseteq Accounts
    /\ authors \subseteq Accounts /\ used \subseteq Accounts
    /\ left \subseteq used /\ log \subseteq used
    /\ admin \in [Accounts -> Rows \cup {NoRow}]
    /\ \A a \in Members : admin[a].org \in organizations /\ a \in users
    /\ page \in [Accounts -> {"closed", "form", "signed_up", "refused"}]
    /\ req \in [Requests -> Calls]
    /\ raced \in BOOLEAN /\ faults \in 0 .. MaxFaults

AtRest ==
    /\ \A r \in Requests : req[r].pc = "idle"
    /\ \A a \in Accounts : page[a] \in {"closed", "form"}

(* Unless a call is cut off or a deletion fails, nothing is left behind    *)
(* once all is done: every account that can sign in has a row, so the      *)
(* losers of the first signup, failed additions and removed teammates free *)
(* their email (org-bootstrap:3-4, admin-add-user:55, admin-remove-user:   *)
(* 1-3).                                                                   *)
NoOrphanAccounts == AtRest /\ faults = 0 => users = Members

(* However many people sign up at once on a fresh instance, one            *)
(* organization comes of it (migration 0002:14-15), and it never loses its *)
(* last owner, as long as two team changes do not overlap (admin-update-   *)
(* role:1-3, admin-remove-user:3).  The count and the write are two        *)
(* requests: when they overlap, two owners can remove each other.          *)
OwnerRemains ==
    /\ Cardinality(organizations) <= 1
    /\ ~raced => \A org \in organizations : Owners(org) # {}

(* Who was removed stays removed: no function that was under way with the  *)
(* teammate, a role change included, brings the row back.                  *)
RemovedStaysRemoved == left \cap Members = {}

(* Every removal is in the audit log, unless changes overlap or a call is  *)
(* cut off: the entry is written last, and its result is not looked at.    *)
RemovalsAreOnRecord ==
    AtRest /\ ~raced /\ faults = 0 =>
        left \subseteq log

(* The abstract specification this module implements: accounts, the pages  *)
(* and the steps of the functions are not visible at that level.           *)
Promise == INSTANCE Membership

(* Whatever calls are under way together, repeated or cut off, the team    *)
(* changes as Membership says: founded once, joined once, left for good,   *)
(* each member in the organization it was added to, an owner left behind   *)
(* unless changes overlap (org-bootstrap, admin-add-user,                  *)
(* admin-remove-user, admin-update-role).                                  *)
MembershipKept == Promise!Spec
=============================================================================
