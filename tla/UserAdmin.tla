----------------------------- MODULE UserAdmin ------------------------------
(***************************************************************************)
(* User administration: requests to create a user, change a role, and      *)
(* activate or deactivate an account, running at once in the threads of    *)
(* the web server.  Each is a transaction that locks, reads the target,    *)
(* counts the active admins and then writes; other requests take their     *)
(* steps in between.                                                       *)
(*                                                                         *)
(* The database decides what the lock covers.  On SQLite it is the one     *)
(* write lock of the database.  On PostgreSQL (read committed) it is the   *)
(* row of every admin that was active when the locking SELECT started, and *)
(* every later statement reads what is committed by then.                  *)
(*                                                                         *)
(* Writes are made at commit: nobody sees them earlier, and what they lock *)
(* on their way to the commit only delays others.  For the same reason the *)
(* share lock that the audit row's actor_id takes is left out.             *)
(***************************************************************************)
EXTENDS FiniteSets

CONSTANTS
    Users,      \* the accounts that exist or may be created, by e-mail address
    Roles,      \* rbac.ROLES
    Seed,       \* the role of each account seed_demo_users creates, NoRole for the others
    Requests,   \* the threads that handle requests
    Dialect,    \* "sqlite" or "postgresql"
    NewAdmins,  \* whether requests also make admins: created, promoted or activated
    NoRole, Database, Nobody, NoRequest

Existing == [role : Roles, on : BOOLEAN]
Missing == [role |-> NoRole, on |-> FALSE]

ASSUME UserAdminAssumption ==
    /\ "admin" \in Roles
    /\ NoRole \notin Roles
    /\ Seed \in [Users -> Roles \cup {NoRole}]
    /\ \E u \in Users : Seed[u] = "admin"
    /\ Dialect \in {"sqlite", "postgresql"}
    /\ NewAdmins \in BOOLEAN
    /\ Database \notin Users
    /\ Nobody \notin Requests

\* What a request asks for.
Create == [op : {"create"}, user : Users, role : Roles]
ChangeRole == [op : {"role"}, user : Users, role : Roles]
SetActive == [op : {"active"}, user : Users, on : BOOLEAN]
Asks == Create \cup ChangeRole \cup SetActive

VARIABLES
    account,  \* app_user: the role and is_active of each account, as committed
    at,       \* where each request is
    asks,     \* what it asks for
    wants,    \* the locks it has still to take
    seen,     \* the target as its transaction read it
    holder    \* who holds the database's write lock, or the lock of a row

vars == <<account, at, asks, wants, seen, holder>>

IsActiveAdmin(a) == a.role = "admin" /\ a.on
ActiveAdmins == {u \in Users : IsActiveAdmin(account[u])}

Init ==
    /\ account = [u \in Users |-> [role |-> Seed[u], on |-> Seed[u] # NoRole]]
    /\ at = [t \in Requests |-> "idle"]
    /\ asks = [t \in Requests |-> NoRequest]
    /\ wants = [t \in Requests |-> {}]
    /\ seen = [t \in Requests |-> Missing]
    /\ holder = [k \in Users \cup {Database} |-> Nobody]

-----------------------------------------------------------------------------
\* The change r makes to the account a.
Changed(a, r) ==
    IF r.op = "active" THEN [a EXCEPT !.on = r.on] ELSE [a EXCEPT !.role = r.role]

\* A request that may add to the active admins.
AddsAdmin(r) == IF r.op = "active" THEN r.on ELSE r.role = "admin"

\* Mutant of TakesAdmin: a change to the same role counts as a demotion.
TakesAdmin_AnyRole(t) ==
    IsActiveAdmin(seen[t]) /\ (asks[t].op = "active" => ~asks[t].on)

\* Whether request t takes an active admin away, from what it read.
TakesAdmin(t) == IsActiveAdmin(seen[t]) /\ ~IsActiveAdmin(Changed(seen[t], asks[t]))

\* The end of a transaction, and of the request: every lock is released.
Finish(t) ==
    /\ at' = [at EXCEPT ![t] = "idle"]
    /\ asks' = [asks EXCEPT ![t] = NoRequest]
    /\ wants' = [wants EXCEPT ![t] = {}]
    /\ seen' = [seen EXCEPT ![t] = Missing]
    /\ holder' = [k \in Users \cup {Database} |-> IF holder[k] = t THEN Nobody ELSE holder[k]]

\* A write that needs lock k waits while another transaction holds it.
Free(k, t) == holder[k] \in {Nobody, t}

-----------------------------------------------------------------------------
\* An active admin sends a request and passes the role check of the route.
Gate(t, r) ==
    /\ at[t] = "idle"
    /\ ActiveAdmins # {}
    /\ AddsAdmin(r) => NewAdmins
    /\ at' = [at EXCEPT ![t] = "gated"]
    /\ asks' = [asks EXCEPT ![t] = r]
    /\ UNCHANGED <<account, wants, seen, holder>>

\* A user is created, active, unless the e-mail address is taken.  The admins
\* are not locked; on SQLite the INSERT waits for the database's write lock.
CreateUser(t) ==
    /\ at[t] = "gated"
    /\ asks[t].op = "create"
    /\ Free(Database, t)
    /\ account' = IF account[asks[t].user] = Missing
                  THEN [account EXCEPT ![asks[t].user] = [role |-> asks[t].role, on |-> TRUE]]
                  ELSE account
    /\ Finish(t)

\* Mutant of LockActiveAdmins: the transaction starts without a lock.
LockActiveAdmins_None(t) ==
    /\ at[t] = "gated"
    /\ asks[t].op # "create"
    /\ at' = [at EXCEPT ![t] = "locking"]
    /\ wants' = [wants EXCEPT ![t] = {}]
    /\ UNCHANGED <<account, asks, seen, holder>>

\* Mutant of LockActiveAdmins: only the row of the target is locked.
LockActiveAdmins_Target(t) ==
    /\ at[t] = "gated"
    /\ asks[t].op # "create"
    /\ at' = [at EXCEPT ![t] = "locking"]
    /\ wants' = [wants EXCEPT ![t] = {asks[t].user}]
    /\ UNCHANGED <<account, asks, seen, holder>>

\* _lock_active_admins starts: BEGIN IMMEDIATE, or SELECT ... FOR UPDATE, which
\* settles here which rows it will visit.
LockActiveAdmins(t) ==
    /\ at[t] = "gated"
    /\ asks[t].op # "create"
    /\ at' = [at EXCEPT ![t] = "locking"]
    /\ wants' = [wants EXCEPT ![t] = IF Dialect = "sqlite" THEN {Database} ELSE ActiveAdmins]
    /\ UNCHANGED <<account, asks, seen, holder>>

\* The lock k is free and taken.  A row that is no longer an active admin's by
\* now is passed over.
TakeLock(t, k) ==
    /\ at[t] = "locking"
    /\ k \in wants[t]
    /\ holder[k] = Nobody
    /\ wants' = [wants EXCEPT ![t] = @ \ {k}]
    /\ holder' = IF k = Database \/ k \in ActiveAdmins
                 THEN [holder EXCEPT ![k] = t] ELSE holder
    /\ UNCHANGED <<account, at, asks, seen>>

\* Mutant of LoadUser: a user that does not exist is taken as it comes.
LoadUser_Missing(t) ==
    /\ at[t] = "locking"
    /\ wants[t] = {}
    /\ seen' = [seen EXCEPT ![t] = account[asks[t].user]]
    /\ at' = [at EXCEPT ![t] = "loaded"]
    /\ UNCHANGED <<account, asks, wants, holder>>

\* The target is read; a user that does not exist is an error.
LoadUser(t) ==
    /\ at[t] = "locking"
    /\ wants[t] = {}
    /\ IF account[asks[t].user] = Missing
       THEN Finish(t)
       ELSE /\ seen' = [seen EXCEPT ![t] = account[asks[t].user]]
            /\ at' = [at EXCEPT ![t] = "loaded"]
            /\ UNCHANGED <<asks, wants, holder>>
    /\ UNCHANGED account

\* LastAdminError: the count of the other active admins is zero.
RejectLastAdmin(t) ==
    /\ at[t] = "loaded"
    /\ TakesAdmin(t)
    /\ ActiveAdmins \ {asks[t].user} = {}
    /\ Finish(t)
    /\ UNCHANGED account

PassCheck(t) ==
    /\ at[t] = "loaded"
    /\ TakesAdmin(t) => ActiveAdmins \ {asks[t].user} # {}
    /\ at' = [at EXCEPT ![t] = "checked"]
    /\ UNCHANGED <<account, asks, wants, seen, holder>>

\* The change is written, unless it changes nothing of what was read, and
\* committed with its audit event, which tells seen[t].role as the old role.
Commit(t) ==
    /\ at[t] = "checked"
    /\ LET u == asks[t].user
       IN  IF Changed(seen[t], asks[t]) = seen[t]
           THEN UNCHANGED account
           ELSE /\ Free(u, t)
                /\ account' = [account EXCEPT ![u] = Changed(@, asks[t])]
    /\ Finish(t)

\* A transaction that waits for a lock fails: SQLite's busy timeout, the
\* deadlock detector of PostgreSQL.
Waits(t) ==
    \/ at[t] = "gated" /\ asks[t].op = "create" /\ ~Free(Database, t)
    \/ at[t] = "locking" /\ \E k \in wants[t] : ~Free(k, t)
    \/ at[t] = "checked" /\ ~Free(asks[t].user, t)
GiveUp(t) == Waits(t) /\ Finish(t) /\ UNCHANGED account

-----------------------------------------------------------------------------
Next ==
    \E t \in Requests :
        \/ \E r \in Asks : Gate(t, r)
        \/ CreateUser(t)
        \/ LockActiveAdmins(t)
        \/ \E k \in Users \cup {Database} : TakeLock(t, k)
        \/ LoadUser(t)
        \/ RejectLastAdmin(t)
        \/ PassCheck(t)
        \/ Commit(t)
        \/ GiveUp(t)

Spec == Init /\ [][Next]_vars

-----------------------------------------------------------------------------
TypeOK ==
    /\ account \in [Users -> Existing \cup {Missing}]
    /\ at \in [Requests -> {"idle", "gated", "locking", "loaded", "checked"}]
    /\ asks \in [Requests -> Asks \cup {NoRequest}]
    /\ \A t \in Requests : at[t] = "gated" => asks[t] \in Asks
    /\ \A t \in Requests : at[t] \in {"locking", "loaded", "checked"} =>
                               asks[t] \in ChangeRole \cup SetActive
    /\ \A t \in Requests : at[t] \in {"loaded", "checked"} =>
                               account[asks[t].user] \in Existing
    /\ wants \in [Requests -> SUBSET (Users \cup {Database})]
    /\ seen \in [Requests -> Existing \cup {Missing}]
    /\ holder \in [Users \cup {Database} -> Requests \cup {Nobody}]

(***************************************************************************)
(* The lockout: whatever requests run at once, the application never has   *)
(* zero active admins.  (user_service: "an action that would leave the app *)
(* with zero active admins is rejected outright")                          *)
(***************************************************************************)
SomeActiveAdmin == ActiveAdmins # {}

(***************************************************************************)
(* A request that passed the check is about to change the account it read: *)
(* nobody else's change has come in between, so the old role that its      *)
(* audit event tells is the one it replaces.  (update_role, old_role)      *)
(***************************************************************************)
DecidedOnCurrent ==
    \A t \in Requests : at[t] \in {"loaded", "checked"} => seen[t] = account[asks[t].user]

(***************************************************************************)
(* The lockout is no stricter than it says: a request is refused with      *)
(* LastAdminError only when granting it would leave no active admin now.   *)
(* (update_role: "a no-op change to the same role never reduces the number *)
(* of admins")                                                             *)
(***************************************************************************)
WouldLockOut(r) ==
    \A u \in Users : ~IsActiveAdmin(IF u = r.user THEN Changed(account[u], r) ELSE account[u])
RefusedOnlyLast ==
    \A t \in Requests : at[t] = "loaded" /\ at'[t] = "idle" => WouldLockOut(asks[t])
RejectionsJustified == [][RefusedOnlyLast]_vars
=============================================================================
