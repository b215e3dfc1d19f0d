-------------------------- MODULE UserAdminProofs ---------------------------
(***************************************************************************)
(* The last-active-admin lockout, for any number of accounts and of        *)
(* concurrent requests: on SQLite always, on PostgreSQL as long as no      *)
(* request makes an admin.                                                 *)
(*                                                                         *)
(* The argument: what a request locks, or has still to lock, covers every  *)
(* lock that a rival would need (Covered), so two requests are never both  *)
(* past their locks, so what a request read and counted is still so when   *)
(* it commits.                                                             *)
(***************************************************************************)
EXTENDS UserAdmin, TLAPS

\* Every type-correct state steps to a type-correct one (all handlers).
LEMMA TypedStep == TypeOK /\ [Next]_vars => TypeOK'
<1> SUFFICES ASSUME TypeOK, [Next]_vars PROVE TypeOK'
    OBVIOUS
<1> USE UserAdminAssumption
<1> DEFINE Good(A) == A \in [Users -> Existing \cup {Missing}]
<1> DEFINE Keeps == \A u \in Users : account[u] \in Existing => account'[u] \in Existing
<1>0. Missing \notin Existing
    BY DEF Missing, Existing
<1>u. \A r \in Asks : r.user \in Users
    BY DEF Asks, Create, ChangeRole, SetActive
<1>1. ASSUME NEW t \in Requests, Finish(t), Good(account'), Keeps
      PROVE  TypeOK'
    <2>1. /\ at' \in [Requests -> {"idle", "gated", "locking", "loaded", "checked"}]
          /\ asks' \in [Requests -> Asks \cup {NoRequest}]
          /\ wants' \in [Requests -> SUBSET (Users \cup {Database})]
        BY <1>1 DEF TypeOK, Finish
    <2>2. seen' \in [Requests -> Existing \cup {Missing}]
        BY <1>1 DEF TypeOK, Finish
    <2>3. holder' \in [Users \cup {Database} -> Requests \cup {Nobody}]
        BY <1>1 DEF TypeOK, Finish
    <2>4. ASSUME NEW s \in Requests, at'[s] # "idle"
          PROVE  s # t /\ at'[s] = at[s] /\ asks'[s] = asks[s]
        BY <1>1, <2>4 DEF TypeOK, Finish
    <2>5. ASSUME NEW s \in Requests, at'[s] \in {"loaded", "checked"}
          PROVE  account'[asks'[s].user] \in Existing
        <3>1. at[s] \in {"loaded", "checked"} /\ asks'[s] = asks[s]
            BY <2>4, <2>5
        <3>2. asks[s].user \in Users /\ account[asks[s].user] \in Existing
            BY <3>1, <1>u DEF TypeOK, Asks
        <3> QED
            BY <1>1, <3>1, <3>2
    <2> QED
        BY <1>1, <2>1, <2>2, <2>3, <2>4, <2>5 DEF TypeOK
<1>2. ASSUME NEW t \in Requests, NEW r \in Asks, Gate(t, r)
      PROVE  TypeOK'
    BY <1>2 DEF TypeOK, Gate
<1>3. ASSUME NEW t \in Requests, CreateUser(t)
      PROVE  TypeOK'
    <2> DEFINE u == asks[t].user
    <2>1. asks[t] \in Create
        BY <1>3 DEF TypeOK, CreateUser, Asks, ChangeRole, SetActive, Create
    <2>2. [role |-> asks[t].role, on |-> TRUE] \in Existing /\ u \in Users
        BY <2>1 DEF Create, Existing
    <2>3. Good(account') /\ Keeps
        BY <1>3, <2>2 DEF TypeOK, CreateUser
    <2> QED
        BY <1>1, <1>3, <2>3 DEF CreateUser
<1>4. ASSUME NEW t \in Requests, LockActiveAdmins(t)
      PROVE  TypeOK'
    BY <1>4 DEF TypeOK, LockActiveAdmins, Asks, Create, ActiveAdmins
<1>5. ASSUME NEW t \in Requests, NEW k \in Users \cup {Database}, TakeLock(t, k)
      PROVE  TypeOK'
    BY <1>5 DEF TypeOK, TakeLock
<1>6. ASSUME NEW t \in Requests, LoadUser(t)
      PROVE  TypeOK'
    <2>1. asks[t].user \in Users
        BY <1>6, <1>u DEF TypeOK, LoadUser, Asks
    <2>2. CASE account[asks[t].user] = Missing
        BY <1>1, <1>6, <2>2 DEF LoadUser, TypeOK
    <2>3. CASE account[asks[t].user] # Missing
        BY <1>6, <2>1, <2>3 DEF LoadUser, TypeOK
    <2> QED
        BY <2>2, <2>3
<1>7. ASSUME NEW t \in Requests, RejectLastAdmin(t) \/ GiveUp(t)
      PROVE  TypeOK'
    BY <1>1, <1>7 DEF RejectLastAdmin, GiveUp, TypeOK
<1>8. ASSUME NEW t \in Requests, PassCheck(t)
      PROVE  TypeOK'
    BY <1>8 DEF TypeOK, PassCheck
<1>9. ASSUME NEW t \in Requests, Commit(t)
      PROVE  TypeOK'
    <2> DEFINE u == asks[t].user
    <2>1. asks[t] \in ChangeRole \cup SetActive /\ u \in Users
        BY <1>9 DEF TypeOK, Commit, ChangeRole, SetActive
    <2>2. CASE Changed(seen[t], asks[t]) = seen[t]
        BY <1>1, <1>9, <2>2 DEF Commit, TypeOK
    <2>3. CASE Changed(seen[t], asks[t]) # seen[t]
        <3>1. account' = [account EXCEPT ![u] = Changed(account[u], asks[t])]
            BY <1>9, <2>1, <2>3 DEF Commit, TypeOK
        <3>2. account[u] \in Existing
            BY <1>9 DEF Commit, TypeOK
        <3>3. Changed(account[u], asks[t]) \in Existing
            BY <2>1, <3>2 DEF Changed, Existing, ChangeRole, SetActive
        <3>4. Good(account') /\ Keeps
            BY <2>1, <3>1, <3>3 DEF TypeOK
        <3> QED
            BY <1>1, <1>9, <3>4 DEF Commit
    <2> QED
        BY <2>2, <2>3
<1> QED
    BY <1>2, <1>3, <1>4, <1>5, <1>6, <1>7, <1>8, <1>9 DEF Next, TypeOK, vars

\* The accounts of seed_demo_users and idle requests have their types.
LEMMA TypedInit == Init => TypeOK
<1> SUFFICES ASSUME Init PROVE TypeOK
    OBVIOUS
<1>1. account \in [Users -> Existing \cup {Missing}]
    <2>1. \A u \in Users : [role |-> Seed[u], on |-> Seed[u] # NoRole] \in Existing \cup {Missing}
        BY UserAdminAssumption DEF Existing, Missing
    <2> QED
        BY <2>1 DEF Init
<1>2. \A t \in Requests : at[t] = "idle"
    BY DEF Init
<1>3. holder \in [Users \cup {Database} -> Requests \cup {Nobody}]
    BY DEF Init
<1>4. at \in [Requests -> {"idle"}] /\ seen \in [Requests -> {Missing}]
    BY DEF Init
<1>5. asks \in [Requests -> {NoRequest}] /\ wants \in [Requests -> {{}}]
    BY DEF Init
<1> QED
    BY <1>1, <1>2, <1>3, <1>4, <1>5 DEF TypeOK

\* Every variable keeps its type.
THEOREM UserAdminTyped == Spec => []TypeOK
BY TypedInit, TypedStep, PTL DEF Spec

-----------------------------------------------------------------------------
(* The inductive invariant.                                                *)

\* The steps of one request.
Step(t) ==
    \/ \E r \in Asks : Gate(t, r)
    \/ CreateUser(t)
    \/ LockActiveAdmins(t)
    \/ \E k \in Users \cup {Database} : TakeLock(t, k)
    \/ LoadUser(t)
    \/ RejectLastAdmin(t)
    \/ PassCheck(t)
    \/ Commit(t)
    \/ GiveUp(t)

\* The locks a request must hold for its check to be safe.
Guards == IF Dialect = "sqlite" THEN {Database} ELSE ActiveAdmins

InTransaction(t) == at[t] \in {"locking", "loaded", "checked"}
PastLocks(t) == InTransaction(t) /\ wants[t] = {}

\* A request in its transaction holds each such lock or has still to take it.
Covered ==
    \A t \in Requests : InTransaction(t) =>
        /\ \A k \in Guards : k \in wants[t] \/ holder[k] = t
        /\ at[t] # "locking" => wants[t] = {}

\* Only where new admins are made does a request ask for one.
AsksAllowed == \A t \in Requests : at[t] # "idle" /\ AddsAdmin(asks[t]) => NewAdmins

\* What a request counted still holds when it is about to write.
Counted ==
    \A t \in Requests : at[t] = "checked" /\ TakesAdmin(t) =>
        ActiveAdmins \ {asks[t].user} # {}

LockoutInv ==
    TypeOK /\ SomeActiveAdmin /\ Covered /\ AsksAllowed /\ DecidedOnCurrent /\ Counted

\* Where the locks are enough: always on SQLite, on PostgreSQL without new admins.
LocksSuffice == Dialect = "sqlite" \/ ~NewAdmins

-----------------------------------------------------------------------------
\* Two requests are never both past their locks.
LEMMA OnePastLocks ==
    ASSUME LockoutInv, NEW s \in Requests, NEW t \in Requests,
           PastLocks(s), PastLocks(t)
    PROVE  s = t
<1>1. PICK k \in Guards : TRUE
    BY DEF LockoutInv, SomeActiveAdmin, Guards
<1>2. holder[k] = s /\ holder[k] = t
    BY <1>1 DEF LockoutInv, Covered, PastLocks
<1> QED
    BY <1>2

\* A step of one request leaves the others where they are, and their locks.
LEMMA OthersStay ==
    ASSUME TypeOK, NEW t \in Requests, Step(t), NEW s \in Requests, s # t
    PROVE  /\ at'[s] = at[s] /\ asks'[s] = asks[s]
           /\ wants'[s] = wants[s] /\ seen'[s] = seen[s]
           /\ \A k \in Users \cup {Database} : holder[k] = s => holder'[k] = s
<1> USE UserAdminAssumption
<1>1. CASE Finish(t)
    BY <1>1 DEF Finish, TypeOK
<1>2. ASSUME NEW k \in Users \cup {Database}, TakeLock(t, k)
      PROVE  /\ at'[s] = at[s] /\ asks'[s] = asks[s]
             /\ wants'[s] = wants[s] /\ seen'[s] = seen[s]
             /\ \A l \in Users \cup {Database} : holder[l] = s => holder'[l] = s
    BY <1>2 DEF TakeLock, TypeOK
<1>3. CASE LoadUser(t)
    BY <1>1, <1>3 DEF LoadUser, TypeOK
<1>4. ASSUME NEW r \in Asks, Gate(t, r)
      PROVE  /\ at'[s] = at[s] /\ asks'[s] = asks[s]
             /\ wants'[s] = wants[s] /\ seen'[s] = seen[s] /\ holder' = holder
    BY <1>4 DEF Gate, TypeOK
<1>5. CASE LockActiveAdmins(t) \/ PassCheck(t)
    BY <1>5 DEF LockActiveAdmins, PassCheck, TypeOK
<1> QED
    BY <1>1, <1>2, <1>3, <1>4, <1>5
    DEF Step, CreateUser, RejectLastAdmin, Commit, GiveUp

\* What a step does to the accounts: an admin is left, a rival needs no lock it
\* did not need before, and a request past its locks sees nothing disturbed.
LEMMA AccountStep ==
    ASSUME LockoutInv, LocksSuffice, NEW t \in Requests, Step(t)
    PROVE  /\ SomeActiveAdmin'
           /\ Guards' \subseteq Guards
           /\ \A s \in Requests \ {t} : PastLocks(s) => ActiveAdmins \subseteq ActiveAdmins'
           /\ \A s \in Requests \ {t} : at[s] \in {"loaded", "checked"} =>
                 account'[asks[s].user] = account[asks[s].user]
<1> USE UserAdminAssumption
<1>u. \A r \in Asks : r.user \in Users
    BY DEF Asks, Create, ChangeRole, SetActive
<1>1. CASE account' = account
    BY <1>1 DEF LockoutInv, SomeActiveAdmin, ActiveAdmins, Guards
<1>2. CASE CreateUser(t) /\ account' # account
    <2> DEFINE u == asks[t].user
               new == [role |-> asks[t].role, on |-> TRUE]
    <2>1. account[u] = Missing /\ u \in Users /\ account' = [account EXCEPT ![u] = new]
        BY <1>2, <1>u DEF CreateUser, LockoutInv, TypeOK
    <2>2. \A v \in Users : v # u => account'[v] = account[v]
        BY <2>1 DEF LockoutInv, TypeOK
    <2>3. account'[u] = new
        BY <2>1 DEF LockoutInv, TypeOK
    <2>4. ~IsActiveAdmin(account[u])
        BY <2>1 DEF IsActiveAdmin, Missing
    <2>5. ActiveAdmins \subseteq ActiveAdmins'
        BY <2>2, <2>4 DEF ActiveAdmins
    <2>6. ~NewAdmins => ActiveAdmins' = ActiveAdmins
        <3>1. asks[t].op = "create" /\ at[t] # "idle"
            BY <1>2 DEF CreateUser
        <3>2. ~NewAdmins => asks[t].role # "admin"
            BY <3>1 DEF LockoutInv, AsksAllowed, AddsAdmin
        <3>3. ~NewAdmins => ~IsActiveAdmin(account'[u])
            BY <2>3, <3>2 DEF IsActiveAdmin
        <3> QED
            BY <2>2, <2>4, <3>3 DEF ActiveAdmins
    <2>7. Guards' \subseteq Guards
        BY <2>6 DEF Guards, LocksSuffice
    <2>8. ASSUME NEW s \in Requests \ {t}, at[s] \in {"loaded", "checked"}
          PROVE  account'[asks[s].user] = account[asks[s].user]
        <3>1. account[asks[s].user] \in Existing /\ asks[s].user \in Users
            BY <2>8, <1>u DEF LockoutInv, TypeOK, Asks
        <3>2. Missing \notin Existing
            BY DEF Missing, Existing
        <3> QED
            BY <2>1, <2>2, <3>1, <3>2
    <2> QED
        BY <2>5, <2>7, <2>8 DEF LockoutInv, SomeActiveAdmin
<1>3. CASE Commit(t) /\ account' # account
    <2> DEFINE u == asks[t].user
               r == asks[t]
    <2>1. at[t] = "checked" /\ r \in ChangeRole \cup SetActive /\ u \in Users
        BY <1>3, <1>u DEF Commit, LockoutInv, TypeOK, Asks
    <2>2. account[u] = seen[t] /\ account[u] \in Existing
        BY <2>1 DEF LockoutInv, DecidedOnCurrent, TypeOK
    <2>3. account' = [account EXCEPT ![u] = Changed(account[u], r)]
        BY <1>3, <2>1 DEF Commit, LockoutInv, TypeOK
    <2>4. \A v \in Users : v # u => account'[v] = account[v]
        BY <2>3 DEF LockoutInv, TypeOK
    <2>5. account'[u] = Changed(account[u], r)
        BY <2>1, <2>3 DEF LockoutInv, TypeOK
    <2>6. PastLocks(t)
        BY <2>1 DEF LockoutInv, Covered, PastLocks, InTransaction
    <2>7. \A s \in Requests \ {t} : ~PastLocks(s) /\ at[s] \notin {"loaded", "checked"}
        BY <2>6, OnePastLocks DEF LockoutInv, Covered, PastLocks, InTransaction
    <2>8. SomeActiveAdmin'
        <3>1. CASE TakesAdmin(t)
            <4>1. PICK v \in ActiveAdmins \ {u} : TRUE
                BY <2>1, <3>1 DEF LockoutInv, Counted
            <4> QED
                BY <2>4, <4>1 DEF SomeActiveAdmin, ActiveAdmins
        <3>2. CASE ~TakesAdmin(t)
            <4>1. IsActiveAdmin(account[u]) => IsActiveAdmin(account'[u])
                BY <2>2, <2>5, <3>2 DEF TakesAdmin
            <4>2. ActiveAdmins \subseteq ActiveAdmins'
                BY <2>4, <4>1 DEF ActiveAdmins
            <4> QED
                BY <4>2 DEF LockoutInv, SomeActiveAdmin
        <3> QED
            BY <3>1, <3>2
    <2>9. ~NewAdmins => Guards' \subseteq Guards
        <3>1. ~NewAdmins => ~AddsAdmin(r)
            BY <2>1 DEF LockoutInv, AsksAllowed
        <3>2. IsActiveAdmin(Changed(account[u], r)) => IsActiveAdmin(account[u]) \/ AddsAdmin(r)
            BY <2>1, <2>2 DEF IsActiveAdmin, Changed, AddsAdmin, Existing, ChangeRole, SetActive
        <3>3. ~NewAdmins => ActiveAdmins' \subseteq ActiveAdmins
            BY <2>4, <2>5, <3>1, <3>2 DEF ActiveAdmins
        <3> QED
            BY <3>3 DEF Guards
    <2>10. Guards' \subseteq Guards
        BY <2>9 DEF Guards, LocksSuffice
    <2> QED
        BY <2>7, <2>8, <2>10
<1> QED
    BY <1>1, <1>2, <1>3
    DEF Step, Gate, LockActiveAdmins, TakeLock, LoadUser, RejectLastAdmin, PassCheck, GiveUp

\* The invariant holds for the request that took the step.
LEMMA OwnStep ==
    ASSUME LockoutInv, LocksSuffice, NEW t \in Requests, Step(t), TypeOK',
           Guards' \subseteq Guards
    PROVE  /\ InTransaction(t)' =>
                /\ \A k \in Guards' : k \in wants'[t] \/ holder'[k] = t
                /\ at'[t] # "locking" => wants'[t] = {}
           /\ at'[t] # "idle" /\ AddsAdmin(asks'[t]) => NewAdmins
           /\ at'[t] \in {"loaded", "checked"} => seen'[t] = account'[asks'[t].user]
           /\ at'[t] = "checked" /\ TakesAdmin(t)' => (ActiveAdmins \ {asks[t].user})' # {}
<1> USE UserAdminAssumption
<1>1. CASE at'[t] = "idle"
    BY <1>1 DEF InTransaction
<1>2. CASE at[t] = "idle" /\ \E r \in Asks : Gate(t, r)
    BY <1>2 DEF Gate, InTransaction, LockoutInv, TypeOK
<1>3. CASE LockActiveAdmins(t)
    <2>1. at'[t] = "locking" /\ asks' = asks /\ at[t] = "gated"
        BY <1>3 DEF LockActiveAdmins, LockoutInv, TypeOK
    <2>2. wants'[t] = Guards
        BY <1>3 DEF LockActiveAdmins, LockoutInv, TypeOK, Guards
    <2> QED
        BY <2>1, <2>2 DEF LockoutInv, AsksAllowed
<1>4. ASSUME NEW l \in Users \cup {Database}, TakeLock(t, l), at'[t] # "idle"
      PROVE  /\ \A k \in Guards' : k \in wants'[t] \/ holder'[k] = t
             /\ at'[t] = "locking" /\ at[t] = "locking" /\ asks' = asks
    <2>1. at'[t] = "locking" /\ at[t] = "locking" /\ asks' = asks /\ at' = at
        BY <1>4 DEF TakeLock
    <2>2. ASSUME NEW k \in Guards
          PROVE  k \in wants'[t] \/ holder'[k] = t
        <3>1. k \in Users \cup {Database} /\ (k \in ActiveAdmins \/ k = Database)
            BY <2>2 DEF Guards, ActiveAdmins
        <3>2. k \in wants[t] \/ holder[k] = t
            BY <2>1 DEF LockoutInv, Covered, InTransaction
        <3>3. CASE k = l
            BY <1>4, <3>1, <3>3 DEF TakeLock, LockoutInv, TypeOK
        <3>4. CASE k # l
            BY <1>4, <3>1, <3>2, <3>4 DEF TakeLock, LockoutInv, TypeOK
        <3> QED
            BY <3>3, <3>4
    <2> QED
        BY <2>1, <2>2
<1>5. CASE LoadUser(t) /\ at'[t] # "idle"
    <2>1. /\ at[t] = "locking" /\ wants[t] = {} /\ at'[t] = "loaded"
          /\ wants' = wants /\ holder' = holder /\ asks' = asks /\ account' = account
          /\ seen'[t] = account[asks[t].user]
        BY <1>5 DEF LoadUser, Finish, LockoutInv, TypeOK
    <2>2. \A k \in Guards : holder[k] = t
        BY <2>1 DEF LockoutInv, Covered, InTransaction
    <2> QED
        BY <2>1, <2>2 DEF LockoutInv, AsksAllowed
<1>6. CASE PassCheck(t)
    <2>1. /\ at[t] = "loaded" /\ at'[t] = "checked" /\ account' = account /\ asks' = asks
          /\ wants' = wants /\ seen' = seen /\ holder' = holder
          /\ TakesAdmin(t) => ActiveAdmins \ {asks[t].user} # {}
        BY <1>6 DEF PassCheck, LockoutInv, TypeOK
    <2>2. (\A k \in Guards : holder[k] = t) /\ wants[t] = {}
        BY <2>1 DEF LockoutInv, Covered, InTransaction
    <2>3. TakesAdmin(t)' <=> TakesAdmin(t)
        BY <2>1 DEF TakesAdmin, Changed
    <2>4. (ActiveAdmins \ {asks[t].user})' = ActiveAdmins \ {asks[t].user}
        BY <2>1 DEF ActiveAdmins
    <2>5. AddsAdmin(asks[t]) => NewAdmins
        BY <2>1 DEF LockoutInv, AsksAllowed
    <2> QED
        BY <2>1, <2>2, <2>3, <2>4, <2>5 DEF LockoutInv, DecidedOnCurrent
<1>7. ASSUME Finish(t) PROVE at'[t] = "idle"
    BY <1>7 DEF Finish, LockoutInv, TypeOK
<1>8. CASE \E l \in Users \cup {Database} : TakeLock(t, l)
    BY <1>1, <1>4, <1>8 DEF LockoutInv, AsksAllowed
<1> QED
    BY <1>1, <1>2, <1>3, <1>5, <1>6, <1>7, <1>8
    DEF Step, Gate, CreateUser, RejectLastAdmin, Commit, GiveUp

\* The invariant holds for every other request.
LEMMA OtherStep ==
    ASSUME LockoutInv, LocksSuffice, NEW t \in Requests, Step(t), TypeOK',
           NEW s \in Requests \ {t}
    PROVE  /\ InTransaction(s)' =>
                /\ \A k \in Guards' : k \in wants'[s] \/ holder'[k] = s
                /\ at'[s] # "locking" => wants'[s] = {}
           /\ at'[s] # "idle" /\ AddsAdmin(asks'[s]) => NewAdmins
           /\ at'[s] \in {"loaded", "checked"} => seen'[s] = account'[asks'[s].user]
           /\ at'[s] = "checked" /\ TakesAdmin(s)' => (ActiveAdmins \ {asks[s].user})' # {}
<1>1. /\ at'[s] = at[s] /\ asks'[s] = asks[s] /\ wants'[s] = wants[s] /\ seen'[s] = seen[s]
      /\ \A k \in Users \cup {Database} : holder[k] = s => holder'[k] = s
    BY OthersStay DEF LockoutInv
<1>2. /\ Guards' \subseteq Guards
      /\ PastLocks(s) => ActiveAdmins \subseteq ActiveAdmins'
      /\ at[s] \in {"loaded", "checked"} => account'[asks[s].user] = account[asks[s].user]
    BY AccountStep
<1>3. Guards \subseteq Users \cup {Database}
    BY DEF Guards, ActiveAdmins
<1>4. InTransaction(s)' =>
        /\ \A k \in Guards' : k \in wants'[s] \/ holder'[k] = s
        /\ at'[s] # "locking" => wants'[s] = {}
    BY <1>1, <1>2, <1>3 DEF LockoutInv, Covered, InTransaction
<1>5. at'[s] # "idle" /\ AddsAdmin(asks'[s]) => NewAdmins
    BY <1>1 DEF LockoutInv, AsksAllowed
<1>6. at'[s] \in {"loaded", "checked"} => seen'[s] = account'[asks'[s].user]
    BY <1>1, <1>2 DEF LockoutInv, DecidedOnCurrent
<1>7. ASSUME at'[s] = "checked", TakesAdmin(s)'
      PROVE  (ActiveAdmins \ {asks[s].user})' # {}
    <2>1. at[s] = "checked" /\ TakesAdmin(s)
        BY <1>1, <1>7 DEF TakesAdmin
    <2>2. PastLocks(s)
        BY <2>1 DEF LockoutInv, Covered, PastLocks, InTransaction
    <2>3. ActiveAdmins \ {asks[s].user} # {}
        BY <2>1 DEF LockoutInv, Counted
    <2> QED
        BY <1>1, <1>2, <2>2, <2>3
<1> QED
    BY <1>4, <1>5, <1>6, <1>7

\* The invariant is inductive.
LEMMA LockoutStep == LocksSuffice /\ LockoutInv /\ [Next]_vars => LockoutInv'
<1> SUFFICES ASSUME LocksSuffice, LockoutInv, [Next]_vars
             PROVE  LockoutInv'
    OBVIOUS
<1>1. CASE UNCHANGED vars
    BY <1>1 DEF vars, LockoutInv, TypeOK, SomeActiveAdmin, Covered, AsksAllowed,
                DecidedOnCurrent, Counted, ActiveAdmins, Guards, InTransaction, TakesAdmin
<1>2. ASSUME NEW t \in Requests, Step(t)
      PROVE  LockoutInv'
    <2>1. TypeOK'
        BY TypedStep DEF LockoutInv
    <2>2. SomeActiveAdmin' /\ Guards' \subseteq Guards
        BY <1>2, AccountStep
    <2>3. Covered'
        BY <1>2, <2>1, <2>2, OwnStep, OtherStep DEF Covered
    <2>4. AsksAllowed'
        BY <1>2, <2>1, <2>2, OwnStep, OtherStep DEF AsksAllowed
    <2>5. DecidedOnCurrent'
        BY <1>2, <2>1, <2>2, OwnStep, OtherStep DEF DecidedOnCurrent
    <2>6. Counted'
        BY <1>2, <2>1, <2>2, OwnStep, OtherStep DEF Counted
    <2> QED
        BY <2>1, <2>2, <2>3, <2>4, <2>5, <2>6 DEF LockoutInv
<1> QED
    BY <1>1, <1>2 DEF Next, Step

\* The invariant holds after the seed users are created.
LEMMA LockoutInit == Init => LockoutInv
<1> SUFFICES ASSUME Init PROVE LockoutInv
    OBVIOUS
<1>1. TypeOK
    BY TypedInit
<1>2. SomeActiveAdmin
    <2>1. PICK u \in Users : Seed[u] = "admin"
        BY UserAdminAssumption
    <2> QED
        BY <2>1, UserAdminAssumption DEF Init, SomeActiveAdmin, ActiveAdmins, IsActiveAdmin
<1>3. \A t \in Requests : at[t] = "idle"
    BY DEF Init
<1> QED
    BY <1>1, <1>2, <1>3
    DEF LockoutInv, Covered, AsksAllowed, DecidedOnCurrent, Counted, InTransaction

(***************************************************************************)
(* The lockout holds: whatever the requests, never zero active admins, on  *)
(* SQLite, and on PostgreSQL when no request makes an admin.               *)
(* (user_service._lock_active_admins, update_role, set_active)             *)
(***************************************************************************)
THEOREM LockoutHolds ==
    ASSUME LocksSuffice
    PROVE  Spec => []SomeActiveAdmin
<1>1. LockoutInv => SomeActiveAdmin
    BY DEF LockoutInv
<1>2. LockoutInv /\ [Next]_vars => LockoutInv'
    BY LockoutStep
<1> QED
    BY <1>1, <1>2, LockoutInit, PTL DEF Spec

(***************************************************************************)
(* No decision is taken on a stale account: what an update_role or a       *)
(* set_active request read is what it changes, under the same conditions.  *)
(* (user_service.update_role, old_role)                                    *)
(***************************************************************************)
THEOREM DecisionsCurrent ==
    ASSUME LocksSuffice
    PROVE  Spec => []DecidedOnCurrent
<1>1. LockoutInv => DecidedOnCurrent
    BY DEF LockoutInv
<1>2. LockoutInv /\ [Next]_vars => LockoutInv'
    BY LockoutStep
<1> QED
    BY <1>1, <1>2, LockoutInit, PTL DEF Spec

-----------------------------------------------------------------------------
\* A request that ends with its target loaded is one that was refused.
LEMMA RefusedStep ==
    ASSUME TypeOK, Next, NEW t \in Requests, at[t] = "loaded", at'[t] = "idle"
    PROVE  RejectLastAdmin(t)
<1>1. PICK s \in Requests : Step(s)
    BY DEF Next, Step
<1>2. s = t
    BY <1>1, OthersStay
<1>3. ~GiveUp(t) /\ ~PassCheck(t)
    BY DEF GiveUp, Waits, PassCheck, TypeOK
<1> QED
    BY <1>1, <1>2, <1>3
    DEF Step, Gate, CreateUser, LockActiveAdmins, TakeLock, LoadUser, Commit

\* What takes the admin role or the activity from one account takes it from any.
LEMMA TakesAdminFromAll ==
    ASSUME TypeOK, NEW t \in Requests, at[t] = "loaded", TakesAdmin(t)
    PROVE  \A u \in Users : ~IsActiveAdmin(Changed(account[u], asks[t]))
<1> USE UserAdminAssumption
<1>1. seen[t] \in Existing \cup {Missing} /\ asks[t] \in ChangeRole \cup SetActive
    BY DEF TypeOK
<1>2. \A u \in Users : account[u] \in Existing \cup {Missing}
    BY DEF TypeOK
<1>3. IsActiveAdmin(seen[t]) /\ ~IsActiveAdmin(Changed(seen[t], asks[t]))
    BY DEF TakesAdmin
<1>4. CASE asks[t].op = "active"
    <2>1. \A a \in Existing \cup {Missing} :
              Changed(a, asks[t]).on = asks[t].on /\ Changed(a, asks[t]).role = a.role
        BY <1>4 DEF Changed, Existing, Missing
    <2> QED
        BY <1>1, <1>2, <1>3, <2>1 DEF IsActiveAdmin
<1>5. CASE asks[t].op # "active"
    <2>1. \A a \in Existing \cup {Missing} :
              Changed(a, asks[t]).role = asks[t].role /\ Changed(a, asks[t]).on = a.on
        BY <1>5 DEF Changed, Existing, Missing
    <2> QED
        BY <1>1, <1>2, <1>3, <2>1 DEF IsActiveAdmin
<1> QED
    BY <1>4, <1>5

(***************************************************************************)
(* The lockout refuses nothing it need not, on either database and however *)
(* requests overlap: whoever is refused would have left no active admin.   *)
(* It takes no lock to be so: what the refused request counts is the state *)
(* it is refused in.  (user_service.update_role, set_active)               *)
(***************************************************************************)
THEOREM RejectionsNeeded == Spec => RejectionsJustified
<1>1. ASSUME TypeOK, [Next]_vars PROVE [RefusedOnlyLast]_vars
    <2> SUFFICES ASSUME Next, NEW t \in Requests, at[t] = "loaded", at'[t] = "idle"
                 PROVE  WouldLockOut(asks[t])
        BY <1>1 DEF RefusedOnlyLast
    <2>1. TakesAdmin(t) /\ ActiveAdmins \ {asks[t].user} = {}
        BY <1>1, RefusedStep DEF RejectLastAdmin
    <2>2. \A u \in Users : ~IsActiveAdmin(Changed(account[u], asks[t]))
        BY <1>1, <2>1, TakesAdminFromAll
    <2>3. \A u \in Users : u # asks[t].user => ~IsActiveAdmin(account[u])
        BY <2>1 DEF ActiveAdmins
    <2> QED
        BY <2>2, <2>3 DEF WouldLockOut
<1> QED
    BY <1>1, UserAdminTyped, PTL DEF Spec, RejectionsJustified
=============================================================================
