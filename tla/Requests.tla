------------------------------ MODULE Requests ------------------------------
(***************************************************************************)
(* Requests of signed-in users: the authentication and the role check at   *)
(* the door, and behind it the comments, assignments, moves and tickets of *)
(* a finding, the administration of integration targets and of users.      *)
(*                                                                         *)
(* A request loads its user once, at the door, and keeps what it read; it  *)
(* writes later.  In between other requests commit.  The writes of one     *)
(* request are one transaction.  A ticket is made outside the database,    *)
(* between the read of the group and the write of its reference.           *)
(*                                                                         *)
(* The guard against losing the last admin is in UserAdmin.  What a move   *)
(* does to snapshots and exceptions, and the moves of a scan, are in       *)
(* FindingWorkflow, where every move is one step; here it is the overlap   *)
(* of two moves that matters.  Passwords, the audit rows of sign-ins and   *)
(* of refusals, and the words of comments are left out.                    *)
(***************************************************************************)
EXTENDS Access, FiniteSets

CONSTANTS
    Users, Groups, Targets,
    Webhooks,     \* the targets whose adapter really calls the outside
    AskedMoves,   \* the statuses that requests ask for
    Slots,        \* requests that may be open at once
    FirstAdmin,   \* the admin that seeding the application makes
    None,
    MaxArrivals,  \* bound on the requests let in
    MaxCreds      \* bound on the credentials in use at once

ASSUME RequestsAssumption ==
    /\ Webhooks \subseteq Targets
    /\ FirstAdmin \in Users
    /\ None \notin Users \cup Targets
    /\ AskedMoves \subseteq Status
    /\ MaxArrivals \in Nat
    /\ MaxCreds \in Nat

VARIABLES
    role,      \* app_user.role
    isActive,  \* app_user.is_active
    version,   \* how often a user or a target has changed
    target,    \* integration_target: "absent", "on" or "off"
    ticket,    \* finding_group.ticket_ref, as the number of a ticket, 0 if none
    tickets,   \* the tickets made outside, numbered as they were made
    assignee,  \* finding_group.assignee_id
    status,    \* finding_group.current_status
    activity,  \* what the drawer's timeline shows of a group: its comments,
               \* assignment events and status history, each in the order of
               \* the commits (which the ids that the drawer sorts by need not
               \* follow on PostgreSQL, where two requests overlap)
    creds,     \* the session cookies and tokens that have been issued
    req,       \* the open request of each slot
    arrivals   \* requests let in so far

vars == <<role, isActive, version, target, ticket, tickets, assignee, status,
          activity, creds, req, arrivals>>
accounts == <<role, isActive>>
findings == <<ticket, tickets, assignee, status, activity>>

-----------------------------------------------------------------------------
\* What may be asked for.
Op(kind, groups, whom, what) == [kind |-> kind, groups |-> groups, whom |-> whom, what |-> what]
Comments == {Op("comment", {g}, None, None) : g \in Groups}
Assignments == {Op("assign", S, u, None) : S \in SUBSET Groups \ {{}}, u \in Users \cup {None}}
Moves == {Op("move", S, None, to) : S \in SUBSET Groups \ {{}}, to \in AskedMoves}
\* The findings pages and the drawer sweep before they show anything: the groups
\* whose exception has come to its date are reopened.
Sweeps == {Op("sweep", S, None, "open") : S \in SUBSET Groups \ {{}}}
Tickets == {Op("ticket", {g}, None, t) : g \in Groups, t \in Targets}
TargetEdits == {Op("target", {}, t, s) : t \in Targets, s \in {"absent", "on", "off"}}
RoleEdits == {Op("role", {}, u, r) : u \in Users, r \in ROLES \cup {NoRole}}
Activations == {Op("active", {}, u, a) : u \in Users, a \in {"active", "inactive"}}
Operations ==
    Comments \cup Assignments \cup Moves \cup Sweeps \cup Tickets
    \cup TargetEdits \cup RoleEdits \cup Activations

Capability(op) == CASE op.kind = "sweep" -> "read_only"
                    [] op.kind \in {"comment", "assign", "move", "ticket"} -> "analyst"
                    [] OTHER -> "admin"

Kinds == {"cookie", "token"}
Claims == [user : Users, kind : Kinds, role : ROLES]

\* A request: who makes it, with the role it was let in with and the version of
\* the account it read; how far it is; what it has read since.
Idle == [step |-> "idle"]
Admit(u, as, op) ==
    [step |-> "admitted", user |-> u, role |-> as, version |-> version[u], op |-> op,
     unread |-> op.groups, prior |-> [g \in Groups |-> None],
     targetVersion |-> 0, alone |-> TRUE, ticket |-> 0]

Init ==
    /\ role = [u \in Users |-> IF u = FirstAdmin THEN "admin" ELSE "analyst"]
    /\ isActive = [u \in Users |-> TRUE]
    /\ version = [x \in Users \cup Targets |-> 0]
    /\ target = [t \in Targets |-> "absent"]
    /\ ticket = [g \in Groups |-> 0]
    /\ tickets = <<>>
    /\ assignee = [g \in Groups |-> None]
    /\ status = [g \in Groups |-> "open"]
    /\ activity = [g \in Groups |-> <<>>]
    /\ creds = {}
    /\ req = [s \in Slots |-> Idle]
    /\ arrivals = 0

-----------------------------------------------------------------------------
\* Signing in: the user is active; a token says which role it was issued under.
Login(u, kind) ==
    /\ isActive[u]
    /\ Cardinality(creds) < MaxCreds
    /\ creds' = creds \cup {[user |-> u, kind |-> kind, role |-> role[u]]}
    /\ UNCHANGED <<accounts, version, target, findings, req, arrivals>>

\* A cookie ends with a logout, which the door lets an active user make; a
\* token ends with its time.
Logout(c) ==
    /\ c \in creds
    /\ c.kind = "cookie" => isActive[c.user]
    /\ creds' = creds \ {c}
    /\ UNCHANGED <<accounts, version, target, findings, req, arrivals>>

\* Mutant of Loaded: the role is taken from the credential.
Loaded_Claim(c) == c.role
\* The role a request goes by: the user's, as it is at the door.
Loaded(c) == role[c.user]

\* The door: the credential's user is loaded, must be active and of the role
\* the operation asks for.  Whoever is refused changes nothing.
Arrive(s, c, op) ==
    /\ req[s].step = "idle"
    /\ arrivals < MaxArrivals
    /\ c \in creds
    /\ isActive[c.user]
    /\ at_least(Loaded(c), Capability(op))
    /\ req' = [req EXCEPT ![s] = Admit(c.user, Loaded(c), op)]
    /\ arrivals' = arrivals + 1
    /\ UNCHANGED <<accounts, version, target, findings, creds>>

At(s, step, kind) == req[s].step = step /\ req[s].op.kind = kind
End(s) == req' = [req EXCEPT ![s] = Idle]

-----------------------------------------------------------------------------
\* Comments, assignment and moves.
Commented == [kind |-> "comment", from |-> None, to |-> None]
Assigned(from, to) == [kind |-> "assign", from |-> from, to |-> to]

AddComment(s) ==
    /\ At(s, "admitted", "comment")
    /\ activity' = [g \in Groups |-> IF g \in req[s].op.groups
                                     THEN Append(activity[g], Commented) ELSE activity[g]]
    /\ End(s)
    /\ UNCHANGED <<accounts, version, target, ticket, tickets, assignee, status, creds, arrivals>>

\* The groups of the request are read one after the other, its writes come
\* together: what was read of any of them may be stale by then.
ReadGroup(s, g, known) ==
    /\ g \in req[s].unread
    /\ req' = [req EXCEPT ![s] = [@ EXCEPT !.unread = req[s].unread \ {g},
                                         !.prior = [req[s].prior EXCEPT ![g] = known]]]
    /\ UNCHANGED <<accounts, version, target, findings, creds, arrivals>>
ReadAssignee(s, g) == At(s, "admitted", "assign") /\ ReadGroup(s, g, assignee[g])
ReadStatus(s, g) ==
    (At(s, "admitted", "move") \/ At(s, "admitted", "sweep")) /\ ReadGroup(s, g, status[g])

Reassigned(s) == {g \in req[s].op.groups : req[s].prior[g] # req[s].op.whom}

\* One event per group whose assignee changes, as far as the request knows.
CommitAssign(s) ==
    /\ At(s, "admitted", "assign")
    /\ req[s].unread = {}
    /\ assignee' = [g \in Groups |-> IF g \in Reassigned(s) THEN req[s].op.whom ELSE assignee[g]]
    /\ activity' = [g \in Groups |-> IF g \in Reassigned(s)
                                     THEN Append(activity[g], Assigned(req[s].prior[g], req[s].op.whom))
                                     ELSE activity[g]]
    /\ End(s)
    /\ UNCHANGED <<accounts, version, target, ticket, tickets, status, creds, arrivals>>

\* The groups that may move from the status the request read; a sweep moves
\* those it found suppressed or accepted.
Moved(s) ==
    {g \in req[s].op.groups :
        IF req[s].op.kind = "sweep" THEN req[s].prior[g] \in ExceptionStatuses
        ELSE CanTransition(req[s].prior[g], req[s].op.what)}
MoveEvent(from, to) == [kind |-> "move", from |-> from, to |-> to]

\* Mutant of CommitMove: a sweep writes to every group it was told of, and
\* records those that it found in an exception.
CommitMove_Unconditional(s) ==
    /\ At(s, "admitted", "move") \/ At(s, "admitted", "sweep")
    /\ req[s].unread = {}
    /\ status' = [g \in Groups |-> IF g \in req[s].op.groups THEN req[s].op.what ELSE status[g]]
    /\ activity' = [g \in Groups |-> IF g \in Moved(s)
                                     THEN Append(activity[g], MoveEvent(req[s].prior[g], req[s].op.what))
                                     ELSE activity[g]]
    /\ End(s)
    /\ UNCHANGED <<accounts, version, target, ticket, tickets, assignee, creds, arrivals>>

\* Each group that moves gets its status and one line of history, over
\* whatever another request has committed since the read.
CommitMove(s) ==
    /\ At(s, "admitted", "move") \/ At(s, "admitted", "sweep")
    /\ req[s].unread = {}
    /\ status' = [g \in Groups |-> IF g \in Moved(s) THEN req[s].op.what ELSE status[g]]
    /\ activity' = [g \in Groups |-> IF g \in Moved(s)
                                     THEN Append(activity[g], MoveEvent(req[s].prior[g], req[s].op.what))
                                     ELSE activity[g]]
    /\ End(s)
    /\ UNCHANGED <<accounts, version, target, ticket, tickets, assignee, creds, arrivals>>

-----------------------------------------------------------------------------
\* Tickets.
OnlyGroup(op) == CHOOSE g \in Groups : op.groups = {g}
GroupOf(s) == OnlyGroup(req[s].op)
MakesTicket(s) == req[s].step \in {"checked", "calling", "answered"}
Rivals(s) == {q \in Slots \ {s} : MakesTicket(q) /\ GroupOf(q) = GroupOf(s)}

\* Mutant of HasTicket: the reference is not looked at.
HasTicket_Unread(g) == FALSE
HasTicket(g) == ticket[g] # 0

\* The group has no ticket: a request that meets another one for the group is
\* not alone any more, and neither is the other.
CheckTicket(s) ==
    /\ At(s, "admitted", "ticket")
    /\ ~HasTicket(GroupOf(s))
    /\ req' = [q \in Slots |->
                 IF q = s THEN [req[s] EXCEPT !.step = "checked", !.alone = Rivals(s) = {}]
                 ELSE IF q \in Rivals(s) THEN [req[q] EXCEPT !.alone = FALSE] ELSE req[q]]
    /\ UNCHANGED <<accounts, version, target, findings, creds, arrivals>>

\* The target is there and enabled.
CheckTarget(s) ==
    /\ req[s].step = "checked"
    /\ target[req[s].op.what] = "on"
    /\ req' = [req EXCEPT ![s] = [@ EXCEPT !.step = "calling",
                                         !.targetVersion = version[req[s].op.what]]]
    /\ UNCHANGED <<accounts, version, target, findings, creds, arrivals>>

\* create_ticket refuses: a ticket is there already, or the target is not on.
RefuseTicket(s) ==
    /\ \/ At(s, "admitted", "ticket") /\ HasTicket(GroupOf(s))
       \/ req[s].step = "checked" /\ target[req[s].op.what] # "on"
    /\ End(s)
    /\ UNCHANGED <<accounts, version, target, findings, creds, arrivals>>

Ticket(s, outcome) == [group |-> GroupOf(s), alone |-> req[s].alone, outcome |-> outcome]

\* The adapter makes the ticket and answers.
Deliver(s) ==
    /\ req[s].step = "calling"
    /\ tickets' = Append(tickets, Ticket(s, "open"))
    /\ req' = [req EXCEPT ![s] = [@ EXCEPT !.step = "answered", !.ticket = Len(tickets) + 1]]
    /\ UNCHANGED <<accounts, version, target, ticket, assignee, status, activity, creds, arrivals>>

\* A webhook is not reached or refuses, or it took the call and its answer is
\* lost: IntegrationError, and nothing is written.
AnswerLost(s) ==
    /\ req[s].step = "calling"
    /\ req[s].op.what \in Webhooks
    /\ \/ UNCHANGED tickets
       \/ tickets' = Append(tickets, Ticket(s, "lost"))
    /\ End(s)
    /\ UNCHANGED <<accounts, version, target, ticket, assignee, status, activity, creds, arrivals>>

\* The reference is written, over whatever is there.
CommitTicket(s) ==
    /\ req[s].step = "answered"
    /\ ticket' = [ticket EXCEPT ![GroupOf(s)] = req[s].ticket]
    /\ tickets' = [tickets EXCEPT ![req[s].ticket] = Ticket(s, "kept")]
    /\ End(s)
    /\ UNCHANGED <<accounts, version, target, assignee, status, activity, creds, arrivals>>

-----------------------------------------------------------------------------
\* Administration: a target is made, enabled, disabled or deleted.
Touch(x) == version' = [version EXCEPT ![x] = @ + 1]

ChangeTarget(s) ==
    LET t == req[s].op.whom  asked == req[s].op.what IN
    /\ At(s, "admitted", "target")
    /\ asked = "on" \/ target[t] # "absent"
    /\ target' = [target EXCEPT ![t] = asked]
    /\ Touch(t)
    /\ End(s)
    /\ UNCHANGED <<accounts, findings, creds, arrivals>>

\* A user's role and activation, unless nobody would be left to administer
\* (what UserAdmin shows of the requests that change users).
OtherAdmins(u) == {x \in Users \ {u} : isActive[x] /\ role[x] = "admin"}

\* Mutant of ChangeRole: any role is taken.
ChangeRole_AnyRole(s) ==
    LET u == req[s].op.whom  asked == req[s].op.what IN
    /\ At(s, "admitted", "role")
    /\ isActive[u] /\ role[u] = "admin" /\ asked # "admin" => OtherAdmins(u) # {}
    /\ role' = [role EXCEPT ![u] = asked]
    /\ Touch(u)
    /\ End(s)
    /\ UNCHANGED <<isActive, target, findings, creds, arrivals>>
ChangeRole(s) ==
    LET u == req[s].op.whom  asked == req[s].op.what IN
    /\ At(s, "admitted", "role")
    /\ asked \in ROLES
    /\ isActive[u] /\ role[u] = "admin" /\ asked # "admin" => OtherAdmins(u) # {}
    /\ role' = [role EXCEPT ![u] = asked]
    /\ Touch(u)
    /\ End(s)
    /\ UNCHANGED <<isActive, target, findings, creds, arrivals>>

ChangeActive(s) ==
    LET u == req[s].op.whom  asked == req[s].op.what IN
    /\ At(s, "admitted", "active")
    /\ isActive[u] /\ role[u] = "admin" /\ asked = "inactive" => OtherAdmins(u) # {}
    /\ isActive' = [isActive EXCEPT ![u] = asked = "active"]
    /\ Touch(u)
    /\ End(s)
    /\ UNCHANGED <<role, target, findings, creds, arrivals>>

\* A request ends without its write: refused by the service, a lock that times
\* out, an error, a process that stops.  What it made outside stays there.
Fail(s) ==
    /\ req[s].step # "idle"
    /\ tickets' = IF req[s].step = "answered"
                  THEN [tickets EXCEPT ![req[s].ticket] = Ticket(s, "lost")] ELSE tickets
    /\ End(s)
    /\ UNCHANGED <<accounts, version, target, ticket, assignee, status, activity, creds, arrivals>>

-----------------------------------------------------------------------------
Next ==
    \/ \E u \in Users, kind \in Kinds : Login(u, kind)
    \/ \E c \in creds : Logout(c)
    \/ \E s \in Slots, c \in creds, op \in Operations : Arrive(s, c, op)
    \/ \E s \in Slots :
          \/ AddComment(s) \/ CommitAssign(s) \/ CommitMove(s)
          \/ \E g \in Groups : ReadAssignee(s, g) \/ ReadStatus(s, g)
          \/ CheckTicket(s) \/ CheckTarget(s) \/ RefuseTicket(s)
          \/ Deliver(s) \/ AnswerLost(s) \/ CommitTicket(s)
          \/ ChangeTarget(s) \/ ChangeRole(s) \/ ChangeActive(s) \/ Fail(s)

Spec == Init /\ [][Next]_vars

-----------------------------------------------------------------------------
Steps == {"admitted", "checked", "calling", "answered"}
Named == Users \cup {None} \cup Status   \* what an event of the timeline goes from and to
OpenRequest ==
    [step : Steps, user : Users, role : ROLES, version : Nat, op : Operations,
     unread : SUBSET Groups, prior : [Groups -> Named],
     targetVersion : Nat, alone : BOOLEAN, ticket : Nat]
TypeOK ==
    /\ role \in [Users -> ROLES]
    /\ isActive \in [Users -> BOOLEAN]
    /\ version \in [Users \cup Targets -> Nat]
    /\ target \in [Targets -> {"absent", "on", "off"}]
    /\ ticket \in [Groups -> Nat]
    /\ tickets \in Seq([group : Groups, alone : BOOLEAN, outcome : {"open", "kept", "lost"}])
    /\ assignee \in [Groups -> Users \cup {None}]
    /\ status \in [Groups -> Status]
    /\ \A g \in Groups : activity[g] \in
          Seq([kind : {"comment", "assign", "move"}, from : Named, to : Named])
    /\ creds \subseteq Claims
    /\ req \in [Slots -> OpenRequest \cup {Idle}]
    /\ arrivals \in 0 .. MaxArrivals

(***************************************************************************)
(* What a request was let in for still holds while it is open, unless the  *)
(* account was changed meanwhile: a token issued under an earlier role, or *)
(* to an account that is deactivated since, lets nothing in.  The same     *)
(* goes for the target a ticket is about to be made with.                  *)
(* (api.auth._authenticate_request, web._load_user, create_ticket)         *)
(***************************************************************************)
DecisionsFresh ==
    \A s \in Slots : req[s].step # "idle" =>
        LET r == req[s] IN
        /\ r.version = version[r.user] =>
              isActive[r.user] /\ at_least(role[r.user], Capability(r.op))
        /\ r.step = "calling" /\ r.targetVersion = version[r.op.what] =>
              target[r.op.what] = "on"

(***************************************************************************)
(* Every ticket made outside is accounted for: the finding refers to it,   *)
(* or its request has not ended, or its answer or its write was lost, or   *)
(* it was made while another request for the same finding was under way.   *)
(* In particular a retry after an answer that came makes no second ticket. *)
(* (ticket_service.create_ticket, the check of ticket_ref)                 *)
(***************************************************************************)
TicketsAccountedFor ==
    /\ \A g \in Groups : ticket[g] # 0 =>
          /\ ticket[g] \in DOMAIN tickets
          /\ tickets[ticket[g]].group = g /\ tickets[ticket[g]].outcome = "kept"
    /\ \A i \in DOMAIN tickets :
          /\ tickets[i].outcome = "open" =>
                \E s \in Slots : req[s].step = "answered" /\ req[s].ticket = i
          /\ tickets[i].outcome = "kept" /\ tickets[i].alone =>
                /\ ticket[tickets[i].group] = i
                /\ \A j \in DOMAIN tickets \ {i} :
                      tickets[j].group = tickets[i].group => tickets[j].outcome = "lost"

(***************************************************************************)
(* Whatever requests overlap, each of them deciding on what it read before *)
(* another one committed, the trail of a finding still explains it: the    *)
(* last line of its history leads to its status and the last assignment    *)
(* to its assignee; every move is one the state machine permits; and no    *)
(* line starts where the finding has never been.  (Two lines may start at  *)
(* the same place: nothing makes the requests wait for each other.)        *)
(* (workflow_service.transition, exception_service.expire_exceptions,      *)
(* collaboration.assign, bulk_service)                                     *)
(***************************************************************************)
Own(h, kind) == {i \in DOMAIN h : h[i].kind = kind}
Explains(h, kind, first, present) ==
    /\ Own(h, kind) = {} => present = first
    /\ \A i \in Own(h, kind) :
          /\ (\A j \in Own(h, kind) : j <= i) => h[i].to = present
          /\ h[i].from = first \/ \E j \in Own(h, kind) : j < i /\ h[j].to = h[i].from
PermittedMoves(h) == \A i \in Own(h, "move") : CanTransition(h[i].from, h[i].to)
TrailsExplain ==
    \A g \in Groups :
        /\ Explains(activity[g], "assign", None, assignee[g])
        /\ Explains(activity[g], "move", "open", status[g])
        /\ PermittedMoves(activity[g])
=============================================================================
