--------------------------- MODULE RequestsProofs ---------------------------
(***************************************************************************)
(* Requests, for any number of users, findings, targets and requests at a  *)
(* time: what a request was let in for still holds, no ticket made outside *)
(* goes missing, the trail of a finding explains it, and all that a public *)
(* deployment ever writes is what its pages sweep.                         *)
(*                                                                         *)
(* The argument for tickets: a request that makes one alone knows that its *)
(* finding has none (Unticketed), because whoever would write a reference  *)
(* meanwhile has met it (Met); once a reference is written no request      *)
(* passes the check again (Settled).                                       *)
(*                                                                         *)
(* The argument for the trails: what a request has read of a finding is    *)
(* where that has been (ReadsSeen), so that the line it adds starts at a   *)
(* place the trail has passed.                                             *)
(***************************************************************************)
EXTENDS Requests, SequenceTheorems, FiniteFacts

\* Writing an entry of a sequence, if there is one, leaves its type.
LEMMA OverwriteInSeq ==
    ASSUME NEW S, NEW t \in Seq(S), NEW x \in S, NEW i
    PROVE  [t EXCEPT ![i] = x] \in Seq(S)
<1>1. t \in [1 .. Len(t) -> S] /\ Len(t) \in Nat
    OBVIOUS
<1>2. [t EXCEPT ![i] = x] \in [1 .. Len(t) -> S]
    BY <1>1
<1> QED
    BY <1>1, <1>2, SeqDef

LEMMA AppendInSeq ==
    ASSUME NEW S, NEW t \in Seq(S), NEW x \in S
    PROVE  Append(t, x) \in Seq(S)
    OBVIOUS

\* What every operation that may be asked for looks like.
LEMMA OperationShape ==
    ASSUME NEW op \in Operations
    PROVE  /\ op.groups \in SUBSET Groups
           /\ op.kind = "assign" => op.whom \in Users \cup {None}
           /\ op.kind \in {"move", "sweep"} => op.what \in Status
           /\ op.kind = "sweep" => op.what = "open"
           /\ op.kind = "ticket" => op.what \in Targets /\ \E g \in Groups : op.groups = {g}
           /\ op.kind = "target" => op.whom \in Targets /\ op.what \in {"absent", "on", "off"}
           /\ op.kind \in {"role", "active"} => op.whom \in Users
<1>1. CASE op \in Moves \cup Sweeps
    BY <1>1, RequestsAssumption DEF Moves, Sweeps, Op, Status
<1>2. CASE op \notin Moves \cup Sweeps
    BY <1>2, SMTT(30) DEF Operations, Comments, Assignments, Tickets, TargetEdits, RoleEdits,
                          Activations, Op
<1> QED
    BY <1>1, <1>2

\* The finding of a request for a ticket is a finding.
LEMMA OnlyGroupIsAGroup ==
    ASSUME NEW op \in Operations, op.kind = "ticket"
    PROVE  OnlyGroup(op) \in Groups
    BY OperationShape DEF OnlyGroup

-----------------------------------------------------------------------------
\* Beyond their types: only requests for tickets go on from the door.
OnlyTicketsGoOn ==
    \A s \in Slots : MakesTicket(s) => req[s].op.kind = "ticket"

Typed == TypeOK /\ OnlyTicketsGoOn

LEMMA TypedInit == Init => Typed
<1> SUFFICES ASSUME Init PROVE Typed
    OBVIOUS
<1> USE RequestsAssumption
<1>1. role \in [Users -> ROLES] /\ creds \subseteq Claims
    BY DEF Init, ROLES
<1>2. tickets \in Seq([group : Groups, alone : BOOLEAN, outcome : {"open", "kept", "lost"}])
    BY DEF Init
<1>3. \A g \in Groups : activity[g] \in
          Seq([kind : {"comment", "assign", "move"}, from : Named, to : Named])
    BY DEF Init
<1>4. req \in [Slots -> OpenRequest \cup {Idle}] /\ OnlyTicketsGoOn
    BY DEF Init, Idle, OnlyTicketsGoOn, MakesTicket
<1> QED
    BY <1>1, <1>2, <1>3, <1>4 DEF Init, TypeOK, Typed, Status

\* A request that ends leaves its slot free and the others as they are.
LEMMA EndTyped ==
    ASSUME Typed, NEW s \in Slots, End(s)
    PROVE  req' \in [Slots -> OpenRequest \cup {Idle}] /\ OnlyTicketsGoOn'
    BY DEF Typed, TypeOK, End, OnlyTicketsGoOn, MakesTicket, Idle

\* The finding of a request that makes a ticket.
LEMMA GroupOfMaker ==
    ASSUME Typed, NEW s \in Slots, MakesTicket(s)
    PROVE  GroupOf(s) \in Groups /\ req[s] \in OpenRequest /\ req[s].op.what \in Targets
<1>1. req[s] \in OpenRequest /\ req[s].op.kind = "ticket"
    BY DEF Typed, TypeOK, OnlyTicketsGoOn, MakesTicket, Idle
<1>2. req[s].op \in Operations
    BY <1>1 DEF OpenRequest
<1> QED
    BY <1>1, <1>2, OnlyGroupIsAGroup, OperationShape DEF GroupOf

LEMMA TypedStep == Typed /\ [Next]_vars => Typed'
<1> SUFFICES ASSUME Typed, [Next]_vars PROVE Typed'
    OBVIOUS
<1> USE RequestsAssumption
<1> DEFINE TicketRow == [group : Groups, alone : BOOLEAN, outcome : {"open", "kept", "lost"}]
<1> DEFINE Event == [kind : {"comment", "assign", "move"}, from : Named, to : Named]
<1> DEFINE ReqTyped == req' \in [Slots -> OpenRequest \cup {Idle}] /\ OnlyTicketsGoOn'
<1>0. TypeOK /\ OnlyTicketsGoOn
    BY DEF Typed
<1>a. ASSUME NEW s \in Slots, req[s].step # "idle"
      PROVE  req[s] \in OpenRequest /\ req[s].op \in Operations
    BY <1>a, <1>0 DEF TypeOK, Idle, OpenRequest
<1>1. ASSUME NEW u \in Users, NEW kind \in Kinds, Login(u, kind)
      PROVE  Typed'
    <2>1. [user |-> u, kind |-> kind, role |-> role[u]] \in Claims
        BY <1>0 DEF TypeOK, Claims
    <2> QED
        BY <1>0, <1>1, <2>1 DEF Typed, TypeOK, Login, accounts, findings, OnlyTicketsGoOn, MakesTicket
<1>2. ASSUME NEW c \in creds, Logout(c)
      PROVE  Typed'
    BY <1>0, <1>2 DEF Typed, TypeOK, Logout, accounts, findings, OnlyTicketsGoOn, MakesTicket
<1>3. ASSUME NEW s \in Slots, NEW c \in creds, NEW op \in Operations, Arrive(s, c, op)
      PROVE  Typed'
    <2>1. c.user \in Users
        BY <1>0 DEF TypeOK, Claims
    <2>2. Admit(c.user, Loaded(c), op) \in OpenRequest
        BY <1>0, <2>1, OperationShape DEF Admit, Loaded, OpenRequest, Named, Steps, TypeOK
    <2>3. Admit(c.user, Loaded(c), op).step = "admitted"
        BY DEF Admit
    <2>4. ReqTyped
        BY <1>0, <1>3, <2>2, <2>3 DEF Arrive, TypeOK, OnlyTicketsGoOn, MakesTicket
    <2>5. arrivals' \in 0 .. MaxArrivals
        BY <1>0, <1>3 DEF TypeOK, Arrive
    <2>6. UNCHANGED <<role, isActive, version, target, ticket, tickets, assignee, status, activity, creds>>
        BY <1>3 DEF Arrive, accounts, findings
    <2> QED
        BY <1>0, <2>4, <2>5, <2>6 DEF Typed, TypeOK
<1>4. ASSUME NEW s \in Slots, AddComment(s)
      PROVE  Typed'
    <2>1. ReqTyped
        BY <1>4, EndTyped DEF AddComment
    <2>2. Commented \in Event
        BY DEF Commented, Named
    <2>3. \A g \in Groups : activity'[g] \in Seq(Event)
        <3> TAKE g \in Groups
        <3>1. activity[g] \in Seq(Event)
            BY <1>0 DEF TypeOK
        <3>2. activity'[g] = Append(activity[g], Commented) \/ activity'[g] = activity[g]
            BY <1>4 DEF AddComment
        <3> HIDE DEF Event
        <3>3. Append(activity[g], Commented) \in Seq(Event)
            BY <2>2, <3>1, AppendInSeq
        <3> QED
            BY <3>1, <3>2, <3>3
    <2> QED
        BY <1>0, <1>4, <2>1, <2>3 DEF Typed, TypeOK, AddComment, accounts
<1>5. ASSUME NEW s \in Slots, CommitAssign(s)
      PROVE  Typed'
    <2>1. ReqTyped
        BY <1>5, EndTyped DEF CommitAssign
    <2>2. req[s].op.whom \in Users \cup {None} /\ req[s].prior \in [Groups -> Named]
        BY <1>5, <1>a, OperationShape DEF CommitAssign, At, OpenRequest
    <2>3. \A g \in Groups : Assigned(req[s].prior[g], req[s].op.whom) \in Event
        BY <2>2 DEF Assigned, Named
    <2>4. \A g \in Groups : activity'[g] \in Seq(Event)
        <3> TAKE g \in Groups
        <3> DEFINE e == Assigned(req[s].prior[g], req[s].op.whom)
        <3>1. activity[g] \in Seq(Event) /\ e \in Event
            BY <1>0, <2>3 DEF TypeOK
        <3>2. activity'[g] = Append(activity[g], e) \/ activity'[g] = activity[g]
            BY <1>5 DEF CommitAssign
        <3> HIDE DEF Event, e
        <3>3. Append(activity[g], e) \in Seq(Event)
            BY <3>1, AppendInSeq
        <3> QED
            BY <3>1, <3>2, <3>3
    <2>5. assignee' \in [Groups -> Users \cup {None}]
        BY <1>0, <1>5, <2>2 DEF CommitAssign, TypeOK
    <2> QED
        BY <1>0, <1>5, <2>1, <2>4, <2>5 DEF Typed, TypeOK, CommitAssign, accounts
<1>c. ASSUME NEW s \in Slots, CommitMove(s)
      PROVE  Typed'
    <2>1. ReqTyped
        BY <1>c, EndTyped DEF CommitMove
    <2>2. req[s].op.what \in Status /\ req[s].prior \in [Groups -> Named]
        BY <1>c, <1>a, OperationShape DEF CommitMove, At, OpenRequest
    <2>3. \A g \in Groups : MoveEvent(req[s].prior[g], req[s].op.what) \in Event
        BY <2>2 DEF MoveEvent, Named
    <2>4. \A g \in Groups : activity'[g] \in Seq(Event)
        <3> TAKE g \in Groups
        <3> DEFINE e == MoveEvent(req[s].prior[g], req[s].op.what)
        <3>1. activity[g] \in Seq(Event) /\ e \in Event
            BY <1>0, <2>3 DEF TypeOK
        <3>2. activity'[g] = Append(activity[g], e) \/ activity'[g] = activity[g]
            BY <1>c DEF CommitMove
        <3> HIDE DEF Event, e
        <3>3. Append(activity[g], e) \in Seq(Event)
            BY <3>1, AppendInSeq
        <3> QED
            BY <3>1, <3>2, <3>3
    <2>5. status' \in [Groups -> Status]
        BY <1>0, <1>c, <2>2 DEF CommitMove, TypeOK
    <2> QED
        BY <1>0, <1>c, <2>1, <2>4, <2>5 DEF Typed, TypeOK, CommitMove, accounts
<1>d. ASSUME NEW s \in Slots, NEW g \in Groups, NEW v \in Named,
             req[s].step = "admitted", ReadGroup(s, g, v)
      PROVE  Typed'
    <2> DEFINE left == req[s].unread \ {g}
    <2> DEFINE known == [req[s].prior EXCEPT ![g] = v]
    <2> DEFINE r == [req[s] EXCEPT !.unread = left, !.prior = known]
    <2>1. req'[s] \in OpenRequest /\ req'[s].step = "admitted"
        <3>1. req[s] \in OpenRequest /\ req[s].step = "admitted"
            BY <1>d, <1>a
        <3>2. req'[s] = r
            BY <1>0, <1>d DEF ReadGroup, TypeOK
        <3>3. known \in [Groups -> Named] /\ left \in SUBSET Groups
            BY <3>1 DEF OpenRequest
        <3> HIDE DEF known, left
        <3>4. r \in OpenRequest /\ r.step = "admitted"
            BY <3>1, <3>3 DEF OpenRequest
        <3> QED
            BY <3>2, <3>4
    <2>2. ReqTyped
        BY <1>0, <1>d, <2>1 DEF ReadGroup, TypeOK, OnlyTicketsGoOn, MakesTicket
    <2> QED
        BY <1>0, <1>d, <2>2 DEF Typed, TypeOK, ReadGroup, accounts, findings
<1>6. ASSUME NEW s \in Slots, NEW g \in Groups, ReadAssignee(s, g) \/ ReadStatus(s, g)
      PROVE  Typed'
    <2>1. assignee[g] \in Named /\ status[g] \in Named
        BY <1>0 DEF TypeOK, Named
    <2> QED
        BY <1>6, <1>d, <2>1 DEF ReadAssignee, ReadStatus, ReadGroup, ReadStatus, At
<1>7. ASSUME NEW s \in Slots, CheckTicket(s)
      PROVE  Typed'
    <2>1. ASSUME NEW q \in Slots
          PROVE  /\ req'[q] \in OpenRequest \cup {Idle}
                 /\ MakesTicket(q)' => req'[q].op.kind = "ticket"
        <3>1. CASE q = s
            <4>1. req[s] \in OpenRequest /\ req[s].op.kind = "ticket"
                BY <1>7, <1>a DEF CheckTicket, At
            <4>2. req'[q] = [req[s] EXCEPT !.step = "checked", !.alone = Rivals(s) = {}]
                BY <1>7, <3>1 DEF CheckTicket
            <4>3. [req[s] EXCEPT !.step = "checked", !.alone = Rivals(s) = {}] \in OpenRequest
                BY <4>1 DEF OpenRequest, Steps
            <4> QED
                BY <4>1, <4>2, <4>3
        <3>2. CASE q # s /\ q \in Rivals(s)
            <4>1. req[q] \in OpenRequest /\ req[q].op.kind = "ticket"
                BY <1>0, <3>2, <1>a DEF Rivals, MakesTicket, OnlyTicketsGoOn
            <4> QED
                BY <1>7, <3>2, <4>1 DEF CheckTicket, OpenRequest
        <3>3. CASE q # s /\ q \notin Rivals(s)
            BY <1>0, <1>7, <3>3 DEF CheckTicket, TypeOK, OnlyTicketsGoOn, MakesTicket
        <3> QED
            BY <3>1, <3>2, <3>3
    <2>2. ReqTyped
        BY <1>7, <2>1 DEF CheckTicket, OnlyTicketsGoOn
    <2> QED
        BY <1>0, <1>7, <2>2 DEF Typed, TypeOK, CheckTicket, accounts, findings
<1>8. ASSUME NEW s \in Slots, CheckTarget(s)
      PROVE  Typed'
    <2>1. req[s] \in OpenRequest /\ req[s].op.kind = "ticket" /\ req[s].op.what \in Targets
        BY <1>0, <1>8, GroupOfMaker DEF CheckTarget, MakesTicket, OnlyTicketsGoOn
    <2>2. req'[s] \in OpenRequest /\ req'[s].op.kind = "ticket"
        BY <1>0, <1>8, <2>1 DEF CheckTarget, OpenRequest, Steps, TypeOK
    <2>3. ReqTyped
        BY <1>0, <1>8, <2>2 DEF CheckTarget, TypeOK, OnlyTicketsGoOn, MakesTicket
    <2> QED
        BY <1>0, <1>8, <2>3 DEF Typed, TypeOK, CheckTarget, accounts, findings
<1>9. ASSUME NEW s \in Slots, RefuseTicket(s)
      PROVE  Typed'
    <2>1. ReqTyped
        BY <1>9, EndTyped DEF RefuseTicket
    <2> QED
        BY <1>0, <1>9, <2>1 DEF Typed, TypeOK, RefuseTicket, accounts, findings
<1>b. ASSUME NEW s \in Slots, NEW o \in {"open", "kept", "lost"}, MakesTicket(s)
      PROVE  Ticket(s, o) \in TicketRow
    BY <1>b, GroupOfMaker DEF Ticket, OpenRequest
<1>10. ASSUME NEW s \in Slots, Deliver(s)
       PROVE  Typed'
    <2>1. req[s] \in OpenRequest /\ req[s].op.kind = "ticket" /\ MakesTicket(s)
        BY <1>0, <1>10, GroupOfMaker DEF Deliver, MakesTicket, OnlyTicketsGoOn
    <2>2. tickets' \in Seq(TicketRow) /\ Len(tickets) \in Nat
        BY <1>0, <1>10, <1>b, <2>1 DEF Deliver, TypeOK
    <2>3. req'[s] \in OpenRequest /\ req'[s].op.kind = "ticket"
        <3> DEFINE r == [req[s] EXCEPT !.step = "answered", !.ticket = Len(tickets) + 1]
        <3>1. req'[s] = r
            BY <1>0, <1>10 DEF Deliver, TypeOK
        <3>2. Len(tickets) + 1 \in Nat
            BY <2>2
        <3>3. r \in OpenRequest /\ r.op.kind = "ticket"
            BY <2>1, <3>2 DEF OpenRequest, Steps
        <3> QED
            BY <3>1, <3>3
    <2>4. ReqTyped
        BY <1>0, <1>10, <2>3 DEF Deliver, TypeOK, OnlyTicketsGoOn, MakesTicket
    <2> QED
        BY <1>0, <1>10, <2>2, <2>4 DEF Typed, TypeOK, Deliver, accounts
<1>11. ASSUME NEW s \in Slots, AnswerLost(s)
       PROVE  Typed'
    <2>1. MakesTicket(s)
        BY <1>11 DEF AnswerLost, MakesTicket
    <2>2. tickets' \in Seq(TicketRow)
        <3>1. tickets \in Seq(TicketRow) /\ Ticket(s, "lost") \in TicketRow
            BY <1>0, <1>b, <2>1 DEF TypeOK
        <3>2. tickets' = tickets \/ tickets' = Append(tickets, Ticket(s, "lost"))
            BY <1>11 DEF AnswerLost
        <3> HIDE DEF TicketRow
        <3>3. Append(tickets, Ticket(s, "lost")) \in Seq(TicketRow)
            BY <3>1, AppendInSeq
        <3> QED
            BY <3>1, <3>2, <3>3
    <2>3. ReqTyped
        BY <1>11, EndTyped DEF AnswerLost
    <2> QED
        BY <1>0, <1>11, <2>2, <2>3 DEF Typed, TypeOK, AnswerLost, accounts
<1>12. ASSUME NEW s \in Slots, CommitTicket(s)
       PROVE  Typed'
    <2>1. MakesTicket(s) /\ GroupOf(s) \in Groups /\ req[s].ticket \in Nat
        BY <1>12, GroupOfMaker DEF CommitTicket, MakesTicket, OpenRequest
    <2>2. tickets' \in Seq(TicketRow)
        <3>1. tickets \in Seq(TicketRow) /\ Ticket(s, "kept") \in TicketRow
            BY <1>0, <1>b, <2>1 DEF TypeOK
        <3> QED
            BY <1>12, <3>1, OverwriteInSeq DEF CommitTicket
    <2>3. ReqTyped
        BY <1>12, EndTyped DEF CommitTicket
    <2> QED
        BY <1>0, <1>12, <2>1, <2>2, <2>3 DEF Typed, TypeOK, CommitTicket, accounts
<1>13. ASSUME NEW s \in Slots, ChangeTarget(s) \/ ChangeRole(s) \/ ChangeActive(s)
       PROVE  Typed'
    <2>1. ReqTyped
        BY <1>13, EndTyped DEF ChangeTarget, ChangeRole, ChangeActive
    <2>2. req[s].op \in Operations
        BY <1>13, <1>a DEF ChangeTarget, ChangeRole, ChangeActive, At
    <2>3. CASE ChangeTarget(s)
        <3>1. req[s].op.whom \in Targets /\ req[s].op.what \in {"absent", "on", "off"}
            BY <2>2, <2>3, OperationShape DEF ChangeTarget, At
        <3> QED
            <4>1. version' \in [Users \cup Targets -> Nat] /\ target' \in [Targets -> {"absent", "on", "off"}]
                BY <1>0, <2>3, <3>1 DEF ChangeTarget, Touch, TypeOK
            <4>2. UNCHANGED <<role, isActive, ticket, tickets, assignee, status, activity, creds, arrivals>>
                BY <2>3 DEF ChangeTarget, accounts, findings
            <4> QED
                BY <1>0, <2>1, <4>1, <4>2 DEF Typed, TypeOK
    <2>4. CASE ChangeRole(s)
        <3>1. req[s].op.whom \in Users
            BY <2>2, <2>4, OperationShape DEF ChangeRole, At
        <3> QED
            <4>1. version' \in [Users \cup Targets -> Nat] /\ role' \in [Users -> ROLES]
                BY <1>0, <2>4, <3>1 DEF ChangeRole, Touch, TypeOK
            <4>2. UNCHANGED <<isActive, target, ticket, tickets, assignee, status, activity, creds, arrivals>>
                BY <2>4 DEF ChangeRole, accounts, findings
            <4> QED
                BY <1>0, <2>1, <4>1, <4>2 DEF Typed, TypeOK
    <2>5. CASE ChangeActive(s)
        <3>1. req[s].op.whom \in Users
            BY <2>2, <2>5, OperationShape DEF ChangeActive, At
        <3> QED
            <4>1. version' \in [Users \cup Targets -> Nat] /\ isActive' \in [Users -> BOOLEAN]
                BY <1>0, <2>5, <3>1 DEF ChangeActive, Touch, TypeOK
            <4>2. UNCHANGED <<role, target, ticket, tickets, assignee, status, activity, creds, arrivals>>
                BY <2>5 DEF ChangeActive, accounts, findings
            <4> QED
                BY <1>0, <2>1, <4>1, <4>2 DEF Typed, TypeOK
    <2> QED
        BY <1>13, <2>3, <2>4, <2>5
<1>14. ASSUME NEW s \in Slots, Fail(s)
       PROVE  Typed'
    <2>1. ReqTyped
        BY <1>14, EndTyped DEF Fail
    <2>2. CASE req[s].step = "answered"
        <3>1. Ticket(s, "lost") \in TicketRow
            BY <1>b, <2>2 DEF MakesTicket
        <3>2. tickets' \in Seq(TicketRow)
            BY <1>0, <1>14, <2>2, <3>1, OverwriteInSeq DEF Fail, TypeOK
        <3> QED
            BY <1>0, <1>14, <2>1, <3>2 DEF Typed, TypeOK, Fail, accounts
    <2>3. CASE req[s].step # "answered"
        BY <1>0, <1>14, <2>1, <2>3 DEF Typed, TypeOK, Fail, accounts
    <2> QED
        BY <2>2, <2>3
<1>15. CASE UNCHANGED vars
    BY <1>0, <1>15 DEF Typed, TypeOK, vars, OnlyTicketsGoOn, MakesTicket
<1> QED
    BY <1>1, <1>2, <1>3, <1>4, <1>5, <1>6, <1>7, <1>8, <1>9, <1>10, <1>11, <1>12, <1>13,
       <1>14, <1>15, <1>c DEF Next

\* Every reachable state is of the declared types: whatever is asked for, a
\* role is one of the ladder and a ticket reference is a number.
THEOREM RequestsTyped == Spec => []TypeOK
<1>1. Spec => []Typed
    BY TypedInit, TypedStep, PTL DEF Spec
<1>2. Typed => TypeOK
    BY DEF Typed
<1> QED
    BY <1>1, <1>2, PTL

-----------------------------------------------------------------------------
\* What the request of a slot knows of its user, and of the target it is about
\* to call, is not from the future, and holds if it is not from the past.
Fresh(s) ==
    LET r == req[s] IN
    /\ r.version <= version[r.user]
    /\ r.version = version[r.user] =>
          isActive[r.user] /\ at_least(role[r.user], Capability(r.op))
    /\ r.step = "calling" =>
          /\ r.targetVersion <= version[r.op.what]
          /\ r.targetVersion = version[r.op.what] => target[r.op.what] = "on"
AllFresh == \A s \in Slots : req[s].step # "idle" => Fresh(s)

\* A request keeps what it knows.
Remembers(q) ==
    req'[q].step # "idle" =>
        /\ req[q].step # "idle"
        /\ req'[q].user = req[q].user /\ req'[q].version = req[q].version
        /\ req'[q].op = req[q].op
        /\ req'[q].step = "calling" =>
              req[q].step = "calling" /\ req'[q].targetVersion = req[q].targetVersion

\* The types of an open request.
LEMMA OpenTypes ==
    ASSUME Typed, NEW s \in Slots, req[s].step # "idle"
    PROVE  /\ req[s] \in OpenRequest /\ req[s].user \in Users /\ req[s].op \in Operations
           /\ req[s].version \in Nat /\ req[s].targetVersion \in Nat
           /\ version[req[s].user] \in Nat
           /\ MakesTicket(s) => req[s].op.what \in Targets /\ version[req[s].op.what] \in Nat
<1>1. req[s] \in OpenRequest
    BY DEF Typed, TypeOK, Idle
<1>2. MakesTicket(s) => req[s].op.what \in Targets
    BY GroupOfMaker
<1> QED
    BY <1>1, <1>2 DEF OpenRequest, Typed, TypeOK

LEMMA QuietKeepsFresh ==
    ASSUME AllFresh, UNCHANGED <<role, isActive, version, target>>,
           \A q \in Slots : Remembers(q)
    PROVE  AllFresh'
    BY DEF AllFresh, Fresh, Remembers

LEMMA EndRemembers ==
    ASSUME Typed, NEW s \in Slots, End(s)
    PROVE  \A q \in Slots : Remembers(q) /\ (q = s => req'[q] = Idle) /\ (q # s => req'[q] = req[q])
    BY DEF End, Remembers, Typed, TypeOK, Idle

LEMMA FreshStep == Typed /\ AllFresh /\ [Next]_vars => AllFresh'
<1> SUFFICES ASSUME Typed, AllFresh, [Next]_vars PROVE AllFresh'
    OBVIOUS
<1>0. TypeOK
    BY DEF Typed
<1>1. ASSUME NEW u \in Users, NEW kind \in Kinds, Login(u, kind)
      PROVE  AllFresh'
    BY <1>1, QuietKeepsFresh DEF Login, accounts, Remembers
<1>2. ASSUME NEW c \in creds, Logout(c)
      PROVE  AllFresh'
    BY <1>2, QuietKeepsFresh DEF Logout, accounts, Remembers
<1>3. ASSUME NEW s \in Slots, NEW c \in creds, NEW op \in Operations, Arrive(s, c, op)
      PROVE  AllFresh'
    <2>1. UNCHANGED <<role, isActive, version, target>> /\ c.user \in Users
        BY <1>0, <1>3 DEF Arrive, accounts, TypeOK, Claims
    <2>2. req'[s] = Admit(c.user, role[c.user], op) /\ \A q \in Slots \ {s} : req'[q] = req[q]
        BY <1>0, <1>3 DEF Arrive, Loaded, TypeOK
    <2>3. isActive[c.user] /\ at_least(role[c.user], Capability(op)) /\ version[c.user] \in Nat
        BY <1>0, <1>3, <2>1 DEF Arrive, Loaded, TypeOK
    <2>4. Fresh(s)'
        BY <2>1, <2>2, <2>3 DEF Fresh, Admit
    <2> QED
        BY <2>1, <2>2, <2>4 DEF AllFresh, Fresh
<1>4. ASSUME NEW s \in Slots,
             AddComment(s) \/ CommitAssign(s) \/ CommitMove(s) \/ RefuseTicket(s) \/ AnswerLost(s)
                \/ CommitTicket(s) \/ Fail(s)
      PROVE  AllFresh'
    <2>1. End(s) /\ UNCHANGED <<role, isActive, version, target>>
        BY <1>4 DEF AddComment, CommitAssign, CommitMove, RefuseTicket, AnswerLost, CommitTicket,
                    Fail, accounts
    <2> QED
        BY <2>1, EndRemembers, QuietKeepsFresh
<1>5. ASSUME NEW s \in Slots, NEW g \in Groups, ReadAssignee(s, g) \/ ReadStatus(s, g)
      PROVE  AllFresh'
    <2>1. \A q \in Slots : Remembers(q)
        <3>1. req[s].step = "admitted" /\ req[s] \in OpenRequest
            BY <1>5, OpenTypes DEF ReadAssignee, ReadStatus, At
        <3>2. /\ req'[s].step = "admitted" /\ req'[s].op = req[s].op
              /\ req'[s].user = req[s].user /\ req'[s].version = req[s].version
              /\ \A q \in Slots \ {s} : req'[q] = req[q]
            <4> DEFINE left == req[s].unread \ {g}
            <4> DEFINE r(v) == [req[s] EXCEPT !.unread = left, !.prior = [req[s].prior EXCEPT ![g] = v]]
            <4>1. PICK v : req' = [req EXCEPT ![s] = r(v)]
                BY <1>5 DEF ReadAssignee, ReadStatus, ReadGroup
            <4>2. req'[s] = r(v) /\ \A q \in Slots \ {s} : req'[q] = req[q]
                BY <1>0, <4>1 DEF TypeOK
            <4>3. /\ r(v).step = req[s].step /\ r(v).op = req[s].op
                  /\ r(v).user = req[s].user /\ r(v).version = req[s].version
                BY <3>1 DEF OpenRequest
            <4> QED
                BY <3>1, <4>2, <4>3
        <3> QED
            BY <3>1, <3>2 DEF Remembers
    <2> QED
        BY <1>5, <2>1, QuietKeepsFresh DEF ReadAssignee, ReadStatus, ReadGroup, accounts
<1>6. ASSUME NEW s \in Slots, CheckTicket(s)
      PROVE  AllFresh'
    <2>1. ASSUME NEW q \in Slots
          PROVE  Remembers(q)
        <3>1. CASE q = s
            BY <1>6, <3>1, OpenTypes DEF CheckTicket, At, Remembers, OpenRequest
        <3>2. CASE q # s /\ q \in Rivals(s)
            BY <1>6, <3>2, OpenTypes DEF CheckTicket, Remembers, Rivals, MakesTicket, OpenRequest
        <3>3. CASE q # s /\ q \notin Rivals(s)
            BY <1>6, <3>3 DEF CheckTicket, Remembers
        <3> QED
            BY <3>1, <3>2, <3>3
    <2> QED
        BY <1>6, <2>1, QuietKeepsFresh DEF CheckTicket, accounts
<1>7. ASSUME NEW s \in Slots, CheckTarget(s)
      PROVE  AllFresh'
    <2>1. UNCHANGED <<role, isActive, version, target>> /\ MakesTicket(s)
        BY <1>7 DEF CheckTarget, accounts, MakesTicket
    <2>2. /\ req'[s] = [req[s] EXCEPT !.step = "calling",
                                      !.targetVersion = version[req[s].op.what]]
          /\ \A q \in Slots \ {s} : req'[q] = req[q]
        BY <1>0, <1>7 DEF CheckTarget, TypeOK
    <2>3. Fresh(s) /\ req[s] \in OpenRequest /\ target[req[s].op.what] = "on"
        BY <1>7, OpenTypes DEF CheckTarget, AllFresh
    <2>4. version[req[s].op.what] \in Nat
        BY <2>1, OpenTypes DEF MakesTicket
    <2>5. Fresh(s)'
        BY <2>1, <2>2, <2>3, <2>4 DEF Fresh, OpenRequest
    <2>6. \A q \in Slots \ {s} : req'[q].step # "idle" => Fresh(q)'
        BY <2>1, <2>2 DEF AllFresh, Fresh
    <2> QED
        BY <2>5, <2>6 DEF AllFresh
<1>8. ASSUME NEW s \in Slots, Deliver(s)
      PROVE  AllFresh'
    <2>1. req[s] \in OpenRequest
        BY <1>8, OpenTypes DEF Deliver
    <2>2. /\ req'[s] = [req[s] EXCEPT !.step = "answered", !.ticket = Len(tickets) + 1]
          /\ \A q \in Slots \ {s} : req'[q] = req[q]
        BY <1>0, <1>8 DEF Deliver, TypeOK
    <2>3. \A q \in Slots : Remembers(q)
        BY <1>8, <2>1, <2>2 DEF Deliver, Remembers, OpenRequest
    <2> QED
        BY <1>8, <2>3, QuietKeepsFresh DEF Deliver, accounts
<1>9. ASSUME NEW s \in Slots, ChangeTarget(s) \/ ChangeRole(s) \/ ChangeActive(s)
      PROVE  AllFresh'
    <2> DEFINE x == req[s].op.whom
    <2>1. End(s) /\ Touch(x) /\ req[s].op \in Operations
        BY <1>9, OpenTypes DEF ChangeTarget, ChangeRole, ChangeActive, At
    <2>2. \A y \in Users \cup Targets : y # x => version'[y] = version[y]
        BY <1>0, <2>1 DEF Touch, TypeOK
    <2>3. x \in Users \cup Targets
        BY <1>9, <2>1, OperationShape DEF ChangeTarget, ChangeRole, ChangeActive, At
    <2>4. version[x] \in Nat /\ version'[x] = version[x] + 1
        BY <1>0, <2>1, <2>3 DEF Touch, TypeOK
    <2>5. \A u \in Users : u # x => role'[u] = role[u] /\ isActive'[u] = isActive[u]
        BY <1>0, <1>9 DEF ChangeTarget, ChangeRole, ChangeActive, accounts, TypeOK
    <2>6. \A t \in Targets : t # x => target'[t] = target[t]
        BY <1>0, <1>9 DEF ChangeTarget, ChangeRole, ChangeActive, TypeOK
    <2>7. ASSUME NEW q \in Slots, req'[q].step # "idle"
          PROVE  Fresh(q)'
        <3>1. q # s /\ req'[q] = req[q] /\ Fresh(q)
            BY <2>1, <2>7, EndRemembers DEF Idle, AllFresh
        <3>2. /\ req[q].user \in Users /\ req[q].version \in Nat /\ req[q].targetVersion \in Nat
              /\ req[q].step = "calling" => req[q].op.what \in Targets
            BY <2>7, <3>1, OpenTypes DEF MakesTicket
        <3>3. req[q].version <= version'[req[q].user]
              /\ (req[q].version = version'[req[q].user] => req[q].user # x)
            BY <2>2, <2>4, <3>1, <3>2 DEF Fresh
        <3>4. req[q].version = version'[req[q].user] =>
                 isActive'[req[q].user] /\ at_least(role'[req[q].user], Capability(req[q].op))
            BY <2>2, <2>5, <3>1, <3>2, <3>3 DEF Fresh
        <3>5. req[q].step = "calling" =>
                 /\ req[q].targetVersion <= version'[req[q].op.what]
                 /\ req[q].targetVersion = version'[req[q].op.what] => req[q].op.what # x
            BY <2>2, <2>4, <3>1, <3>2 DEF Fresh
        <3>6. req[q].step = "calling" =>
                 (req[q].targetVersion = version'[req[q].op.what] => target'[req[q].op.what] = "on")
            BY <2>2, <2>6, <3>1, <3>2, <3>5 DEF Fresh
        <3> QED
            BY <3>1, <3>3, <3>4, <3>5, <3>6 DEF Fresh
    <2> QED
        BY <2>7 DEF AllFresh
<1>10. CASE UNCHANGED vars
    BY <1>10 DEF vars, AllFresh, Fresh
<1> QED
    BY <1>1, <1>2, <1>3, <1>4, <1>5, <1>6, <1>7, <1>8, <1>9, <1>10 DEF Next

\* What a request was let in for, and the target it is about to call, still are
\* as it found them unless they were changed since (the door of every request).
THEOREM RequestsDecideFresh == Spec => []DecisionsFresh
<1>1. Init => AllFresh
    BY DEF Init, AllFresh, Idle
<1>2. AllFresh => DecisionsFresh
    BY DEF AllFresh, Fresh, DecisionsFresh
<1> QED
    BY <1>1, <1>2, TypedInit, TypedStep, FreshStep, PTL DEF Spec

-----------------------------------------------------------------------------
\* The reference of a finding is a ticket that was kept, made for it.
RefersToKept ==
    \A g \in Groups : ticket[g] # 0 =>
        ticket[g] \in DOMAIN tickets /\ tickets[ticket[g]].group = g
        /\ tickets[ticket[g]].outcome = "kept"
\* A ticket whose answer has come belongs to one request, which has not ended.
OpenHasRequest ==
    \A i \in DOMAIN tickets : tickets[i].outcome = "open" =>
        \E s \in Slots : req[s].step = "answered" /\ req[s].ticket = i
AnswerIsOpen ==
    \A s \in Slots : req[s].step = "answered" =>
        /\ req[s].ticket \in DOMAIN tickets
        /\ tickets[req[s].ticket].outcome = "open" /\ tickets[req[s].ticket].group = GroupOf(s)
        /\ \A q \in Slots : req[q].step = "answered" /\ req[q].ticket = req[s].ticket => q = s
\* Requests that make a ticket for one finding have met.
Met ==
    \A s, q \in Slots :
        MakesTicket(s) /\ MakesTicket(q) /\ s # q /\ GroupOf(s) = GroupOf(q) => ~req[s].alone
\* A request that has met no other knows that its finding has no reference.
Unticketed == \A s \in Slots : MakesTicket(s) /\ req[s].alone => ticket[GroupOf(s)] = 0
\* A ticket that was kept is referred to, unless a later one took its place.
KeptLeavesReference ==
    \A i \in DOMAIN tickets : tickets[i].outcome = "kept" => ticket[tickets[i].group] # 0
\* Nothing comes after a ticket that was made alone and kept.
Settled ==
    \A i \in DOMAIN tickets : tickets[i].outcome = "kept" /\ tickets[i].alone =>
        /\ ticket[tickets[i].group] = i
        /\ \A j \in DOMAIN tickets \ {i} :
              tickets[j].group = tickets[i].group => tickets[j].outcome = "lost"
        /\ \A s \in Slots : MakesTicket(s) => GroupOf(s) # tickets[i].group

Accounted ==
    /\ RefersToKept /\ OpenHasRequest /\ AnswerIsOpen
    /\ Met /\ Unticketed /\ KeptLeavesReference /\ Settled

\* Steps that make, keep and lose no ticket, and pass no check.
Steady(q) ==
    /\ MakesTicket(q)' =>
          MakesTicket(q) /\ req'[q].op = req[q].op /\ req'[q].alone = req[q].alone
    /\ req'[q].step = "answered" <=> req[q].step = "answered"
    /\ req[q].step = "answered" => req'[q].ticket = req[q].ticket

LEMMA SteadyKeepsAccounts ==
    ASSUME Accounted, UNCHANGED <<ticket, tickets>>, \A q \in Slots : Steady(q)
    PROVE  Accounted'
<1>1. RefersToKept' /\ KeptLeavesReference'
    BY DEF Accounted, RefersToKept, KeptLeavesReference
<1>2. \A q \in Slots : MakesTicket(q)' => MakesTicket(q) /\ GroupOf(q)' = GroupOf(q)
                                           /\ req'[q].alone = req[q].alone
    BY DEF Steady, GroupOf
<1>3. OpenHasRequest'
    BY DEF Accounted, OpenHasRequest, Steady
<1>4. AnswerIsOpen'
    <2>1. \A q \in Slots : req'[q].step = "answered" => MakesTicket(q)'
        BY DEF MakesTicket
    <2> QED
        BY <1>2, <2>1 DEF Accounted, AnswerIsOpen, Steady
<1>5. Met' /\ Unticketed'
    BY <1>2 DEF Accounted, Met, Unticketed
<1>6. Settled'
    BY <1>2 DEF Accounted, Settled
<1> QED
    BY <1>1, <1>3, <1>4, <1>5, <1>6 DEF Accounted

\* The type of the entry of a ticket.
LEMMA TicketTypes ==
    ASSUME Typed, NEW i \in DOMAIN tickets
    PROVE  tickets[i].group \in Groups /\ tickets[i].outcome \in {"open", "kept", "lost"}
<1> DEFINE TicketRow == [group : Groups, alone : BOOLEAN, outcome : {"open", "kept", "lost"}]
<1>1. tickets \in Seq(TicketRow)
    BY DEF Typed, TypeOK
<1>2. tickets[i] \in TicketRow
    <2> HIDE DEF TicketRow
    <2> QED
        BY <1>1
<1> QED
    BY <1>2

\* A request that had made no ticket ends.
LEMMA EndKeepsAccounts ==
    ASSUME Typed, Accounted, NEW s \in Slots, End(s), req[s].step # "answered",
           UNCHANGED <<ticket, tickets>>
    PROVE  Accounted'
<1>1. \A q \in Slots : Steady(q)
    BY EndRemembers DEF Steady, MakesTicket, Idle
<1> QED
    BY <1>1, SteadyKeepsAccounts

\* A ticket is added, of the finding of a request that was about to make one.
LEMMA AddedTicket ==
    ASSUME Typed, NEW s \in Slots, MakesTicket(s), NEW o \in {"open", "lost"},
           tickets' = Append(tickets, Ticket(s, o))
    PROVE  LET n == Len(tickets) + 1 IN
           /\ n \in Nat \ {0} /\ n \notin DOMAIN tickets
           /\ DOMAIN tickets' = DOMAIN tickets \cup {n}
           /\ tickets'[n].group = GroupOf(s) /\ tickets'[n].outcome = o
           /\ \A i \in DOMAIN tickets : tickets'[i] = tickets[i] /\ i \in Nat \ {0}
<1>1. tickets \in Seq([group : Groups, alone : BOOLEAN, outcome : {"open", "kept", "lost"}])
    BY DEF Typed, TypeOK
<1>2. Ticket(s, o).group = GroupOf(s) /\ Ticket(s, o).outcome = o
    BY DEF Ticket
<1> HIDE DEF Ticket
<1> QED
    BY <1>1, <1>2

LEMMA AccountedStep == Typed /\ Accounted /\ [Next]_vars => Accounted'
<1> SUFFICES ASSUME Typed, Accounted, [Next]_vars PROVE Accounted'
    OBVIOUS
<1>0. TypeOK
    BY DEF Typed
<1>a. \A i \in DOMAIN tickets : i \in Nat \ {0}
    BY <1>0 DEF TypeOK
<1>1. ASSUME NEW u \in Users, NEW kind \in Kinds, Login(u, kind)
      PROVE  Accounted'
    BY <1>1, SteadyKeepsAccounts DEF Login, findings, Steady, MakesTicket
<1>2. ASSUME NEW c \in creds, Logout(c)
      PROVE  Accounted'
    BY <1>2, SteadyKeepsAccounts DEF Logout, findings, Steady, MakesTicket
<1>3. ASSUME NEW s \in Slots, NEW c \in creds, NEW op \in Operations, Arrive(s, c, op)
      PROVE  Accounted'
    <2>1. req[s].step = "idle" /\ req'[s].step = "admitted"
          /\ \A q \in Slots \ {s} : req'[q] = req[q]
        BY <1>0, <1>3 DEF Arrive, Admit, TypeOK
    <2>2. \A q \in Slots : Steady(q)
        BY <2>1 DEF Steady, MakesTicket
    <2> QED
        BY <1>3, <2>2, SteadyKeepsAccounts DEF Arrive, findings
<1>4. ASSUME NEW s \in Slots,
             AddComment(s) \/ CommitAssign(s) \/ CommitMove(s) \/ RefuseTicket(s)
                \/ ChangeTarget(s) \/ ChangeRole(s) \/ ChangeActive(s)
      PROVE  Accounted'
    <2>1. End(s) /\ req[s].step # "answered" /\ UNCHANGED <<ticket, tickets>>
        BY <1>4 DEF AddComment, CommitAssign, CommitMove, RefuseTicket, ChangeTarget, ChangeRole,
                    ChangeActive, At, findings
    <2> QED
        BY <2>1, EndKeepsAccounts
<1>5. ASSUME NEW s \in Slots, NEW g \in Groups, ReadAssignee(s, g) \/ ReadStatus(s, g)
      PROVE  Accounted'
    <2>1. req[s].step = "admitted" /\ req[s] \in OpenRequest
        BY <1>5, OpenTypes DEF ReadAssignee, ReadStatus, ReadGroup, At
    <2>2. req'[s].step = "admitted" /\ \A q \in Slots \ {s} : req'[q] = req[q]
        BY <1>0, <1>5, <2>1 DEF ReadAssignee, ReadStatus, ReadGroup, TypeOK, OpenRequest
    <2>3. \A q \in Slots : Steady(q)
        BY <2>1, <2>2 DEF Steady, MakesTicket
    <2> QED
        BY <1>5, <2>3, SteadyKeepsAccounts DEF ReadAssignee, ReadStatus, ReadGroup, findings
<1>6. ASSUME NEW s \in Slots, CheckTicket(s)
      PROVE  Accounted'
    <2> DEFINE g == GroupOf(s)
    <2>1. /\ req[s].step = "admitted" /\ req[s] \in OpenRequest
          /\ ticket[g] = 0 /\ UNCHANGED <<ticket, tickets>>
        BY <1>6, OpenTypes DEF CheckTicket, At, HasTicket, findings
    <2>2. /\ req'[s].step = "checked" /\ req'[s].op = req[s].op
          /\ req'[s].alone => Rivals(s) = {}
        BY <1>6, <2>1 DEF CheckTicket, OpenRequest
    <2>3. ASSUME NEW q \in Slots, q # s
          PROVE  /\ req'[q].step = req[q].step /\ req'[q].ticket = req[q].ticket
                 /\ MakesTicket(q) => req'[q].op = req[q].op
                 /\ MakesTicket(q) /\ req'[q].alone => req[q].alone /\ q \notin Rivals(s)
        <3>1. CASE q \in Rivals(s)
            <4>1. req[q] \in OpenRequest
                BY <3>1, OpenTypes DEF Rivals, MakesTicket
            <4>2. req'[q] = [req[q] EXCEPT !.alone = FALSE]
                BY <1>6, <2>3, <3>1 DEF CheckTicket
            <4> QED
                BY <4>1, <4>2 DEF OpenRequest
        <3>2. CASE q \notin Rivals(s)
            BY <1>6, <2>3, <3>2 DEF CheckTicket
        <3> QED
            BY <3>1, <3>2
    <2>4. /\ MakesTicket(s)' /\ GroupOf(s)' = g
          /\ \A q \in Slots \ {s} : MakesTicket(q)' = MakesTicket(q)
                                    /\ (MakesTicket(q) => GroupOf(q)' = GroupOf(q))
        BY <2>2, <2>3 DEF MakesTicket, GroupOf
    <2>5. RefersToKept' /\ KeptLeavesReference'
        BY <2>1 DEF Accounted, RefersToKept, KeptLeavesReference
    <2>6. \A q \in Slots : (req'[q].step = "answered" <=> req[q].step = "answered")
             /\ (req[q].step = "answered" => q # s /\ req'[q].ticket = req[q].ticket /\ MakesTicket(q))
        BY <2>1, <2>2, <2>3 DEF MakesTicket
    <2>7. OpenHasRequest' /\ AnswerIsOpen'
        BY <2>1, <2>4, <2>6 DEF Accounted, OpenHasRequest, AnswerIsOpen
    <2>8. Met'
        <3> SUFFICES ASSUME NEW p \in Slots, NEW q \in Slots, MakesTicket(p)', MakesTicket(q)',
                            p # q, GroupOf(p)' = GroupOf(q)', req'[p].alone
                     PROVE  FALSE
            BY DEF Met
        <3>1. CASE p = s
            BY <2>2, <2>4, <3>1 DEF Rivals
        <3>2. CASE q = s
            BY <2>3, <2>4, <3>2 DEF Rivals
        <3>3. CASE p # s /\ q # s
            BY <2>3, <2>4, <3>3 DEF Accounted, Met
        <3> QED
            BY <3>1, <3>2, <3>3
    <2>9. Unticketed'
        BY <2>1, <2>3, <2>4 DEF Accounted, Unticketed
    <2>10. Settled'
        <3>1. \A i \in DOMAIN tickets : tickets[i].outcome = "kept" /\ tickets[i].alone =>
                 tickets[i].group # g
            BY <1>a, <2>1 DEF Accounted, Settled
        <3> QED
            BY <2>1, <2>4, <3>1 DEF Accounted, Settled
    <2> QED
        BY <2>5, <2>7, <2>8, <2>9, <2>10 DEF Accounted
<1>7. ASSUME NEW s \in Slots, CheckTarget(s)
      PROVE  Accounted'
    <2>1. req[s].step = "checked" /\ req[s] \in OpenRequest
        BY <1>7, OpenTypes DEF CheckTarget
    <2>2. /\ req'[s] = [req[s] EXCEPT !.step = "calling",
                                      !.targetVersion = version[req[s].op.what]]
          /\ \A q \in Slots \ {s} : req'[q] = req[q]
        BY <1>0, <1>7 DEF CheckTarget, TypeOK
    <2>3. req'[s].step = "calling" /\ req'[s].op = req[s].op /\ req'[s].alone = req[s].alone
        BY <2>1, <2>2 DEF OpenRequest
    <2>4. \A q \in Slots : Steady(q)
        BY <2>1, <2>2, <2>3 DEF Steady, MakesTicket
    <2> QED
        BY <1>7, <2>4, SteadyKeepsAccounts DEF CheckTarget, findings
<1>8. ASSUME NEW s \in Slots, Deliver(s)
      PROVE  Accounted'
    <2> DEFINE n == Len(tickets) + 1
    <2>1. /\ req[s].step = "calling" /\ req[s] \in OpenRequest /\ MakesTicket(s)
          /\ UNCHANGED ticket
        BY <1>8, OpenTypes DEF Deliver, MakesTicket
    <2>2. /\ n \in Nat \ {0} /\ n \notin DOMAIN tickets
          /\ DOMAIN tickets' = DOMAIN tickets \cup {n}
          /\ tickets'[n].group = GroupOf(s) /\ tickets'[n].outcome = "open"
          /\ \A i \in DOMAIN tickets : tickets'[i] = tickets[i]
        BY <1>8, <2>1, AddedTicket DEF Deliver
    <2>3. /\ req'[s] = [req[s] EXCEPT !.step = "answered", !.ticket = n]
          /\ \A q \in Slots \ {s} : req'[q] = req[q]
        BY <1>0, <1>8 DEF Deliver, TypeOK
    <2> HIDE DEF n
    <2>4. req'[s].step = "answered" /\ req'[s].op = req[s].op /\ req'[s].alone = req[s].alone
          /\ req'[s].ticket = n
        BY <2>1, <2>3 DEF OpenRequest
    <2>11. \A q \in Slots \ {s} : req'[q] = req[q]
        BY <2>3
    <2>5. ASSUME NEW q \in Slots
          PROVE  /\ MakesTicket(q)' <=> MakesTicket(q)
                 /\ GroupOf(q)' = GroupOf(q) /\ req'[q].alone = req[q].alone
        <3>1. CASE q = s
            BY <2>1, <2>4, <3>1 DEF MakesTicket, GroupOf
        <3>2. CASE q # s
            BY <2>11, <3>2 DEF MakesTicket, GroupOf
        <3> QED
            BY <3>1, <3>2
    <2>6. RefersToKept' /\ KeptLeavesReference'
        BY <2>1, <2>2 DEF Accounted, RefersToKept, KeptLeavesReference
    <2>7. OpenHasRequest'
        <3> SUFFICES ASSUME NEW i \in DOMAIN tickets', tickets'[i].outcome = "open"
                     PROVE  \E q \in Slots : req'[q].step = "answered" /\ req'[q].ticket = i
            BY DEF OpenHasRequest
        <3>1. CASE i = n
            BY <2>4, <3>1
        <3>2. CASE i # n
            <4>1. PICK q \in Slots : req[q].step = "answered" /\ req[q].ticket = i
                BY <2>2, <3>2 DEF Accounted, OpenHasRequest
            <4> QED
                BY <2>1, <2>11, <4>1
        <3> QED
            BY <3>1, <3>2
    <2>8. AnswerIsOpen'
        <3> SUFFICES ASSUME NEW p \in Slots, req'[p].step = "answered"
                     PROVE  /\ req'[p].ticket \in DOMAIN tickets'
                            /\ tickets'[req'[p].ticket].outcome = "open"
                            /\ tickets'[req'[p].ticket].group = GroupOf(p)'
                            /\ \A q \in Slots : req'[q].step = "answered"
                                  /\ req'[q].ticket = req'[p].ticket => q = p
            BY DEF AnswerIsOpen
        <3>0. \A q \in Slots \ {s} : req'[q].step = "answered" => req[q].ticket \in DOMAIN tickets
            BY <2>11 DEF Accounted, AnswerIsOpen
        <3>1. CASE p = s
            BY <2>2, <2>11, <2>4, <2>5, <3>0, <3>1
        <3>2. CASE p # s
            BY <2>2, <2>11, <2>4, <2>5, <3>0, <3>2 DEF Accounted, AnswerIsOpen
        <3> QED
            BY <3>1, <3>2
    <2>9. Met' /\ Unticketed'
        BY <2>1, <2>5 DEF Accounted, Met, Unticketed
    <2>10. Settled'
        BY <2>1, <2>2, <2>5 DEF Accounted, Settled
    <2> QED
        BY <2>6, <2>7, <2>8, <2>9, <2>10 DEF Accounted
<1>9. ASSUME NEW s \in Slots, AnswerLost(s)
      PROVE  Accounted'
    <2>1. End(s) /\ req[s].step = "calling" /\ MakesTicket(s) /\ UNCHANGED ticket
        BY <1>9 DEF AnswerLost, MakesTicket
    <2>2. CASE UNCHANGED tickets
        BY <2>1, <2>2, EndKeepsAccounts
    <2>3. CASE tickets' = Append(tickets, Ticket(s, "lost"))
        <3> DEFINE n == Len(tickets) + 1
        <3>1. /\ n \in Nat \ {0} /\ n \notin DOMAIN tickets
              /\ DOMAIN tickets' = DOMAIN tickets \cup {n}
              /\ tickets'[n].group = GroupOf(s) /\ tickets'[n].outcome = "lost"
              /\ \A i \in DOMAIN tickets : tickets'[i] = tickets[i]
            BY <2>1, <2>3, AddedTicket
        <3> HIDE DEF n
        <3>2. \A q \in Slots : /\ MakesTicket(q)' => MakesTicket(q) /\ req'[q] = req[q]
                               /\ req'[q].step = "answered" => MakesTicket(q)'
                               /\ req[q].step = "answered" => req'[q] = req[q]
            BY <2>1, EndRemembers DEF MakesTicket, Idle
        <3>3. \A q \in Slots : MakesTicket(q)' => GroupOf(q)' = GroupOf(q)
            BY <3>2 DEF GroupOf
        <3>4. RefersToKept' /\ KeptLeavesReference' /\ OpenHasRequest'
            BY <2>1, <3>1, <3>2 DEF Accounted, RefersToKept, KeptLeavesReference, OpenHasRequest
        <3>5. AnswerIsOpen'
            BY <3>1, <3>2, <3>3 DEF Accounted, AnswerIsOpen
        <3>6. Met' /\ Unticketed'
            BY <2>1, <3>2, <3>3 DEF Accounted, Met, Unticketed
        <3>7. Settled'
            BY <2>1, <3>1, <3>2, <3>3 DEF Accounted, Settled
        <3> QED
            BY <3>4, <3>5, <3>6, <3>7 DEF Accounted
    <2> QED
        BY <1>9, <2>2, <2>3 DEF AnswerLost
<1>10. ASSUME NEW s \in Slots, CommitTicket(s)
       PROVE  Accounted'
    <2> DEFINE own == req[s].ticket
    <2> DEFINE g == GroupOf(s)
    <2>1. End(s) /\ req[s].step = "answered" /\ MakesTicket(s)
        BY <1>10 DEF CommitTicket, MakesTicket
    <2>2. /\ own \in DOMAIN tickets /\ tickets[own].outcome = "open" /\ tickets[own].group = g
          /\ \A q \in Slots : req[q].step = "answered" /\ req[q].ticket = own => q = s
        BY <2>1 DEF Accounted, AnswerIsOpen
    <2>3. /\ DOMAIN tickets' = DOMAIN tickets
          /\ tickets'[own].group = g /\ tickets'[own].outcome = "kept"
          /\ tickets'[own].alone = req[s].alone
          /\ \A i \in DOMAIN tickets \ {own} : tickets'[i] = tickets[i]
        BY <1>0, <1>10, <2>2 DEF CommitTicket, Ticket, TypeOK
    <2>4. g \in Groups /\ ticket'[g] = own /\ own # 0
          /\ \A h \in Groups \ {g} : ticket'[h] = ticket[h]
        BY <1>0, <1>10, <1>a, <2>1, <2>2, GroupOfMaker DEF CommitTicket, TypeOK
    <2>5. \A i \in DOMAIN tickets : tickets[i].group \in Groups
        BY TicketTypes
    <2> HIDE DEF own, g
    <2>6. \A q \in Slots : /\ MakesTicket(q)' => q # s /\ MakesTicket(q) /\ req'[q] = req[q]
                           /\ req'[q].step = "answered" => MakesTicket(q)'
                           /\ q # s => req'[q] = req[q]
        BY <2>1, EndRemembers DEF MakesTicket, Idle
    <2>7. \A q \in Slots : MakesTicket(q)' => GroupOf(q)' = GroupOf(q) /\ GroupOf(q) \in Groups
        BY <2>6, GroupOfMaker DEF GroupOf
    <2>8. RefersToKept'
        BY <2>2, <2>3, <2>4 DEF Accounted, RefersToKept
    <2>9. KeptLeavesReference'
        BY <2>2, <2>3, <2>4, <2>5 DEF Accounted, KeptLeavesReference
    <2>10. OpenHasRequest'
        <3> SUFFICES ASSUME NEW i \in DOMAIN tickets, tickets'[i].outcome = "open"
                     PROVE  \E q \in Slots : req'[q].step = "answered" /\ req'[q].ticket = i
            BY <2>3 DEF OpenHasRequest
        <3>1. i # own /\ tickets[i].outcome = "open"
            BY <2>3
        <3>2. PICK q \in Slots : req[q].step = "answered" /\ req[q].ticket = i
            BY <3>1 DEF Accounted, OpenHasRequest
        <3> QED
            BY <2>6, <3>1, <3>2 DEF own
    <2>11. AnswerIsOpen'
        <3> SUFFICES ASSUME NEW p \in Slots, req'[p].step = "answered"
                     PROVE  /\ req'[p].ticket \in DOMAIN tickets'
                            /\ tickets'[req'[p].ticket].outcome = "open"
                            /\ tickets'[req'[p].ticket].group = GroupOf(p)'
                            /\ \A q \in Slots : req'[q].step = "answered"
                                  /\ req'[q].ticket = req'[p].ticket => q = p
            BY DEF AnswerIsOpen
        <3>1. p # s /\ req'[p] = req[p] /\ GroupOf(p)' = GroupOf(p)
            BY <2>6, <2>7
        <3>2. req[p].ticket # own
            BY <2>2, <3>1
        <3> QED
            BY <2>3, <2>6, <3>1, <3>2 DEF Accounted, AnswerIsOpen
    <2>12. Met'
        BY <2>6, <2>7 DEF Accounted, Met
    <2>13. Unticketed'
        <3> SUFFICES ASSUME NEW q \in Slots, MakesTicket(q)', req'[q].alone
                     PROVE  ticket'[GroupOf(q)'] = 0
            BY DEF Unticketed
        <3>1. q # s /\ MakesTicket(q) /\ req[q].alone /\ GroupOf(q)' = GroupOf(q)
            BY <2>6, <2>7
        <3>2. GroupOf(q) # g
            BY <2>1, <3>1 DEF Accounted, Met, g
        <3> QED
            BY <2>4, <2>7, <3>1, <3>2 DEF Accounted, Unticketed
    <2>14. Settled'
        <3> SUFFICES ASSUME NEW i \in DOMAIN tickets, tickets'[i].outcome = "kept", tickets'[i].alone
                     PROVE  /\ ticket'[tickets'[i].group] = i
                            /\ \A j \in DOMAIN tickets \ {i} :
                                  tickets'[j].group = tickets'[i].group => tickets'[j].outcome = "lost"
                            /\ \A q \in Slots : MakesTicket(q)' => GroupOf(q)' # tickets'[i].group
            BY <2>3 DEF Settled
        <3>1. CASE i = own
            <4>1. req[s].alone /\ ticket[g] = 0
                BY <2>1, <2>3, <3>1 DEF Accounted, Unticketed, g
            <4>2. \A q \in Slots : MakesTicket(q) /\ q # s => GroupOf(q) # g
                BY <2>1, <4>1 DEF Accounted, Met, g
            <4>3. ASSUME NEW j \in DOMAIN tickets, j # own, tickets[j].group = g
                  PROVE  tickets[j].outcome = "lost"
                <5>1. tickets[j].outcome # "kept"
                    BY <4>1, <4>3 DEF Accounted, KeptLeavesReference
                <5>2. ASSUME tickets[j].outcome = "open"
                      PROVE  FALSE
                    <6>1. PICK q \in Slots : req[q].step = "answered" /\ req[q].ticket = j
                        BY <5>2 DEF Accounted, OpenHasRequest
                    <6>2. q # s /\ MakesTicket(q) /\ GroupOf(q) = g
                        BY <4>3, <6>1 DEF Accounted, AnswerIsOpen, MakesTicket, own
                    <6> QED
                        BY <4>2, <6>2
                <5>3. tickets[j].outcome \in {"open", "kept", "lost"}
                    BY <4>3, TicketTypes
                <5> QED
                    BY <5>1, <5>2, <5>3
            <4> QED
                BY <2>2, <2>3, <2>4, <2>6, <2>7, <3>1, <4>2, <4>3
        <3>2. CASE i # own
            <4>1. tickets'[i] = tickets[i] /\ tickets[i].group # g /\ tickets[i].group \in Groups
                BY <2>1, <2>3, <2>5, <3>2 DEF Accounted, Settled, g
            <4> QED
                BY <2>3, <2>4, <2>6, <2>7, <3>2, <4>1 DEF Accounted, Settled
        <3> QED
            BY <3>1, <3>2
    <2> QED
        BY <2>8, <2>9, <2>10, <2>11, <2>12, <2>13, <2>14 DEF Accounted
<1>11. ASSUME NEW s \in Slots, Fail(s), req[s].step = "answered"
       PROVE  Accounted'
    <2> DEFINE own == req[s].ticket
    <2>1. End(s) /\ MakesTicket(s) /\ UNCHANGED ticket
        BY <1>11 DEF Fail, MakesTicket
    <2>2. own \in DOMAIN tickets /\ tickets[own].outcome = "open" /\ tickets[own].group = GroupOf(s)
          /\ \A q \in Slots : req[q].step = "answered" /\ req[q].ticket = own => q = s
        BY <1>11 DEF Accounted, AnswerIsOpen
    <2>3. /\ DOMAIN tickets' = DOMAIN tickets
          /\ tickets'[own].group = tickets[own].group /\ tickets'[own].outcome = "lost"
          /\ \A i \in DOMAIN tickets \ {own} : tickets'[i] = tickets[i]
        BY <1>0, <1>11, <2>2 DEF Fail, Ticket, TypeOK
    <2>4. \A q \in Slots : /\ MakesTicket(q)' => q # s /\ MakesTicket(q) /\ req'[q] = req[q]
                           /\ req'[q].step = "answered" => MakesTicket(q)'
                           /\ q # s => req'[q] = req[q]
        BY <2>1, EndRemembers DEF MakesTicket, Idle
    <2>5. \A q \in Slots : MakesTicket(q)' => GroupOf(q)' = GroupOf(q)
        BY <2>4 DEF GroupOf
    <2>6. RefersToKept' /\ KeptLeavesReference'
        BY <2>1, <2>2, <2>3 DEF Accounted, RefersToKept, KeptLeavesReference
    <2>7. OpenHasRequest'
        <3> SUFFICES ASSUME NEW i \in DOMAIN tickets, tickets'[i].outcome = "open"
                     PROVE  \E q \in Slots : req'[q].step = "answered" /\ req'[q].ticket = i
            BY <2>3 DEF OpenHasRequest
        <3>1. i # own /\ tickets[i].outcome = "open"
            BY <2>3
        <3>2. PICK q \in Slots : req[q].step = "answered" /\ req[q].ticket = i
            BY <3>1 DEF Accounted, OpenHasRequest
        <3> QED
            BY <2>4, <3>1, <3>2
    <2> HIDE DEF own
    <2>8. AnswerIsOpen'
        <3> SUFFICES ASSUME NEW p \in Slots, req'[p].step = "answered"
                     PROVE  /\ req'[p].ticket \in DOMAIN tickets'
                            /\ tickets'[req'[p].ticket].outcome = "open"
                            /\ tickets'[req'[p].ticket].group = GroupOf(p)'
                            /\ \A q \in Slots : req'[q].step = "answered"
                                  /\ req'[q].ticket = req'[p].ticket => q = p
            BY DEF AnswerIsOpen
        <3>1. p # s /\ req'[p] = req[p] /\ GroupOf(p)' = GroupOf(p)
            BY <2>4, <2>5
        <3>2. req[p].ticket # own
            BY <2>2, <3>1
        <3> QED
            BY <2>3, <2>4, <3>1, <3>2 DEF Accounted, AnswerIsOpen
    <2>9. Met' /\ Unticketed'
        BY <2>1, <2>4, <2>5 DEF Accounted, Met, Unticketed
    <2>10. Settled'
        BY <2>1, <2>2, <2>3, <2>4, <2>5 DEF Accounted, Settled
    <2> QED
        BY <2>6, <2>7, <2>8, <2>9, <2>10 DEF Accounted
<1>12. ASSUME NEW s \in Slots, Fail(s), req[s].step # "answered"
       PROVE  Accounted'
    BY <1>12, EndKeepsAccounts DEF Fail
<1>13. CASE UNCHANGED vars
    BY <1>13, SteadyKeepsAccounts DEF vars, Steady, MakesTicket
<1> QED
    BY <1>1, <1>2, <1>3, <1>4, <1>5, <1>6, <1>7, <1>8, <1>9, <1>10, <1>11, <1>12, <1>13 DEF Next

\* Every ticket made outside is referred to, under way, lost with its request,
\* or one of requests that met (ticket_service.create_ticket).
THEOREM TicketsAreAccountedFor == Spec => []TicketsAccountedFor
<1>1. Init => Accounted
    BY DEF Init, Accounted, RefersToKept, OpenHasRequest, AnswerIsOpen, Met, Unticketed,
           KeptLeavesReference, Settled, MakesTicket, Idle
<1>2. Accounted => TicketsAccountedFor
    BY DEF Accounted, RefersToKept, OpenHasRequest, Settled, TicketsAccountedFor
<1> QED
    BY <1>1, <1>2, TypedInit, TypedStep, AccountedStep, PTL DEF Spec

-----------------------------------------------------------------------------
\* In a public deployment the only requests that may write are the pages that
\* sweep (rbac.at_least): targets, accounts, tickets and assignments stay what
\* they were, and a finding's status changes to "open" only.
OnlySweeps ==
    \A s \in Slots : req[s].step # "idle" => req[s].step = "admitted" /\ req[s].op.kind = "sweep"
Untouched == UNCHANGED <<accounts, version, target, ticket, tickets, assignee>>
OnlyReopens == \A g \in Groups : status'[g] # status[g] => status'[g] = "open"

THEOREM PublicModeOnlySweeps ==
    ASSUME PublicMode
    PROVE  Spec => [][Untouched /\ OnlyReopens]_vars
<1>1. Init => OnlySweeps
    BY DEF Init, OnlySweeps, Idle
<1>2. ASSUME Typed, OnlySweeps, [Next]_vars
      PROVE  OnlySweeps' /\ Untouched /\ OnlyReopens
    <2>0. req \in [Slots -> OpenRequest \cup {Idle}]
        BY <1>2 DEF Typed, TypeOK
    <2>1. ASSUME NEW s \in Slots, NEW c \in creds, NEW op \in Operations, Arrive(s, c, op)
          PROVE  OnlySweeps' /\ Untouched /\ OnlyReopens
        <3>1. at_least(Loaded(c), Capability(op))
            BY <2>1 DEF Arrive
        <3>2. op.kind = "sweep"
            BY <3>1 DEF at_least, Capability
        <3>3. req'[s].step = "admitted" /\ req'[s].op = op /\ \A q \in Slots \ {s} : req'[q] = req[q]
            BY <2>0, <2>1 DEF Arrive, Admit
        <3> QED
            BY <1>2, <2>1, <3>2, <3>3 DEF OnlySweeps, Untouched, OnlyReopens, Arrive, accounts, findings
    <2>2. ASSUME NEW u \in Users, NEW kind \in Kinds, Login(u, kind)
          PROVE  OnlySweeps' /\ Untouched /\ OnlyReopens
        BY <1>2, <2>2 DEF Login, OnlySweeps, Untouched, OnlyReopens, accounts, findings
    <2>3. ASSUME NEW c \in creds, Logout(c)
          PROVE  OnlySweeps' /\ Untouched /\ OnlyReopens
        BY <1>2, <2>3 DEF Logout, OnlySweeps, Untouched, OnlyReopens, accounts, findings
    <2>4. ASSUME NEW s \in Slots, NEW g \in Groups, ReadStatus(s, g)
          PROVE  OnlySweeps' /\ Untouched /\ OnlyReopens
        <3>1. req[s] \in OpenRequest
            BY <2>4, <1>2, OpenTypes DEF ReadStatus, At
        <3>2. /\ req'[s].step = req[s].step /\ req'[s].op = req[s].op
              /\ \A q \in Slots \ {s} : req'[q] = req[q]
            BY <2>0, <2>4, <3>1 DEF ReadStatus, ReadGroup, OpenRequest
        <3> QED
            BY <1>2, <2>4, <3>2 DEF OnlySweeps, Untouched, OnlyReopens, ReadStatus, ReadGroup, accounts, findings
    <2>5. ASSUME NEW s \in Slots, CommitMove(s)
          PROVE  OnlySweeps' /\ Untouched /\ OnlyReopens
        <3>1. req[s].step = "admitted" /\ req[s].op.kind = "sweep" /\ req[s].op \in Operations
            BY <1>2, <2>5, OpenTypes DEF CommitMove, At, OnlySweeps
        <3>2. req[s].op.what = "open"
            BY <3>1, OperationShape
        <3>3. OnlyReopens
            BY <1>2, <2>5, <3>2 DEF CommitMove, OnlyReopens, Typed, TypeOK
        <3>4. OnlySweeps'
            BY <1>2, <2>5, EndRemembers DEF CommitMove, OnlySweeps, Idle
        <3> QED
            BY <2>5, <3>3, <3>4 DEF CommitMove, Untouched, accounts
    <2>6. ASSUME NEW s \in Slots, Fail(s)
          PROVE  OnlySweeps' /\ Untouched /\ OnlyReopens
        <3>1. OnlySweeps'
            BY <1>2, <2>6, EndRemembers DEF Fail, OnlySweeps, Idle
        <3> QED
            BY <1>2, <2>6, <3>1 DEF OnlySweeps, Untouched, OnlyReopens, Fail, accounts
    <2>7. ASSUME NEW s \in Slots,
                 \/ AddComment(s) \/ CommitAssign(s)
                 \/ \E g \in Groups : ReadAssignee(s, g)
                 \/ CheckTicket(s) \/ CheckTarget(s) \/ RefuseTicket(s)
                 \/ Deliver(s) \/ AnswerLost(s) \/ CommitTicket(s)
                 \/ ChangeTarget(s) \/ ChangeRole(s) \/ ChangeActive(s)
          PROVE  FALSE
        BY <1>2, <2>7 DEF OnlySweeps, AddComment, CommitAssign, ReadAssignee, CheckTicket,
               CheckTarget, RefuseTicket, Deliver, AnswerLost, CommitTicket, ChangeTarget,
               ChangeRole, ChangeActive, At
    <2>8. CASE UNCHANGED vars
        BY <1>2, <2>8 DEF vars, OnlySweeps, Untouched, OnlyReopens, accounts
    <2> QED
        BY <1>2, <2>1, <2>2, <2>3, <2>4, <2>5, <2>6, <2>7, <2>8 DEF Next
<1> QED
    BY <1>1, <1>2, TypedInit, TypedStep, PTL DEF Spec

-----------------------------------------------------------------------------
\* What a request has read of a finding is where the finding has been.
Seen(h, kind, first, v) == v = first \/ \E i \in Own(h, kind) : h[i].to = v
HasRead(s, g) == g \in req[s].op.groups \ req[s].unread
ReadsSeen ==
    \A s \in Slots : \A g \in Groups :
        /\ At(s, "admitted", "assign") /\ HasRead(s, g) =>
              Seen(activity[g], "assign", None, req[s].prior[g])
        /\ (At(s, "admitted", "move") \/ At(s, "admitted", "sweep")) /\ HasRead(s, g) =>
              Seen(activity[g], "move", "open", req[s].prior[g])
Trails == TrailsExplain /\ ReadsSeen

\* The present value is one that has been seen: the last line leads to it.
LEMMA PresentSeen ==
    ASSUME NEW E, NEW h \in Seq(E), NEW kind, NEW first, NEW present,
           Explains(h, kind, first, present)
    PROVE  Seen(h, kind, first, present)
<1>1. CASE Own(h, kind) = {}
    BY <1>1 DEF Explains, Seen
<1>2. CASE Own(h, kind) # {}
    <2>1. Own(h, kind) \in SUBSET Nat /\ Len(h) \in Nat /\ \A j \in Own(h, kind) : j <= Len(h)
        BY DEF Own
    <2>2. PICK i \in Own(h, kind) : \A j \in Own(h, kind) : j <= i
        BY <1>2, <2>1, NatMax
    <2> QED
        BY <2>2 DEF Explains, Seen
<1> QED
    BY <1>1, <1>2

\* A line more, which starts where the finding has been.
LEMMA OneMoreLine ==
    ASSUME NEW E, NEW h \in Seq(E), NEW e \in E, NEW first, NEW present,
           Explains(h, e.kind, first, present), Seen(h, e.kind, first, e.from)
    PROVE  Explains(Append(h, e), e.kind, first, e.to)
<1> DEFINE h2 == Append(h, e)
<1>1. Len(h) \in Nat /\ DOMAIN h = 1 .. Len(h) /\ DOMAIN h2 = 1 .. Len(h) + 1
    OBVIOUS
<1>2. h2[Len(h) + 1] = e /\ \A i \in DOMAIN h : h2[i] = h[i]
    OBVIOUS
<1>3. Own(h2, e.kind) = Own(h, e.kind) \cup {Len(h) + 1}
    BY <1>1, <1>2 DEF Own
<1>4. \A i \in Own(h, e.kind) : i \in DOMAIN h /\ i < Len(h) + 1
    BY <1>1 DEF Own
<1> HIDE DEF h2
<1>5. ASSUME NEW i \in Own(h2, e.kind), \A j \in Own(h2, e.kind) : j <= i
      PROVE  h2[i].to = e.to
    BY <1>1, <1>2, <1>3, <1>4, <1>5
<1>6. ASSUME NEW i \in Own(h2, e.kind)
      PROVE  h2[i].from = first \/ \E j \in Own(h2, e.kind) : j < i /\ h2[j].to = h2[i].from
    <2>1. CASE i = Len(h) + 1
        BY <1>2, <1>3, <1>4, <2>1 DEF Seen
    <2>2. CASE i \in Own(h, e.kind)
        BY <1>2, <1>3, <1>4, <2>2 DEF Explains
    <2> QED
        BY <1>3, <2>1, <2>2
<1> QED
    BY <1>3, <1>5, <1>6 DEF Explains, h2

\* A line of another kind explains nothing and hides nothing.
LEMMA OtherLine ==
    ASSUME NEW E, NEW h \in Seq(E), NEW e \in E, NEW kind, kind # e.kind
    PROVE  /\ Own(Append(h, e), kind) = Own(h, kind)
           /\ \A i \in Own(h, kind) : Append(h, e)[i] = h[i]
    BY DEF Own

\* What has been seen stays seen.
LEMMA StaysSeen ==
    ASSUME NEW E, NEW h \in Seq(E), NEW e \in E, NEW kind, NEW first, NEW v,
           Seen(h, kind, first, v)
    PROVE  Seen(Append(h, e), kind, first, v)
<1>1. \A i \in Own(h, kind) : i \in Own(Append(h, e), kind) /\ Append(h, e)[i] = h[i]
    BY DEF Own
<1> QED
    BY <1>1 DEF Seen

Event == [kind : {"comment", "assign", "move"}, from : Named, to : Named]
\* Timelines only grow, by one line at a time.
Grows(g) == activity'[g] = activity[g] \/ \E e \in Event : activity'[g] = Append(activity[g], e)
\* A request reads nothing more in this step.
ReadsNoMore(q) ==
    \/ req'[q] = req[q]
    \/ req'[q].step # "admitted"
    \/ req'[q].unread = req'[q].op.groups

LEMMA ReadsStaySeen ==
    ASSUME Typed, ReadsSeen, \A g \in Groups : Grows(g), \A q \in Slots : ReadsNoMore(q)
    PROVE  ReadsSeen'
<1> SUFFICES ASSUME NEW q \in Slots, NEW g \in Groups, req'[q].step = "admitted", HasRead(q, g)'
             PROVE  /\ req'[q].op.kind = "assign" =>
                          Seen(activity'[g], "assign", None, req'[q].prior[g])
                    /\ req'[q].op.kind \in {"move", "sweep"} =>
                          Seen(activity'[g], "move", "open", req'[q].prior[g])
    BY DEF ReadsSeen, At
<1>1. req'[q] = req[q]
    BY DEF ReadsNoMore, HasRead
<1>2. /\ req[q].op.kind = "assign" => Seen(activity[g], "assign", None, req[q].prior[g])
      /\ req[q].op.kind \in {"move", "sweep"} => Seen(activity[g], "move", "open", req[q].prior[g])
    BY <1>1 DEF ReadsSeen, At, HasRead
<1>3. activity[g] \in Seq(Event)
    BY DEF Typed, TypeOK, Event
<1>4. ASSUME NEW kind, NEW first, NEW v, Seen(activity[g], kind, first, v)
      PROVE  Seen(activity'[g], kind, first, v)
    BY <1>3, <1>4, StaysSeen DEF Grows
<1> QED
    BY <1>1, <1>2, <1>4

\* A timeline that stays as it is, together with what it explains.
LEMMA SameTrail ==
    ASSUME TrailsExplain, NEW g \in Groups,
           activity'[g] = activity[g], assignee'[g] = assignee[g], status'[g] = status[g]
    PROVE  /\ Explains(activity'[g], "assign", None, assignee'[g])
           /\ Explains(activity'[g], "move", "open", status'[g])
           /\ PermittedMoves(activity'[g])
    BY DEF TrailsExplain

\* A line that is neither an assignment nor a move.
LEMMA AsideTrail ==
    ASSUME NEW E, NEW h \in Seq(E), NEW e \in E, NEW kind, NEW first, NEW present,
           kind # e.kind, Explains(h, kind, first, present)
    PROVE  Explains(Append(h, e), kind, first, present)
<1>1. Own(Append(h, e), kind) = Own(h, kind)
    BY OtherLine
<1>2. \A i \in Own(h, kind) : Append(h, e)[i] = h[i]
    BY OtherLine
<1> DEFINE h2 == Append(h, e)
<1> HIDE DEF h2
<1>3. Own(h2, kind) = Own(h, kind) /\ \A i \in Own(h, kind) : h2[i] = h[i]
    BY <1>1, <1>2 DEF h2
<1>4. Explains(h2, kind, first, present)
    BY <1>3 DEF Explains
<1> QED
    BY <1>4 DEF h2

LEMMA AsideMoves ==
    ASSUME NEW E, NEW h \in Seq(E), NEW e \in E, e.kind # "move", PermittedMoves(h)
    PROVE  PermittedMoves(Append(h, e))
<1>1. Own(Append(h, e), "move") = Own(h, "move")
    BY OtherLine
<1>2. \A i \in Own(h, "move") : Append(h, e)[i] = h[i]
    BY OtherLine
<1> QED
    BY <1>1, <1>2 DEF PermittedMoves

LEMMA TrailsStep == Typed /\ Trails /\ [Next]_vars => Trails'
<1> SUFFICES ASSUME Typed, Trails, [Next]_vars PROVE Trails'
    OBVIOUS
<1>0. TypeOK /\ TrailsExplain /\ ReadsSeen /\ \A g \in Groups : activity[g] \in Seq(Event)
    BY DEF Typed, TypeOK, Trails, Event
<1>a. ASSUME UNCHANGED <<assignee, status, activity>>, \A q \in Slots : ReadsNoMore(q)
      PROVE  Trails'
    <2>1. \A g \in Groups : Grows(g)
        BY <1>a DEF Grows
    <2>2. TrailsExplain'
        BY <1>0, <1>a, SameTrail DEF TrailsExplain
    <2> QED
        BY <1>0, <1>a, <2>1, <2>2, ReadsStaySeen DEF Trails
<1>b. ASSUME NEW s \in Slots, End(s)
      PROVE  \A q \in Slots : ReadsNoMore(q)
    BY <1>0, <1>b DEF End, ReadsNoMore, TypeOK, Idle
<1>1. ASSUME UNCHANGED <<assignee, status, activity, req>>
      PROVE  Trails'
    BY <1>1, <1>a DEF ReadsNoMore
<1>2. ASSUME NEW s \in Slots, NEW c \in creds, NEW op \in Operations, Arrive(s, c, op)
      PROVE  Trails'
    <2>1. \A q \in Slots : ReadsNoMore(q)
        BY <1>0, <1>2 DEF Arrive, Admit, ReadsNoMore, TypeOK
    <2> QED
        BY <1>2, <1>a, <2>1 DEF Arrive, findings
<1>3. ASSUME NEW s \in Slots, AddComment(s)
      PROVE  Trails'
    <2>1. Commented \in Event /\ Commented.kind = "comment"
        BY DEF Commented, Event, Named
    <2>2. ASSUME NEW g \in Groups
          PROVE  /\ Grows(g)
                 /\ Explains(activity'[g], "assign", None, assignee'[g])
                 /\ Explains(activity'[g], "move", "open", status'[g])
                 /\ PermittedMoves(activity'[g])
        <3>1. activity'[g] = activity[g] \/ activity'[g] = Append(activity[g], Commented)
            BY <1>3 DEF AddComment
        <3>2. assignee'[g] = assignee[g] /\ status'[g] = status[g]
            BY <1>3 DEF AddComment
        <3>3. CASE activity'[g] = Append(activity[g], Commented)
            <4>2. PermittedMoves(activity'[g])
                BY <1>0, <2>1, <3>3, AsideMoves DEF TrailsExplain
            <4> QED
                BY <1>0, <2>1, <3>2, <3>3, <4>2, AsideTrail DEF TrailsExplain, Grows
        <3> QED
            BY <1>0, <3>1, <3>2, <3>3, SameTrail DEF Grows
    <2>3. \A q \in Slots : ReadsNoMore(q)
        BY <1>3, <1>b DEF AddComment
    <2> QED
        BY <1>0, <2>2, <2>3, ReadsStaySeen DEF Trails, TrailsExplain
<1>4. ASSUME NEW s \in Slots, CommitAssign(s)
      PROVE  Trails'
    <2>1. req[s].op \in Operations /\ req[s].prior \in [Groups -> Named]
        BY <1>4, OpenTypes DEF CommitAssign, At, OpenRequest
    <2>2. req[s].op.whom \in Named
        BY <1>4, <2>1, OperationShape DEF CommitAssign, At, Named
    <2>3. ASSUME NEW g \in Groups
          PROVE  /\ Grows(g)
                 /\ Explains(activity'[g], "assign", None, assignee'[g])
                 /\ Explains(activity'[g], "move", "open", status'[g])
                 /\ PermittedMoves(activity'[g])
        <3> DEFINE e == Assigned(req[s].prior[g], req[s].op.whom)
        <3>1. e \in Event /\ e.kind = "assign" /\ e.from = req[s].prior[g] /\ e.to = req[s].op.whom
            BY <2>1, <2>2 DEF Assigned, Event
        <3>2. CASE g \in Reassigned(s)
            <4>1. activity'[g] = Append(activity[g], e) /\ assignee'[g] = e.to /\ status'[g] = status[g]
                BY <1>4, <3>1, <3>2 DEF CommitAssign
            <4>2. Seen(activity[g], "assign", None, e.from)
                BY <1>0, <1>4, <3>1, <3>2 DEF ReadsSeen, HasRead, CommitAssign, Reassigned
            <4> HIDE DEF e
            <4>3. Explains(activity'[g], "assign", None, e.to)
                BY <1>0, <3>1, <4>1, <4>2, OneMoreLine DEF TrailsExplain
            <4>4. Explains(activity'[g], "move", "open", status[g])
                BY <1>0, <3>1, <4>1, AsideTrail DEF TrailsExplain
            <4>6. PermittedMoves(activity'[g])
                BY <1>0, <3>1, <4>1, AsideMoves DEF TrailsExplain
            <4> QED
                BY <3>1, <4>1, <4>3, <4>4, <4>6 DEF Grows
        <3>3. CASE g \notin Reassigned(s)
            <4>1. activity'[g] = activity[g] /\ assignee'[g] = assignee[g] /\ status'[g] = status[g]
                BY <1>4, <3>3 DEF CommitAssign
            <4> QED
                BY <1>0, <4>1, SameTrail DEF Grows
        <3> QED
            BY <3>2, <3>3
    <2>4. \A q \in Slots : ReadsNoMore(q)
        BY <1>4, <1>b DEF CommitAssign
    <2> QED
        BY <1>0, <2>3, <2>4, ReadsStaySeen DEF Trails, TrailsExplain
<1>5. ASSUME NEW s \in Slots, CommitMove(s)
      PROVE  Trails'
    <2>1. req[s].op \in Operations /\ req[s].prior \in [Groups -> Named]
        BY <1>5, OpenTypes DEF CommitMove, At, OpenRequest
    <2>2. req[s].op.what \in Named
        BY <1>5, <2>1, OperationShape DEF CommitMove, At, Named
    <2>3. ASSUME NEW g \in Groups
          PROVE  /\ Grows(g)
                 /\ Explains(activity'[g], "assign", None, assignee'[g])
                 /\ Explains(activity'[g], "move", "open", status'[g])
                 /\ PermittedMoves(activity'[g])
        <3> DEFINE e == MoveEvent(req[s].prior[g], req[s].op.what)
        <3>1. e \in Event /\ e.kind = "move" /\ e.from = req[s].prior[g] /\ e.to = req[s].op.what
            BY <2>1, <2>2 DEF MoveEvent, Event
        <3>2. CASE g \in Moved(s)
            <4>1. activity'[g] = Append(activity[g], e) /\ assignee'[g] = assignee[g] /\ status'[g] = e.to
                BY <1>5, <3>1, <3>2 DEF CommitMove
            <4>2. Seen(activity[g], "move", "open", e.from)
                BY <1>0, <1>5, <3>1, <3>2 DEF ReadsSeen, HasRead, CommitMove, Moved
            <4>3. CanTransition(e.from, e.to)
                <5>1. req[s].op.kind = "sweep" => e.from \in ExceptionStatuses /\ e.to = "open"
                    BY <2>1, <3>1, <3>2, OperationShape DEF Moved
                <5> QED
                    BY <3>1, <3>2, <5>1 DEF Moved, CanTransition, ALLOWED_TRANSITIONS,
                                            ExceptionStatuses
            <4> HIDE DEF e
            <4>4. Explains(activity'[g], "move", "open", e.to)
                BY <1>0, <3>1, <4>1, <4>2, OneMoreLine DEF TrailsExplain
            <4>5. Explains(activity'[g], "assign", None, assignee[g])
                BY <1>0, <3>1, <4>1, AsideTrail DEF TrailsExplain
            <4>6. PermittedMoves(activity'[g])
                BY <1>0, <3>1, <4>1, <4>3 DEF TrailsExplain, PermittedMoves, Own
            <4> QED
                BY <3>1, <4>1, <4>4, <4>5, <4>6 DEF Grows
        <3>3. CASE g \notin Moved(s)
            <4>1. activity'[g] = activity[g] /\ assignee'[g] = assignee[g] /\ status'[g] = status[g]
                BY <1>5, <3>3 DEF CommitMove
            <4> QED
                BY <1>0, <4>1, SameTrail DEF Grows
        <3> QED
            BY <3>2, <3>3
    <2>4. \A q \in Slots : ReadsNoMore(q)
        BY <1>5, <1>b DEF CommitMove
    <2> QED
        BY <1>0, <2>3, <2>4, ReadsStaySeen DEF Trails, TrailsExplain
<1>6. ASSUME NEW s \in Slots, NEW g \in Groups, ReadAssignee(s, g) \/ ReadStatus(s, g)
      PROVE  Trails'
    <2> DEFINE left == req[s].unread \ {g}
    <2> DEFINE r(v) == [req[s] EXCEPT !.unread = left, !.prior = [req[s].prior EXCEPT ![g] = v]]
    <2>1. req[s].step = "admitted" /\ req[s] \in OpenRequest
        BY <1>6, OpenTypes DEF ReadAssignee, ReadStatus, At
    <2>2. TrailsExplain' /\ \A f \in Groups : activity'[f] = activity[f]
        BY <1>0, <1>6, SameTrail DEF TrailsExplain, ReadAssignee, ReadStatus, ReadGroup, findings
    <2>3. ASSUME NEW v, req' = [req EXCEPT ![s] = r(v)],
                 req[s].op.kind = "assign" => Seen(activity[g], "assign", None, v),
                 req[s].op.kind \in {"move", "sweep"} => Seen(activity[g], "move", "open", v)
          PROVE  ReadsSeen'
        <3>1. req'[s] = r(v) /\ \A q \in Slots \ {s} : req'[q] = req[q]
            BY <1>0, <2>3 DEF TypeOK
        <3>2. /\ r(v).op = req[s].op /\ r(v).unread = left
              /\ r(v).prior = [req[s].prior EXCEPT ![g] = v] /\ req[s].prior \in [Groups -> Named]
            BY <2>1 DEF OpenRequest
        <3> HIDE DEF r
        <3>3. ASSUME NEW q \in Slots, NEW f \in Groups, req'[q].step = "admitted", HasRead(q, f)'
              PROVE  /\ req'[q].op.kind = "assign" =>
                            Seen(activity[f], "assign", None, req'[q].prior[f])
                     /\ req'[q].op.kind \in {"move", "sweep"} =>
                            Seen(activity[f], "move", "open", req'[q].prior[f])
            <4>1. CASE q # s
                BY <1>0, <3>1, <3>3, <4>1 DEF ReadsSeen, HasRead, At
            <4>2. CASE q = s /\ f = g
                BY <2>3, <3>1, <3>2, <4>2
            <4>3. CASE q = s /\ f # g
                <5>1. req'[q].prior[f] = req[s].prior[f] /\ HasRead(s, f) /\ req'[q].op = req[s].op
                    BY <3>1, <3>2, <3>3, <4>3 DEF HasRead
                <5> QED
                    BY <1>0, <2>1, <5>1 DEF ReadsSeen, At
            <4> QED
                BY <4>1, <4>2, <4>3
        <3> QED
            BY <2>2, <3>3 DEF ReadsSeen, At
    <2>4. CASE ReadAssignee(s, g)
        <3>1. Seen(activity[g], "assign", None, assignee[g])
            BY <1>0, PresentSeen DEF TrailsExplain
        <3>2. req' = [req EXCEPT ![s] = r(assignee[g])] /\ req[s].op.kind = "assign"
            BY <2>4 DEF ReadAssignee, ReadGroup, At
        <3> QED
            BY <2>2, <2>3, <3>1, <3>2 DEF Trails
    <2>5. CASE ReadStatus(s, g)
        <3>1. Seen(activity[g], "move", "open", status[g])
            BY <1>0, PresentSeen DEF TrailsExplain
        <3>2. req' = [req EXCEPT ![s] = r(status[g])] /\ req[s].op.kind \in {"move", "sweep"}
            BY <2>5 DEF ReadStatus, ReadGroup, At
        <3> QED
            BY <2>2, <2>3, <3>1, <3>2 DEF Trails
    <2> QED
        BY <1>6, <2>4, <2>5
<1>7. ASSUME NEW s \in Slots, CheckTicket(s) \/ CheckTarget(s) \/ Deliver(s)
      PROVE  Trails'
    <2>1. ASSUME NEW q \in Slots
          PROVE  ReadsNoMore(q)
        <3>1. CASE q = s
            <4>1. req[s] \in OpenRequest
                BY <1>7, OpenTypes DEF CheckTicket, CheckTarget, Deliver, At
            <4>0. "step" \in DOMAIN req[s] /\ req \in [Slots -> OpenRequest \cup {Idle}]
                BY <1>0, <4>1 DEF TypeOK, OpenRequest
            <4>2. req'[s].step \in {"checked", "calling", "answered"}
                <5>1. CASE CheckTicket(s)
                    BY ONLY <4>0, <5>1 DEF CheckTicket
                <5>2. CASE CheckTarget(s)
                    BY ONLY <4>0, <5>2 DEF CheckTarget
                <5>3. CASE Deliver(s)
                    BY ONLY <4>0, <5>3 DEF Deliver
                <5> QED
                    BY <1>7, <5>1, <5>2, <5>3
            <4> QED
                BY <3>1, <4>2 DEF ReadsNoMore
        <3>2. CASE q # s /\ q \in Rivals(s)
            <4>1. req[q] \in OpenRequest /\ req[q].step # "admitted"
                BY <3>2, OpenTypes DEF Rivals, MakesTicket
            <4>2. req'[q].step = req[q].step
                BY <1>0, <1>7, <3>2, <4>1 DEF CheckTicket, CheckTarget, Deliver, TypeOK, OpenRequest
            <4> QED
                BY <4>1, <4>2 DEF ReadsNoMore
        <3>3. CASE q # s /\ q \notin Rivals(s)
            BY <1>0, <1>7, <3>3 DEF CheckTicket, CheckTarget, Deliver, TypeOK, ReadsNoMore
        <3> QED
            BY <3>1, <3>2, <3>3
    <2> QED
        BY <1>7, <1>a, <2>1 DEF CheckTicket, CheckTarget, Deliver, findings
<1>8. ASSUME NEW s \in Slots,
             RefuseTicket(s) \/ AnswerLost(s) \/ CommitTicket(s) \/ ChangeTarget(s)
                \/ ChangeRole(s) \/ ChangeActive(s) \/ Fail(s)
      PROVE  Trails'
    <2>1. End(s) /\ UNCHANGED <<assignee, status, activity>>
        BY <1>8 DEF RefuseTicket, AnswerLost, CommitTicket, ChangeTarget, ChangeRole, ChangeActive,
                    Fail, findings
    <2> QED
        BY <1>a, <1>b, <2>1
<1>9. ASSUME NEW u \in Users, NEW kind \in Kinds, Login(u, kind)
      PROVE  Trails'
    BY <1>1, <1>9 DEF Login, findings
<1>10. ASSUME NEW c \in creds, Logout(c)
       PROVE  Trails'
    BY <1>1, <1>10 DEF Logout, findings
<1>11. CASE UNCHANGED vars
    BY <1>1, <1>11 DEF vars
<1> QED
    BY <1>2, <1>3, <1>4, <1>5, <1>6, <1>7, <1>8, <1>9, <1>10, <1>11 DEF Next

\* Whatever requests overlap, the trail of a finding explains its status and
\* its assignee, and holds no move that the state machine refuses
\* (workflow_service.transition, collaboration.assign, bulk_service).
THEOREM RequestsLeaveTrails == Spec => []TrailsExplain
<1>1. Init => Trails
    BY DEF Init, Trails, TrailsExplain, ReadsSeen, Explains, PermittedMoves, Own, At, Idle
<1>2. Trails => TrailsExplain
    BY DEF Trails
<1> QED
    BY <1>1, <1>2, TypedInit, TypedStep, TrailsStep, PTL DEF Spec
=============================================================================
