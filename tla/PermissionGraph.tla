--------------------------- MODULE PermissionGraph --------------------------
(***************************************************************************)
(* The permission graph of a dataset, the blast radius and the escalation  *)
(* path of each principal (analysis/graph.py), and the part of the graph   *)
(* that a principal's page draws (services/graph_view.py).                 *)
(*                                                                         *)
(* Two graphs come out of one pass.  The saved edges are told apart by     *)
(* their relation; the graph that is searched holds one edge between two   *)
(* nodes, and a later relation replaces an earlier one.  Which of several  *)
(* shortest paths networkx returns is left open.                           *)
(***************************************************************************)
EXTENDS Organisation

\* Actions that start compute, mint another's credentials, or attach a policy
\* to oneself.
COMPUTE_LAUNCH_ACTIONS == {"ec2:RunInstances", "lambda:CreateFunction"}
CREATE_CREDENTIAL_ACTIONS == <<"iam:CreateAccessKey", "iam:CreateLoginProfile", "iam:UpdateLoginProfile">>
SELF_ATTACH_ACTIONS == <<"iam:AttachUserPolicy", "iam:AttachRolePolicy", "iam:PutUserPolicy", "iam:PutRolePolicy">>

Edge(src, dst, relation) == [src |-> src, dst |-> dst, relation |-> relation]
Node(kind, uid) == <<kind, uid>>
P(uid) == Node("principal", uid)

\* principal -HAS_POLICY-> policy -GRANTS_ACTION-> action -ON_RESOURCE-> resource.
HAS_POLICY == UNION {{Edge(P(p), Node("policy", u), "HAS_POLICY") :
                         u \in attached[p] \cap policies} : p \in Principals}
Attached == policies \cap UNION {attached[p] : p \in Principals}
StatementEdges(u, st) ==
    LET scope == IF resources(st) = {} THEN {Star} ELSE resources(st)
    IN  UNION {{Edge(Node("policy", u), Node("action", a), "GRANTS_ACTION")}
               \cup {Edge(Node("action", a), Node("resource", r), "ON_RESOURCE") : r \in scope} :
               a \in GrantedBy(st)}
PolicyEdges == HAS_POLICY \cup
    UNION {UNION {StatementEdges(u, st) : st \in Allowed(Document[u])} : u \in Attached}

\* principal -CAN_ASSUME-> role, as the role's trust policy names it.
CAN_ASSUME ==
    {e \in Principals \X Roles :
        /\ e[1] # e[2]
        /\ \E st \in trust[e[2]] : /\ is_assume_role_statement(st)
                                  /\ e[1] \in trust_principal_arns(st.principal)}

\* The three escalation primitives.
PassesRoles(p) ==
    LET granted == GrantedActions(p) IN
    /\ grants_action(granted, "iam:PassRole")
    /\ \E a \in COMPUTE_LAUNCH_ACTIONS : grants_action(granted, a)
FirstGranted(p, actions) ==
    LET granted == GrantedActions(p) IN
    {actions[i] : i \in {j \in DOMAIN actions : /\ grants_action(granted, actions[j])
                         /\ \A k \in 1 .. j - 1 : ~grants_action(granted, actions[k])}}
MintsCredentials(p) == FirstGranted(p, CREATE_CREDENTIAL_ACTIONS) # {}
AttachesToSelf(p) == FirstGranted(p, SELF_ATTACH_ACTIONS) # {}

CAN_ESCALATE ==
    (UNION {{p} \X (Roles \ {p}) : p \in {x \in Principals : PassesRoles(x)}})
    \cup (UNION {{p} \X (Principals \ (Roles \cup {p})) : p \in {x \in Principals : MintsCredentials(x)}})
    \cup {<<p, p>> : p \in {x \in Principals : AttachesToSelf(x)}}

\* The saved edges, and the two relations the searches see.
Edges == PolicyEdges \cup {Edge(P(e[1]), P(e[2]), "CAN_ASSUME") : e \in CAN_ASSUME}
                     \cup {Edge(P(e[1]), P(e[2]), "CAN_ESCALATE") : e \in CAN_ESCALATE}
\* Mutant of AssumeOnly: every edge that is not a self-loop is taken for one of trust.
AssumeOnly_Any == {e \in CAN_ASSUME \cup CAN_ESCALATE : e[1] # e[2]}
AssumeOnly == CAN_ASSUME \ CAN_ESCALATE
\* Mutant of EscalationGraph: the searched graph loses the replaced relation.
EscalationGraph_Replaced == (CAN_ASSUME \ CAN_ESCALATE) \cup (CAN_ESCALATE \ CAN_ASSUME)
EscalationGraph == CAN_ASSUME \cup CAN_ESCALATE

-----------------------------------------------------------------------------
\* The nodes within n hops of p, and the descendants of p, which never contain
\* p itself.
OneHop(G, near) == near \cup {e[2] : e \in {x \in G : x[1] \in near}}
Longest(G) == Cardinality({e[1] : e \in G})
Within(G, p) ==
    LET W[n \in 0 .. Longest(G)] == IF n = 0 THEN {p} ELSE OneHop(G, W[n - 1])
    IN  W
descendants(G, p) == Within(G, p)[Longest(G)] \ {p}

Paths(G, p, q, n) ==
    {s \in [1 .. n + 1 -> Principals] :
        s[1] = p /\ s[n + 1] = q /\ \A i \in 1 .. n : <<s[i], s[i + 1]>> \in G}

direct_admins == {p \in Principals : Star \in GrantedActions(p)}
admins == direct_admins \cup {p \in Principals : AttachesToSelf(p)}

\* The admin-equivalent nodes p reaches, itself included.
admin_targets(p) == (descendants(EscalationGraph, p) \cup {p}) \cap admins
can_reach_admin(p) == admin_targets(p) # {}

\* The paths the code may record for p: to a nearest other admin, or its own
\* self-attachment when there is no other; none for who is admin already.
escalations(p) ==
    LET G       == EscalationGraph
        targets == admin_targets(p)
        others  == targets \ {p}
        near    == Within(G, p)
        dist    == CHOOSE n \in 1 .. Longest(G) : near[n] \cap others # {} /\ near[n - 1] \cap others = {}
    IN  IF p \in direct_admins \/ targets = {} THEN {}
        ELSE IF others = {} THEN {<<p>>}
        ELSE UNION {Paths(G, p, q, dist) : q \in others}

-----------------------------------------------------------------------------
\* The blast radius: the actions of p and of the roles it can assume, weighed.
assumable(p) == descendants(AssumeOnly, p)
union_actions(p) == UNION {GrantedActions(q) : q \in {p} \cup assumable(p)}

Least(a, b) == IF a < b THEN a ELSE b

\* Python's round: to the nearest integer, a half to the even one.
Round(n, d) ==
    LET q == n \div d  r == n % d
    IN  IF 2 * r > d \/ (2 * r = d /\ q % 2 = 1) THEN q + 1 ELSE q

\* 100 * (0.45 * sensitive/25 + 0.25 * actions/300 + 0.20 * admin + 0.10 * roles/10)
blast_radius_score(p) ==
    Round(540 * Least(Cardinality(has_sensitive(union_actions(p))), 25)
          + 25 * Least(Cardinality(union_actions(p)), 300)
          + (IF can_reach_admin(p) THEN 6000 ELSE 0)
          + 300 * Least(Cardinality(assumable(p)), 10), 300)

-----------------------------------------------------------------------------
(***************************************************************************)
(* A principal's page.  "path" is the escalation path stored with its      *)
(* passrole finding, <<>> if there is none.  Edges are looked up by the    *)
(* uid they start from, whatever its type.                                 *)
(***************************************************************************)
ChainRelations == {"HAS_POLICY", "GRANTS_ACTION", "ON_RESOURCE"}
From(uid) == {e \in Edges : e.src[2] = uid}

\* The policy chain of a uid: everything its relations lead to.
ChainEdges == {e \in Edges : e.relation \in ChainRelations}
add_policy_chain(uid) ==
    LET chain == ChainEdges
        seen  == {uid} \cup descendants({<<e.src[2], e.dst[2]>> : e \in chain}, uid)
    IN  {e \in chain : e.src[2] \in seen}

Hops(p) == {e \in From(p) : e.relation \in {"CAN_ASSUME", "CAN_ESCALATE"}}
HopTargets(p) == {e.dst[2] : e \in Hops(p)}

\* Mutant of principal_graph: only the principal's own chain is drawn.
principal_graph_OwnOnly(p, path) == add_policy_chain(p) \cup Hops(p)

principal_graph(p, path) ==
    LET targets == HopTargets(p)
        expand  == IF Len(path) > 1 THEN {path[i] : i \in 2 .. Len(path)} ELSE targets
    IN  (UNION {add_policy_chain(q) : q \in {p} \cup (targets \cap expand)}) \cup Hops(p)
=============================================================================
