--------------------------- MODULE LeastPrivilege ---------------------------
(***************************************************************************)
(* Least-privilege recommendations (analysis/least_privilege.py): the      *)
(* grants of one principal against the actions its log shows, the two      *)
(* gates on sparse data, the statement forms the tool refuses to reduce,   *)
(* and the policy it suggests.  "policies" is the set of the documents     *)
(* attached to the principal, "granted" the union of what they grant.      *)
(***************************************************************************)
EXTENDS PolicyDocs

CONSTANTS
    MIN_WINDOW_DAYS,      \* 14 in the code
    MIN_PRINCIPAL_EVENTS  \* 3 in the code

ASSUME LeastPrivilegeAssumption ==
    /\ MIN_WINDOW_DAYS \in Nat /\ MIN_WINDOW_DAYS > 1   \* events of one day span one
    /\ MIN_PRINCIPAL_EVENTS \in Nat

\* UNUSED_RATIO_THRESHOLD is 0.6.
exceeds_threshold(unused, grantedSensitive) ==
    unused # {} /\ 10 * Cardinality(unused) >= 6 * Cardinality(grantedSensitive)

granted_sensitive(granted) == has_sensitive(granted) \ {Star}

\* A granted wildcard is exercised by any action that falls under it.
unused_sensitive(granted, used) ==
    {g \in granted_sensitive(granted) : ~\E u \in used : grants_action({g}, u)}

AllowStatements(policies) == UNION {Allowed(doc) : doc \in policies}

ScopeOf(st) == IF resources(st) = {} THEN {Star} ELSE resources(st)

Patterns(policies) == UNION {GrantedBy(st) : st \in AllowStatements(policies)}

\* The resources of the statements that list one of the patterns.
ScopeUnder(policies, patterns) ==
    UNION {ScopeOf(st) :
             st \in {s \in AllowStatements(policies) : GrantedBy(s) \cap patterns # {}}}

\* Mutant of resources_for: what no statement names by itself is suggested on
\* every resource.
resources_for_Wide(a, policies) ==
    LET own == ScopeUnder(policies, {a}) IN IF own # {} THEN own ELSE {Star}

\* The statements that name the action itself win over those that cover it by
\* a wildcard.
resources_for(a, policies) ==
    LET own      == ScopeUnder(policies, {a})
        covering == ScopeUnder(policies, {g \in Patterns(policies) : grants_action({g}, a)})
    IN  IF own # {} THEN own ELSE IF covering # {} THEN covering ELSE {Star}

has_unsupported_forms(policies) ==
    \E doc \in policies : \E st \in doc :
        ~is_allow(st) \/ st.condition \/ st.notAction # {} \/ st.notResource

Allow(actions, scope) ==
    [effect |-> "Allow", action |-> actions, notAction |-> {}, resource |-> scope,
     notResource |-> FALSE, condition |-> FALSE]

\* One statement for each distinct set of resources.
build_policy(used, policies) ==
    LET scopes == {resources_for(a, policies) : a \in used}
    IN  {Allow({a \in used : resources_for(a, policies) = R}, R) : R \in scopes}

\* Mutant of kept: only the sensitive actions in use are kept.
kept_Sensitive(granted, used) == {u \in has_sensitive(used) : grants_action(granted, u)}
kept(granted, used) == {u \in used : grants_action(granted, u)}

\* Mutant of confident: a window that is too short is let through.
confident_AnyWindow(policies, events, window) ==
    events >= MIN_PRINCIPAL_EVENTS /\ ~has_unsupported_forms(policies)

\* No reason is found to hold the suggested policy back.
confident(policies, events, window) ==
    /\ window >= MIN_WINDOW_DAYS
    /\ events >= MIN_PRINCIPAL_EVENTS
    /\ ~has_unsupported_forms(policies)

recommend(granted, policies, used, events, window) ==
    [ granted   |-> granted_sensitive(granted),
      unused    |-> unused_sensitive(granted, used),
      used      |-> kept(granted, used),
      confident |-> confident(policies, events, window),
      suggested |-> IF confident(policies, events, window)
                    THEN build_policy(kept(granted, used), policies) ELSE {} ]

-----------------------------------------------------------------------------
(***************************************************************************)
(* What an identity may do, read from the statements themselves: an        *)
(* unconditional Allow statement that covers the action and the resource.  *)
(***************************************************************************)
Grants(doc, a, r) ==
    \E st \in doc : /\ is_allow(st) /\ ~st.condition
                    /\ st.notAction = {} /\ ~st.notResource
                    /\ grants_action(st.action, a)
                    /\ r \in ScopeOf(st)
=============================================================================
