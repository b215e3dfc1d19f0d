------------------------------- MODULE Checks -------------------------------
(***************************************************************************)
(* The registered checks, the risk score of a finding, the posture of an   *)
(* account and the compliance map: what one scan finds in a dataset        *)
(* (analysis/checks/*, analysis/risk.py, analysis/engine.py,               *)
(* compliance/mappings.py).  A finding is told apart by its fingerprint    *)
(* (check, principal, resource, policy) and by the evidence two scans of   *)
(* the same fingerprint may differ in; titles and remediation texts are    *)
(* left out.                                                               *)
(***************************************************************************)
EXTENDS PermissionGraph, LeastPrivilege

CONSTANT Thresholds   \* the ages in days and the number of failed logins that count

ASSUME ThresholdsAssumption ==
    Thresholds \in [inactivity_days : Nat, password_age_days : Nat, key_age_days : Nat,
                    failed_logins : Nat]

\* severity, category, and the control of each framework a check belongs to.
M(severity, category, cis, soc2, nist) ==
    [severity |-> severity, category |-> category,
     controls |-> {<<"CIS_AWS_1.4", cis>>, <<"SOC2", soc2>>, <<"NIST", nist>>} \ {<<"CIS_AWS_1.4", None>>}]

Meta ==
    [mfa_disabled           |-> M("HIGH", "identity", "1.10", "CC6.1", "IA-2(1)"),
     inactive               |-> M("MEDIUM", "hygiene", "1.12", "CC6.2", "AC-2(3)"),
     service_console_access |-> M("MEDIUM", "identity", None, "CC6.1", "AC-2"),
     no_recent_login        |-> M("LOW", "hygiene", "1.12", "CC6.2", "AC-2(3)"),
     old_access_key         |-> M("HIGH", "credential", "1.14", "CC6.1", "IA-5(1)"),
     stale_password         |-> M("MEDIUM", "credential", "1.9", "CC6.1", "IA-5(1)"),
     unused_active          |-> M("MEDIUM", "credential", "1.12", "CC6.2", "AC-2(3)"),
     orphaned_principal     |-> M("LOW", "inventory", None, "CC6.2", "AC-2"),
     repeated_login_failures |-> M("MEDIUM", "log", "4.1", "CC7.2", "AC-7"),
     privileged_login       |-> M("LOW", "log", "4.1", "CC7.2", "AU-6"),
     service_interactive_login |-> M("HIGH", "log", None, "CC7.2", "AU-6"),
     denied_sensitive_iam   |-> M("MEDIUM", "log", "4.4", "CC7.2", "AU-6"),
     wildcard_action        |-> M("HIGH", "policy", "1.16", "CC6.3", "AC-6"),
     sensitive_action_on_star |-> M("HIGH", "privilege", "1.16", "CC6.3", "AC-6(1)"),
     risky_not_action       |-> M("MEDIUM", "policy", "1.16", "CC6.3", "AC-6"),
     overly_broad_resource  |-> M("MEDIUM", "policy", "1.16", "CC6.3", "AC-6"),
     admin_access           |-> M("HIGH", "privilege", "1.16", "CC6.3", "AC-6(5)"),
     passrole_createkey     |-> M("CRITICAL", "privilege", "1.16", "CC6.3", "AC-6(9)"),
     trust_wildcard         |-> M("CRITICAL", "privilege", "1.22", "CC6.3", "AC-6(2)"),
     unused_grants          |-> M("MEDIUM", "privilege", None, "CC6.3", "AC-6(1)")]

Finding(check, principal, resource, policy, evidence) ==
    [check |-> check, principal |-> principal, resource |-> resource, policy |-> policy,
     evidence |-> evidence]
fingerprint(f) == <<f.check, f.principal, f.resource, f.policy>>

OfPrincipal(check, p, evidence) == Finding(check, p, None, None, evidence)
Each(check, S) == {OfPrincipal(check, p, None) : p \in S}

-----------------------------------------------------------------------------
\* Identity and hygiene.
Humans == {p \in Users : ~is_service(p)}
HasCredential(p) == record(p).console \/ record(p).key # NoDay
AtLeast(age, limit) == age # NoDay /\ age >= limit

MfaDisabled == Each("mfa_disabled", {p \in Users : record(p).console /\ ~record(p).mfa})
InactiveUser ==
    {OfPrincipal("inactive", p, record(p).idle) :
        p \in {q \in Principals \ Roles :
                 record(q).active /\ AtLeast(record(q).idle, Thresholds.inactivity_days)}}
ServiceConsoleAccess ==
    Each("service_console_access", {p \in Principals : is_service(p) /\ record(p).console})
NoRecentLogin == Each("no_recent_login", {p \in Humans : record(p).active /\ record(p).idle = NoDay})

\* Credentials.
OldAccessKey ==
    {OfPrincipal("old_access_key", p, record(p).key) :
        p \in {q \in Principals : AtLeast(record(q).key, Thresholds.key_age_days)}}
StalePassword ==
    {OfPrincipal("stale_password", p, record(p).password) :
        p \in {q \in Principals : record(q).console /\
                 AtLeast(record(q).password, Thresholds.password_age_days)}}
UnusedActiveCredential ==
    IF window_days <= 0 THEN {}
    ELSE {OfPrincipal("unused_active", p, window_days) :
             p \in {q \in Principals : record(q).active /\ HasCredential(q) /\ ~is_active(q)}}

\* Inventory.
OrphanedPrincipal == Each("orphaned_principal", {p \in Principals : attached[p] = {} /\ ~is_active(p)})

-----------------------------------------------------------------------------
\* The log.
Logins == {i \in DOMAIN log_events : log_events[i].name = "ConsoleLogin"}
RepeatedLoginFailures ==
    LET Failed(u, ip) == {i \in Logins : /\ log_events[i].outcome = "failure"
                                         /\ log_events[i].uid = u /\ log_events[i].ip = ip}
    IN  {Finding("repeated_login_failures", k[1], k[2], None, Cardinality(Failed(k[1], k[2]))) :
           k \in {<<log_events[i].uid, log_events[i].ip>> :
                    i \in {j \in Logins : Cardinality(Failed(log_events[j].uid, log_events[j].ip)) >=
                                            Thresholds.failed_logins}}}

\* One finding per principal: its first login.
FirstLogin(S, Counts(_)) ==
    {log_events[i] : i \in {j \in Logins : /\ log_events[j].uid \in S /\ Counts(log_events[j])
        /\ \A k \in Logins : k < j => ~(log_events[k].uid = log_events[j].uid /\ Counts(log_events[k]))}}
PrivilegedLogin ==
    {OfPrincipal("privileged_login", e.uid, e.ip) :
        e \in FirstLogin(direct_admins, LAMBDA e : e.outcome \in {"success", None})}
ServiceInteractiveLogin ==
    {OfPrincipal("service_interactive_login", e.uid, e.ip) :
        e \in FirstLogin({p \in Principals : is_service(p)}, LAMBDA e : TRUE)}

\* One finding per event: a fingerprint may come up several times in one scan.
DeniedSensitiveIam ==
    {Finding("denied_sensitive_iam", log_events[i].uid, log_events[i].name, None, i) :
        i \in {j \in DOMAIN log_events :
                 log_events[j].is_sensitive_iam /\ log_events[j].outcome = "denied"}}

-----------------------------------------------------------------------------
\* Policies.
OfPolicy(check, S) == {Finding(check, None, None, u, None) : u \in S}
OnStar(st) == is_allow(st) /\ Star \in resources(st)
WildcardAction == OfPolicy("wildcard_action", {u \in policies : has_wildcard_action(Document[u])})
SensitiveActionOnStar ==
    OfPolicy("sensitive_action_on_star",
             {u \in policies : \E st \in Document[u] : OnStar(st) /\ has_sensitive(st.action) # {}})
RiskyNotAction ==
    OfPolicy("risky_not_action", {u \in policies : \E st \in Allowed(Document[u]) : st.notAction # {}})
OverlyBroadResource ==
    OfPolicy("overly_broad_resource",
             {u \in policies : /\ ~has_wildcard_action(Document[u])
                               /\ \E st \in Document[u] : /\ OnStar(st) /\ st.action # {}
                                                          /\ has_sensitive(st.action) = {}})

\* Privilege and escalation.
ESCALATION_PARTNERS ==
    {"iam:CreateAccessKey", "iam:CreateLoginProfile", "iam:UpdateLoginProfile",
     "iam:AttachUserPolicy", "iam:AttachRolePolicy", "iam:PutUserPolicy",
     "ec2:RunInstances", "lambda:CreateFunction"}
AdminAccess == Each("admin_access", direct_admins)

\* The graph's path is attached as evidence, whatever primitive it starts with.
PathOf(p) == LET paths == escalations(p) IN IF paths = {} THEN <<>> ELSE CHOOSE s \in paths : TRUE
PassRoleEscalation ==
    {OfPrincipal("passrole_createkey", p, PathOf(p)) :
        p \in {q \in Principals : /\ grants_action(GrantedActions(q), "iam:PassRole")
                                  /\ \E a \in ESCALATION_PARTNERS : grants_action(GrantedActions(q), a)}}
TrustWildcardPrincipal ==
    Each("trust_wildcard", {r \in Roles : \E st \in trust[r] : /\ is_assume_role_statement(st)
                                                    /\ principal_has_wildcard(st.principal)})

Recommendation(p) ==
    recommend(GrantedActions(p), policies_for(p), used_by(p), events_for(p), window_days)
UnusedGrants ==
    IF window_days <= 0 THEN {}
    ELSE {OfPrincipal("unused_grants", p, Recommendation(p)) :
             p \in {q \in Principals : /\ granted_sensitive(GrantedActions(q)) # {}
                                       /\ HasCredential(q)
                                       /\ exceeds_threshold(Recommendation(q).unused,
                                                            Recommendation(q).granted)}}

-----------------------------------------------------------------------------
\* run_analysis: every check in turn.
Findings ==
    MfaDisabled \cup InactiveUser \cup ServiceConsoleAccess \cup NoRecentLogin
    \cup OldAccessKey \cup StalePassword \cup UnusedActiveCredential \cup OrphanedPrincipal
    \cup RepeatedLoginFailures \cup PrivilegedLogin \cup ServiceInteractiveLogin
    \cup DeniedSensitiveIam \cup WildcardAction \cup SensitiveActionOnStar \cup RiskyNotAction
    \cup OverlyBroadResource \cup AdminAccess \cup PassRoleEscalation \cup TrustWildcardPrincipal
    \cup UnusedGrants

\* The risk of one finding.
base_weight(severity) ==
    CASE severity = "LOW" -> 20 [] severity = "MEDIUM" -> 45 [] severity = "HIGH" -> 70
      [] severity = "CRITICAL" -> 90
BlastOf(f) == IF f.principal \in Principals THEN blast_radius_score(f.principal) ELSE 0
impact(f, blast) ==
    IF Meta[f.check].severity = "CRITICAL" \/ blast >= 75 THEN 5
    ELSE IF Meta[f.check].category = "privilege" \/ blast >= 50 THEN 4 ELSE 3
likelihood(f) ==
    LET known == f.principal \in Principals
    IN  3 + (IF f.check = "repeated_login_failures" /\ f.evidence >= 10 THEN 1 ELSE 0)
          + (IF known /\ record(f.principal).active /\ record(f.principal).console
                      /\ ~record(f.principal).mfa THEN 1 ELSE 0)
          - (IF known /\ ~record(f.principal).active THEN 1 ELSE 0)
\* Asked of findings about a principal of the inventory only.
is_privileged(f) == Meta[f.check].category = "privilege" \/ record(f.principal).adminRole
risk_score(f, blast) ==
    Least(100, Round(55 * base_weight(Meta[f.check].severity) + 500 * impact(f, blast)
                     + 400 * likelihood(f)
                     + (IF blast >= 75 THEN 800 ELSE 0)
                     + (IF f.principal \in Principals /\ is_privileged(f) THEN 500 ELSE 0), 100))

Severities == {"LOW", "MEDIUM", "HIGH", "CRITICAL"}

\* The load an account's posture score falls with, in thousandths; the score is
\* 100 * exp(-load / 80).  A severity's n-th finding counts less than its first.
\* Mutant of diminishing: a share of the weight that shrinks with the number.
diminishing_Share(weight, n) == IF n = 0 THEN 0 ELSE (20000 * weight) \div (17 + 3 * n)
diminishing(weight, n) == IF n = 0 THEN 0 ELSE (20000 * weight * n) \div (17 + 3 * n)
IsEscalation(f) == f.check = "passrole_createkey" /\ f.evidence # <<>>
posture_load(factors) ==
    LET Count(s) == Cardinality({f \in factors : f.severity = s})
        blasts == {f.blast : f \in factors}
        worst == CHOOSE b \in blasts : \A c \in blasts : c <= b
    IN  IF factors = {} THEN 0
        ELSE diminishing(1, Count("LOW")) + diminishing(3, Count("MEDIUM"))
             + diminishing(8, Count("HIGH")) + diminishing(18, Count("CRITICAL"))
             + diminishing(25, Cardinality({f \in factors : IsEscalation(f.finding)}))
             + 400 * Least(worst, 100)

\* The frameworks' failures over the findings of a run.
summarize_compliance(S) ==
    [fw \in {"CIS_AWS_1.4", "SOC2", "NIST"} |->
        Cardinality({f \in S : \E c \in Meta[f.check].controls : c[1] = fw})]
=============================================================================
