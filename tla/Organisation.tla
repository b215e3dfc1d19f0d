---------------------------- MODULE Organisation ----------------------------
(***************************************************************************)
(* An organisation as it changes, and the dataset a scan of it ingests:    *)
(* the inventory with its attachments, the policy documents, the trust     *)
(* policies and the log (ingestion/*, domain/logparse.py,                  *)
(* domain/records.py).  The organisation is outside the program, so its    *)
(* changes are the environment's; each is one call of IAM, or one line     *)
(* more in the log.                                                        *)
(*                                                                         *)
(* The two adapters differ in what the analysis can see: the file adapter  *)
(* loads the policy file whatever is attached and believes the inventory   *)
(* row, the AWS one fetches the policies it finds attached, takes every    *)
(* user for active and knows nothing of a role's credentials.              *)
(***************************************************************************)
EXTENDS PolicyDocs, Integers, Sequences

CONSTANTS
    Users, ServiceAccounts, Roles,   \* principal uids, by kind
    Username,    \* the name logs may use for a principal
    Policies,    \* policy uids an attachment may name
    Document,    \* the documents of the policies the source knows
    AwsSource,   \* TRUE for the AWS adapter, FALSE for the file adapter
    TrustStatements,  \* what a trust policy may say
    Profiles,    \* the credentials and dates a principal may have
    Lines,       \* the log lines that may appear
    InitialGrants,  \* the attachments the organisation starts with
    MaxChanges, MaxLines   \* bounds

Principals == Users \cup ServiceAccounts \cup Roles

None == "none"   \* a field that is not there
NoDay == -1      \* and a date that is not

ASSUME OrganisationAssumption ==
    /\ DOMAIN Document \subseteq Policies /\ IsFiniteSet(DOMAIN Document)
    /\ \A u \in DOMAIN Document :
          /\ IsFiniteSet(Document[u])
          /\ \A st \in Document[u] : st.action \in SUBSET STRING /\ IsFiniteSet(st.action)
                                    /\ st.notAction \in SUBSET STRING
    /\ \A line \in Lines :
          /\ line.day \in Nat \cup {NoDay}
          /\ line.error \in {None, "denied", "failure"}
          /\ line.shape # "json" => line.error = None   \* only CloudTrail has errors
    /\ Users \cap Roles = {} /\ Users \cap ServiceAccounts = {} /\ ServiceAccounts \cap Roles = {}
    /\ DOMAIN Username = Principals
    /\ IsFiniteSet(Principals) /\ None \notin Principals
    /\ InitialGrants \in [Principals -> SUBSET Policies]
    /\ AwsSource \in BOOLEAN
    /\ AwsSource => ServiceAccounts = {}   \* the API has users and roles
    /\ MaxChanges \in Nat /\ MaxLines \in Nat

VARIABLES
    attached,  \* the policies of each principal, managed and inline
    trust,     \* the statements of each role's trust policy
    profile,   \* console access, MFA, activity and ages, per principal
    log,       \* the lines of the log, oldest first
    changes    \* how often the organisation has changed since the start

orgVars == <<attached, trust, profile, log, changes>>

-----------------------------------------------------------------------------
\* The dataset: the policies it holds, and those of one principal.
FilePolicies == DOMAIN Document
AwsPolicies == DOMAIN Document \cap UNION {attached[p] : p \in Principals}
policies == IF AwsSource THEN AwsPolicies ELSE FilePolicies
policies_for(p) == {Document[u] : u \in attached[p] \cap policies}
GrantedActions(p) == UNION {granted_actions(doc) : doc \in policies_for(p)}

\* The record of a principal: the credentials it has, whether its role is named
\* like an administrator's, and the ages, in days, of what is dated (NoDay where
\* there is no date).  The AWS adapter reads no role.
Quiet == [active |-> TRUE, console |-> FALSE, mfa |-> FALSE, service |-> FALSE, adminRole |-> FALSE,
          key |-> NoDay, password |-> NoDay, idle |-> NoDay]
FileRow(p) == profile[p]
AwsUser(p) == [profile[p] EXCEPT !.active = TRUE, !.adminRole = FALSE]
AwsRole(p) == Quiet
record(p) ==
    IF ~AwsSource THEN FileRow(p) ELSE IF p \in Roles THEN AwsRole(p) ELSE AwsUser(p)

is_service(p) == p \in ServiceAccounts \/ record(p).service

-----------------------------------------------------------------------------
\* Reading a log line.
sensitiveEvents == {"CreateAccessKey", "PassRole", "CreateUser"}

normalize_outcome(v) ==
    CASE v \in {"denied", "403"} -> "denied"
      [] v \in {"failure", "401"} -> "failure"
      [] v \in {"success", "allow"} -> "success"
      [] OTHER -> v

\* A CloudTrail object: its error, then its result, and without both the call
\* is one that succeeded.  A plain line is not assumed to have succeeded.
FromCloudtrail(line) ==
    IF line.error # None THEN line.error
    ELSE IF normalize_outcome(line.outcome) # None THEN normalize_outcome(line.outcome)
    ELSE "success"
FromPlaintext(line) == normalize_outcome(line.outcome)
\* Mutant of OutcomeOf: a plain line that says nothing is a success too.
OutcomeOf_Assumed(line) == FromCloudtrail(line)
OutcomeOf(line) == IF line.shape = "json" THEN FromCloudtrail(line) ELSE FromPlaintext(line)

\* The join of a log's name with the inventory: a uid is itself, a user name is
\* the principal's that has it, and any other name stays.
Canonical(name) ==
    IF name \in Principals \/ ~\E p \in Principals : Username[p] = name THEN name
    ELSE CHOOSE p \in Principals : Username[p] = name

\* A line that parses to nothing is dropped (parse_line never raises); the
\* others are told apart by their place in the log.
Parsed == {i \in DOMAIN log : log[i].shape # "noise"}

Event(line) ==
    [ uid |-> Canonical(line.by), name |-> line.name, source |-> line.source, ip |-> line.ip,
      day |-> line.day, outcome |-> OutcomeOf(line),
      is_sensitive_iam |-> line.name \in sensitiveEvents ]

log_events == [i \in Parsed |-> Event(log[i])]

\* The service:Action an event stands for, None if it is a sign-in or cannot be
\* qualified.
ActionNames == [ iam |-> [CreateAccessKey |-> "iam:CreateAccessKey", PassRole |-> "iam:PassRole",
                          CreateUser |-> "iam:CreateUser"],
                 s3  |-> [GetObject |-> "s3:GetObject", ListBucket |-> "s3:ListBucket"] ]
to_iam_action(source, name) ==
    IF name = "ConsoleLogin" \/ source \notin DOMAIN ActionNames THEN None
    ELSE ActionNames[source][name]

\* build_activity_index: what each principal was seen doing.
Events == {Event(log[i]) : i \in Parsed}
used_by(p) ==
    {to_iam_action(e.source, e.name) :
        e \in {x \in Events : x.uid = p /\ x.outcome = "success"}} \ {None}
events_for(p) == Cardinality({i \in Parsed : log_events[i].uid = p})
is_active(p) == events_for(p) > 0

\* Whole days between the first and the last dated event, at least one when
\* two events have a date.
window_days ==
    LET dated == {i \in Parsed : log_events[i].day # NoDay}
        days  == {log_events[i].day : i \in dated}
        first == CHOOSE d \in days : \A c \in days : d <= c
        last  == CHOOSE d \in days : \A c \in days : c <= d
    IN  IF Cardinality(dated) < 2 THEN 0 ELSE IF last = first THEN 1 ELSE last - first

-----------------------------------------------------------------------------
\* The environment.
OrgInit ==
    /\ attached = InitialGrants
    /\ trust = [r \in Roles |-> {}]
    /\ profile = [p \in Principals |-> Quiet]
    /\ log = <<>>
    /\ changes = 0

Change == changes < MaxChanges /\ changes' = changes + 1

AttachPolicy(p, u) ==
    /\ Change
    /\ u \notin attached[p]
    /\ attached' = [attached EXCEPT ![p] = @ \cup {u}]
    /\ UNCHANGED <<trust, profile, log>>

DetachPolicy(p, u) ==
    /\ Change
    /\ u \in attached[p]
    /\ attached' = [attached EXCEPT ![p] = @ \ {u}]
    /\ UNCHANGED <<trust, profile, log>>

AddTrust(r, st) ==
    /\ Change
    /\ st \notin trust[r]
    /\ trust' = [trust EXCEPT ![r] = @ \cup {st}]
    /\ UNCHANGED <<attached, profile, log>>

ChangeProfile(p, new) ==
    /\ Change
    /\ profile[p] # new
    /\ profile' = [profile EXCEPT ![p] = new]
    /\ UNCHANGED <<attached, trust, log>>

LogLine(line) ==
    /\ Change
    /\ Len(log) < MaxLines
    /\ log' = Append(log, line)
    /\ UNCHANGED <<attached, trust, profile>>

OrgNext ==
    \/ \E p \in Principals, u \in Policies : AttachPolicy(p, u) \/ DetachPolicy(p, u)
    \/ \E r \in Roles, st \in TrustStatements : AddTrust(r, st)
    \/ \E p \in Principals, new \in Profiles : ChangeProfile(p, new)
    \/ \E line \in Lines : LogLine(line)
=============================================================================
