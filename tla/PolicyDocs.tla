----------------------------- MODULE PolicyDocs -----------------------------
(***************************************************************************)
(* The structural reader of AWS policy documents (domain/policy.py).  A    *)
(* document is the set of its statements.  Actions are the strings IAM     *)
(* uses; a statement's fields keep only what the readers tell apart:       *)
(* whether the key is there (Effect, NotResource, Condition) and the set   *)
(* of values it lists.  Letter case and the scalar form of a list are left *)
(* out, and so are malformed documents, which read as no statement.        *)
(***************************************************************************)
EXTENDS Naturals, FiniteSets

Star == "*"

\* The actions the models use, by service: "service:*" covers each of them.
ActionsOf ==
    [ iam |-> {"iam:CreateUser", "iam:CreateAccessKey", "iam:CreateLoginProfile",
               "iam:UpdateLoginProfile", "iam:AttachUserPolicy", "iam:AttachRolePolicy",
               "iam:PutUserPolicy", "iam:PutRolePolicy", "iam:PassRole",
               "iam:UpdateAssumeRolePolicy", "iam:GetUser"},
      sts |-> {"sts:AssumeRole"},
      kms |-> {"kms:Decrypt"},
      s3  |-> {"s3:GetObject", "s3:PutBucketPolicy", "s3:ListBucket"},
      ec2 |-> {"ec2:RunInstances", "ec2:DescribeInstances"},
      lambda |-> {"lambda:CreateFunction", "lambda:UpdateFunctionCode"},
      secretsmanager |-> {"secretsmanager:GetSecretValue"},
      cloudtrail |-> {"cloudtrail:StopLogging", "cloudtrail:DeleteTrail"} ]

WildcardOf == [ iam |-> "iam:*", sts |-> "sts:*", kms |-> "kms:*", s3 |-> "s3:*",
                ec2 |-> "ec2:*", lambda |-> "lambda:*",
                secretsmanager |-> "secretsmanager:*", cloudtrail |-> "cloudtrail:*" ]

Services == DOMAIN ActionsOf

\* The catalog of high-blast-radius actions.
SENSITIVE_ACTIONS ==
    ((UNION {ActionsOf[s] : s \in Services})
        \ {"iam:GetUser", "s3:ListBucket", "ec2:DescribeInstances"})
    \cup {Star, "iam:*", "kms:*", "s3:*"}

-----------------------------------------------------------------------------
\* Reading one statement.
is_allow(st) == st.effect # "Deny"

\* Action and NotAction exclude each other in a statement; a NotAction one is
\* read as granting everything.
GrantedBy(st) == IF st.notAction # {} THEN {Star} ELSE st.action

\* NotResource is read as every resource, never as the list it excludes.
resources(st) ==
    IF st.resource # {} THEN st.resource ELSE IF st.notResource THEN {Star} ELSE {}

Allowed(doc) == {st \in doc : is_allow(st)}

\* Reading a document.
has_wildcard_action(doc) == \E st \in Allowed(doc) : Star \in st.action
granted_actions(doc) == UNION {GrantedBy(st) : st \in Allowed(doc)}

\* A trust statement, read before its Principal is looked at.
is_assume_role_statement(st) ==
    is_allow(st) /\ st.action \cap {"sts:AssumeRole", Star} # {}

\* Its Principal: the names under each key it has ("AWS", "Service"), or the
\* scalar "*".
Anyone == [scalar |-> {Star}]
principal_has_wildcard(principal) == \E k \in DOMAIN principal : Star \in principal[k]
trust_principal_arns(principal) ==
    IF "AWS" \in DOMAIN principal THEN principal["AWS"] ELSE {}

-----------------------------------------------------------------------------
\* The one-sided match of an action, possibly a wildcard, with the catalog.  The
\* catalog's own "*" makes it match every wildcard of a service.
is_sensitive_action(a) ==
    \/ a \in SENSITIVE_ACTIONS
    \/ \E s \in Services : /\ a = WildcardOf[s]
                           /\ (ActionsOf[s] \cup {Star}) \cap SENSITIVE_ACTIONS # {}

\* The other side: do the granted patterns cover one concrete action?
grants_action(granted, target) ==
    \/ Star \in granted
    \/ target \in granted
    \/ \E s \in Services : target \in ActionsOf[s] /\ WildcardOf[s] \in granted

has_sensitive(actions) == {a \in actions : is_sensitive_action(a)}
=============================================================================
