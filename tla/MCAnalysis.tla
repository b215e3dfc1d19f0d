----------------------------- MODULE MCAnalysis -----------------------------
(***************************************************************************)
(* Instances of Analysis for TLC: two users, two roles and the policies    *)
(* whose combinations matter to the permission graph, or one user with the *)
(* log lines and the documents that matter to the least-privilege engine.  *)
(***************************************************************************)
EXTENDS Analysis, TLC

CONSTANTS ann, bob, ops, dev, svc, annName, r1, r2

TwoUsers == {ann, bob}
TwoRoles == {ops, dev}
OneUser == {ann}
Nobody == {}
Symmetry == Permutations({ann, bob}) \cup Permutations({ops, dev})

St(actions, scope) ==
    [effect |-> "Allow", action |-> actions, notAction |-> {}, resource |-> scope,
     notResource |-> FALSE, condition |-> FALSE]

OwnNames == [p \in Principals |-> p]
AnnHasAName == [p \in Principals |-> IF p = ann THEN annName ELSE p]

\* Documents for the graph.
GrantDocuments ==
    [ admin    |-> {St({Star}, {Star})},
      launcher |-> {St({"iam:PassRole", "lambda:CreateFunction"}, {ops, dev}),
                    [St({Star}, {r1}) EXCEPT !.effect = "Deny"]},
      minter   |-> {St({"iam:CreateAccessKey"}, {r1})},
      attacher |-> {St({"iam:PutUserPolicy"}, {Star})} ]
GrantPolicies == DOMAIN GrantDocuments
Trusts ==
    {[effect |-> "Allow", action |-> {"sts:AssumeRole"}, principal |-> [AWS |-> {p}]] : p \in Principals}
    \cup {[effect |-> "Deny", action |-> {"sts:AssumeRole"}, principal |-> [AWS |-> Principals]],
          [effect |-> "Allow", action |-> {"sts:AssumeRole"}, principal |-> Anyone]}
NoGrants == [p \in Principals |-> {}]
NoTrusts == {}
NoLines == {}

\* Documents for the least-privilege engine.
UseDocuments ==
    [ objects |-> {St({"s3:*"}, {r1})},
      keys    |-> {St({"iam:CreateAccessKey", "iam:PassRole"}, {r1}), St({"s3:GetObject"}, {r2})},
      guarded |-> {[St({"iam:PassRole"}, {Star}) EXCEPT !.condition = TRUE]} ]
UsePolicies == DOMAIN UseDocuments \cup {"unknown"}
AnnsGrants == [p \in Principals |-> IF p = ann THEN {"objects", "keys"} ELSE {}]
Line(shape, by, source, name, outcome, error, day) ==
    [shape |-> shape, by |-> by, source |-> source, name |-> name, outcome |-> outcome,
     error |-> error, day |-> day, ip |-> "ip"]
UseLines ==
    { Line("json", annName, "s3", "GetObject", None, None, 0),
      Line("json", annName, "iam", "PassRole", None, "denied", 0),
      Line("json", ann, "s3", "ListBucket", "allow", None, 20),
      Line("plain", annName, "iam", "CreateAccessKey", None, None, 20),
      Line("plain", annName, "signin", "ConsoleLogin", "401", None, 3),
      Line("plain", svc, "signin", "ConsoleLogin", None, None, NoDay),
      Line("noise", annName, "iam", "PassRole", None, None, 20) }

Limits == [inactivity_days |-> 90, password_age_days |-> 90, key_age_days |-> 90, failed_logins |-> 2]
NoProfiles == {}
UseProfiles ==
    { [Quiet EXCEPT !.console = TRUE, !.idle = 90, !.password = 89],
      [Quiet EXCEPT !.key = 90, !.mfa = TRUE, !.active = FALSE, !.adminRole = TRUE],
      [Quiet EXCEPT !.service = TRUE, !.console = TRUE, !.key = 1] }
=============================================================================
