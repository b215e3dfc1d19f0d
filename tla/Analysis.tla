------------------------------ MODULE Analysis ------------------------------
(***************************************************************************)
(* An organisation that changes and is scanned now and then: each scan     *)
(* runs the engine over the dataset of its moment, and two scans of the    *)
(* account are compared (services/diff_service.py) and summed up           *)
(* (scan_service._persist_summary).  Whether and when a scan ends, and the *)
(* workflow status of what it finds, are the business of ScanRuns and      *)
(* FindingWorkflow.                                                        *)
(***************************************************************************)
EXTENDS Checks, FiniteSetsExt

CONSTANT MaxScans   \* bound

ASSUME AnalysisAssumption == MaxScans \in Nat

VARIABLE scans   \* the rows and the summary of each completed run

vars == <<orgVars, scans>>

Init == OrgInit /\ scans = <<>>

\* The snapshot row of a finding.
FindingRow(f) ==
    LET blast == BlastOf(f)
    IN  [finding |-> f, severity |-> Meta[f.check].severity, risk |-> risk_score(f, blast), blast |-> blast]
Fingerprints(rows) == {fingerprint(row.finding) : row \in rows}

Sum(f) == MapThenSumSet(LAMBDA x : f[x], DOMAIN f)
Number(rows, Has(_)) == Cardinality({row \in rows : Has(row)})
Newest == scans[Len(scans)].rows
NoCount == -1

\* The fingerprints that are in the earlier rows only.
\* Mutant of Gone: the difference is taken the wrong way round.
Gone_Swapped(rows, earlier) == Cardinality(Fingerprints(rows) \ Fingerprints(earlier))
Gone(rows, earlier) == Cardinality(Fingerprints(earlier) \ Fingerprints(rows))

\* _persist_summary: new and resolved are counted against the newest completed
\* run; the account's first run has neither.  A principal at risk is any name a
\* finding carries, in the inventory or not.
Summary(rows) ==
    [ total    |-> Cardinality(rows),
      severity |-> [s \in Severities |-> Number(rows, LAMBDA row : row.severity = s)],
      category |-> [c \in {Meta[k].category : k \in DOMAIN Meta} |->
                      Number(rows, LAMBDA row : Meta[row.finding.check].category = c)],
      compliance |-> summarize_compliance({row.finding : row \in rows}),
      new      |-> IF scans = <<>> THEN NoCount ELSE Gone(Newest, rows),
      resolved |-> IF scans = <<>> THEN NoCount ELSE Gone(rows, Newest),
      principals |-> Cardinality(Principals),
      at_risk  |-> Cardinality({row.finding.principal : row \in rows} \ {None}) ]

Scan ==
    /\ Len(scans) < MaxScans
    /\ LET rows == {FindingRow(f) : f \in Findings}
       IN  scans' = Append(scans, [rows |-> rows, summary |-> Summary(rows)])
    /\ UNCHANGED orgVars

Next == (OrgNext /\ UNCHANGED scans) \/ Scan

Spec == Init /\ [][Next]_vars

-----------------------------------------------------------------------------
\* Two rows of one issue: what a scan can move, without the workflow status.
has_changes(older, newer) ==
    \/ older.severity # newer.severity
    \/ older.risk # newer.risk
    \/ older.finding.evidence # newer.finding.evidence

\* Where a run has several rows of a fingerprint, one of them is kept.
_findings_by_fingerprint(rows) ==
    [fp \in Fingerprints(rows) |-> CHOOSE row \in rows : fingerprint(row.finding) = fp]

Risk(rows) == Sum([row \in rows |-> row.risk])
TotalRisk(keyed) == Sum([fp \in DOMAIN keyed |-> keyed[fp].risk])

RunDiff(older, newer) ==
    LET both == DOMAIN older \cap DOMAIN newer
    IN  [ new      |-> {newer[fp] : fp \in DOMAIN newer \ DOMAIN older},
          resolved |-> {older[fp] : fp \in DOMAIN older \ DOMAIN newer},
          changed  |-> {<<older[fp], newer[fp]>> :
                           fp \in {x \in both : has_changes(older[x], newer[x])}},
          net_risk |-> TotalRisk(newer) - TotalRisk(older) ]

\* Mutant of diff: the pair is compared in the order it was asked for.
diff_AsAsked(a, b) ==
    RunDiff(_findings_by_fingerprint(scans[a].rows), _findings_by_fingerprint(scans[b].rows))

\* Two runs, the older against the newer in whichever order they are asked for.
diff(a, b) ==
    RunDiff(_findings_by_fingerprint(scans[Least(a, b)].rows),
            _findings_by_fingerprint(scans[a + b - Least(a, b)].rows))

\* The strip "since last scan": the counts stored with the newest run, and the
\* board its link opens.
_since_last_scan ==
    LET last == Len(scans) IN
    [ new |-> scans[last].summary.new, resolved |-> scans[last].summary.resolved,
      board |-> diff(last - 1, last) ]

-----------------------------------------------------------------------------
TypeOK ==
    /\ attached \in [Principals -> SUBSET Policies]
    /\ trust \in [Roles -> SUBSET TrustStatements]
    /\ profile \in [Principals -> Profiles \cup {Quiet}]
    /\ log \in Seq(Lines)
    /\ changes \in 0 .. MaxChanges
    /\ Len(scans) <= MaxScans
    /\ \A k \in DOMAIN scans :
          LET sums == scans[k].summary IN
          /\ \A row \in scans[k].rows : row.risk \in 0 .. 100
          /\ \A counts \in {sums.severity, sums.category} :
                Sum(counts) = sums.total
          /\ sums.new \in NoCount .. sums.total

(***************************************************************************)
(* Clearing a finding never lowers the posture of an account: the load of  *)
(* fewer findings is never the greater one, although each severity's       *)
(* findings weigh less the more there are.  (risk.account_posture_score)   *)
(***************************************************************************)
ClearingNeverHurts ==
    \A k \in DOMAIN scans : \A row \in scans[k].rows :
        posture_load(scans[k].rows \ {row}) <= posture_load(scans[k].rows)

(***************************************************************************)
(* What a principal may do next, read from the documents alone: become a   *)
(* role whose trust policy allows it, start compute as any other role,     *)
(* take over any other identity's credentials.                             *)
(***************************************************************************)
Holds(p, a) ==
    \E u \in attached[p] \cap DOMAIN Document : \E st \in Document[u] :
        st.effect # "Deny" /\ (st.notAction # {} \/ grants_action(st.action, a))
HoldsEverything(p) ==
    \E u \in attached[p] \cap DOMAIN Document : \E st \in Document[u] :
        st.effect # "Deny" /\ (st.notAction # {} \/ Star \in st.action)
Trusted(p, q) ==
    /\ q \in Roles \ {p}
    /\ \E st \in trust[q] : /\ st.effect # "Deny"
                            /\ "AWS" \in DOMAIN st.principal /\ p \in st.principal["AWS"]
                            /\ st.action \cap {"sts:AssumeRole", Star} # {}
Becomes(p, q) ==
    \/ Trusted(p, q)
    \/ /\ q \in Roles \ {p} /\ Holds(p, "iam:PassRole")
       /\ Holds(p, "ec2:RunInstances") \/ Holds(p, "lambda:CreateFunction")
    \/ /\ q \in (Users \cup ServiceAccounts) \ {p}
       /\ \E a \in {"iam:CreateAccessKey", "iam:CreateLoginProfile", "iam:UpdateLoginProfile"} : Holds(p, a)
IsAdmin(p) ==
    \/ HoldsEverything(p)
    \/ \E a \in {"iam:AttachUserPolicy", "iam:AttachRolePolicy", "iam:PutUserPolicy",
                 "iam:PutRolePolicy"} : Holds(p, a)

\* The least set that contains p and is closed under the steps of R.
Pairs(R(_, _)) == {e \in Principals \X Principals : R(e[1], e[2])}
Closure(p, R) ==
    {q \in Principals : \A S \in SUBSET Principals :
        (p \in S /\ \A e \in R : e[1] \in S => e[2] \in S) => q \in S}

(***************************************************************************)
(* An escalation path is recorded exactly for the principals that are not  *)
(* admin today and can become admin-equivalent, each of its hops is one a  *)
(* document allows, it ends at an admin-equivalent identity and no chain   *)
(* of documents is shorter.  (graph._score_principal; its evidence is what *)
(* the passrole finding shows.)                                            *)
(***************************************************************************)
PathsExplainReach ==
    LET steps == Pairs(Becomes) IN
    \A p \in Principals :
        LET reached == Closure(p, steps)
            others  == {q \in reached \ {p} : IsAdmin(q)}
            paths   == escalations(p)
        IN  /\ paths # {} <=> ~HoldsEverything(p) /\ \E q \in reached : IsAdmin(q)
            /\ \A s \in paths :
                  /\ s[1] = p /\ IsAdmin(s[Len(s)])
                  /\ \A i \in 1 .. Len(s) - 1 : Becomes(s[i], s[i + 1])
                  /\ Len(s) = 1 => others = {}
                  /\ Len(s) > 2 => \A q \in others : ~Becomes(p, q)

(***************************************************************************)
(* The actions a blast radius counts are held by the principal or by a     *)
(* role at the end of a chain of trust; and all of those are counted as    *)
(* long as nobody on the chain can also pass roles (then the CAN_ASSUME    *)
(* edge is replaced and the role is missed).  (graph._score_principal,     *)
(* step 1)                                                                 *)
(***************************************************************************)
BlastCountsTrusted ==
    LET trusts == Pairs(Trusted) IN
    \A p \in Principals :
        LET chain == Closure(p, trusts)
        IN  /\ assumable(p) \subseteq chain
            /\ (\A q \in chain : ~PassesRoles(q)) => assumable(p) = chain \ {p}

(***************************************************************************)
(* A principal's page shows every permission it holds, and when a path is  *)
(* recorded its first hop with every permission of the identity it leads   *)
(* to.  (graph_view.principal_graph)                                       *)
(***************************************************************************)
ShowsGrants(drawn, p) ==
    \A u \in attached[p] \cap policies :
        /\ Edge(P(p), Node("policy", u), "HAS_POLICY") \in drawn
        /\ \A st \in Allowed(Document[u]) : StatementEdges(u, st) \subseteq drawn
PageShowsGrants ==
    \A p \in Principals : \A s \in escalations(p) \cup {<<>>} :
        LET drawn == principal_graph(p, s)
        IN  /\ ShowsGrants(drawn, p)
            /\ Len(s) > 1 => /\ \E e \in drawn : e.src = P(p) /\ e.dst = P(s[2])
                             /\ ShowsGrants(drawn, s[2])

-----------------------------------------------------------------------------
\* What the raw log says of p, under either of its names.
NamesOf(p) == {p, Username[p]}
LinesOf(p) == {i \in DOMAIN log : log[i].by \in NamesOf(p) /\ log[i].shape # "noise"}
Succeeded(line) ==
    /\ line.error = None
    /\ line.outcome \in {"success", "allow"} \/ (line.outcome = None /\ line.shape = "json")
Exercised(p) ==
    {to_iam_action(log[i].source, log[i].name) : i \in {j \in LinesOf(p) : Succeeded(log[j])}} \ {None}

(***************************************************************************)
(* What is reported out of use is out of use.  A grant is called unused    *)
(* only if no line of the log shows it used with success, under whichever  *)
(* name and format the line came, and what is listed as used was; and a    *)
(* credential or an identity is called unused only when the log has no     *)
(* line about it at all, a failed or denied one included.  (logparse,      *)
(* normalize, build_activity_index, least_privilege.recommend,             *)
(* credential.UnusedActiveCredentialCheck,                                 *)
(* inventory.OrphanedPrincipalCheck, from end to end)                      *)
(***************************************************************************)
DisuseIsReal ==
    /\ \A f \in UnusedGrants :
          LET seen == Exercised(f.principal)
          IN  /\ f.evidence.used \subseteq seen
              /\ \A g \in f.evidence.unused : \A a \in seen : ~grants_action({g}, a)
    /\ \A f \in UnusedActiveCredential \cup OrphanedPrincipal : LinesOf(f.principal) = {}

(***************************************************************************)
(* A suggested policy grants an action on a resource only where one of the *)
(* principal's own statements does, without a condition, and it still      *)
(* grants every action the principal was seen to use.                      *)
(* (least_privilege._build_policy, _resources_for)                         *)
(***************************************************************************)
SuggestedNeverWidens ==
    \A p \in Principals : LET rec == Recommendation(p) IN
        \A st \in rec.suggested : \A a \in st.action, r \in st.resource :
            \E doc \in policies_for(p) : Grants(doc, a, r)
SuggestedKeepsUse ==
    \A p \in Principals : LET rec == Recommendation(p) IN
        rec.confident => \A a \in Exercised(p) :
            (\E doc \in policies_for(p) : \E r \in UNION {ScopeOf(st) : st \in doc} : Grants(doc, a, r))
            => \E st \in rec.suggested : a \in st.action /\ st.resource # {}

(***************************************************************************)
(* No policy is suggested off sparse data: there are enough lines about    *)
(* the principal, two dated lines as far apart as the window asks, and no  *)
(* statement form the tool cannot reduce.  (least_privilege's two gates)   *)
(***************************************************************************)
NoPolicyOffSparseData ==
    \A p \in Principals : Recommendation(p).suggested # {} =>
        /\ Cardinality(LinesOf(p)) >= MIN_PRINCIPAL_EVENTS
        /\ \E i, j \in DOMAIN log :
              log[i].day # NoDay /\ log[j].day - log[i].day >= MIN_WINDOW_DAYS
        /\ \A u \in attached[p] \cap DOMAIN Document : \A st \in Document[u] :
              st.effect # "Deny" /\ ~st.condition /\ st.notAction = {} /\ ~st.notResource

(***************************************************************************)
(* The comparison of two scans accounts for every row of both, whichever   *)
(* order it is asked in: an issue both report is never a new or a resolved *)
(* card, even if its evidence or risk moved; the net risk of the board is  *)
(* what its cards explain; and the strip that links to it says how many    *)
(* new and resolved cards there are.  Of the rows of one issue it takes    *)
(* one: there are several for denied IAM actions only, where each event is *)
(* a row.  (diff_service.diff, fingerprint.py,                             *)
(* scan_service._persist_summary, views._since_last_scan)                  *)
(***************************************************************************)
SameIssue(f, g) ==
    f.check = g.check /\ f.principal = g.principal /\ f.resource = g.resource /\ f.policy = g.policy
Only(rows, other) ==
    {row \in rows : ~\E x \in other : SameIssue(row.finding, x.finding)}
OneRowPerIssue(rows) ==
    \A x, y \in rows : SameIssue(x.finding, y.finding) =>
        x = y \/ x.finding.check = "denied_sensitive_iam"
Explained(d) ==
    d.net_risk = Risk(d.new) - Risk(d.resolved)
                 + Sum([pair \in d.changed |-> pair[2].risk - pair[1].risk])
DiffAccountsForRuns ==
    /\ \A k \in DOMAIN scans : OneRowPerIssue(scans[k].rows)
    /\ \A a, b \in DOMAIN scans : a < b =>
          LET old == scans[a].rows  recent == scans[b].rows  d == diff(a, b)
          IN  /\ diff(b, a) = d
              /\ d.new \subseteq Only(recent, old) /\ Fingerprints(d.new) = Fingerprints(Only(recent, old))
              /\ d.resolved \subseteq Only(old, recent)
              /\ Fingerprints(d.resolved) = Fingerprints(Only(old, recent))
              /\ Explained(d)
    /\ Len(scans) > 1 =>
          /\ _since_last_scan.new = Cardinality(_since_last_scan.board.new)
          /\ _since_last_scan.resolved = Cardinality(_since_last_scan.board.resolved)
=============================================================================
