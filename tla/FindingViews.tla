---------------------------- MODULE FindingViews ----------------------------
(***************************************************************************)
(* What the pages show of the workflow: the findings table and its paging, *)
(* the facets, the dashboard, the compliance page, the check catalog, the  *)
(* drawer of one finding, the runs list, the score trend and the run that  *)
(* each of them means by "the current one".  Every query here reads one    *)
(* state of FindingWorkflow and changes nothing; several modules of the    *)
(* code repeat the same condition, and the properties are that they agree. *)
(*                                                                         *)
(* There is one account.  The severity and the principal of a finding, and *)
(* the search over its title, follow the shape of "check" and are left     *)
(* out; a row is told apart by its group.                                  *)
(***************************************************************************)
EXTENDS FindingWorkflow, Access

CONSTANTS
    CheckOf,    \* the check that reports each group
    ControlsOf, \* the controls each check belongs to, in any framework
    PageSize,
    TrendLength \* the points of the score trend

ASSUME FindingViewsAssumption ==
    /\ IsFiniteSet(Groups)
    /\ DOMAIN CheckOf = Groups
    /\ \A g \in Groups : CheckOf[g] \in DOMAIN ControlsOf
    /\ PageSize \in Nat \ {0}
    /\ TrendLength \in Nat \ {0}

Checks == DOMAIN ControlsOf

-----------------------------------------------------------------------------
\* Runs.  Ids grow, so the newest completed run is the greatest.
CompletedRuns == {r \in Runs : runs[r] = "completed"}
Lesser(a, b) == IF a < b THEN a ELSE b
Newest(S) == IF S = {} THEN NoRun ELSE CHOOSE r \in S : \A q \in S : q <= r
latest_run == Newest(CompletedRuns)
current_completed_run_id == Newest({r \in Runs : runs[r] = "completed"})
list_runs == {r \in Runs : runs[r] # "none"}
AccountsLatest == Newest(list_runs)   \* whatever its status

\* The completed runs, oldest first, cut to the newest "limit" of them.
score_trend(limit) ==
    {r \in CompletedRuns : Cardinality({q \in CompletedRuns : q > r}) < limit}

\* The newest two, the older first; NoRun twice if there are not two.
default_diff_pair ==
    IF Cardinality(CompletedRuns) < 2 THEN <<NoRun, NoRun>>
    ELSE <<Newest(CompletedRuns \ {latest_run}), latest_run>>

\* The comparison page: the runs it is asked for, or the newest two; it has no
\* board for a run and itself, or for one that has not reported anything.
NoBoard == <<NoRun, NoRun>>
runs_diff(a, b) ==
    LET pair == IF a = NoRun \/ b = NoRun THEN default_diff_pair ELSE <<Lesser(a, b), a + b - Lesser(a, b)>>
    IN  IF pair[1] = pair[2] \/ ~({pair[1], pair[2]} \subseteq list_runs) THEN NoBoard ELSE pair

\* The page of runs: its rows, the one that is current, and whether it offers
\* to compare.
runs_page == [rows |-> list_runs, current |-> current_completed_run_id,
              can_compare |-> default_diff_pair # NoBoard]

-----------------------------------------------------------------------------
\* The findings table: the rows of the newest completed run that pass every
\* filter; an empty filter passes everything.
Rows(r) == IF r = NoRun THEN {} ELSE {g \in Groups : finding[g][r] # Absent}
ApplyFilters(r, f) ==
    {g \in Rows(r) : /\ f.status # {} => finding[g][r] \in f.status
                     /\ f.check # {} => CheckOf[g] \in f.check}
FacetCount(r, st) == Cardinality({g \in Rows(r) : finding[g][r] = st})

\* A page is cut out of the rows in the order of the sort keys; the id of the
\* row breaks every tie, so the order is total.
Orders(S) == {o \in [1 .. Cardinality(S) -> S] : \A i, j \in DOMAIN o : o[i] = o[j] => i = j}
pages(total) == IF total = 0 THEN 1 ELSE (total + PageSize - 1) \div PageSize
OffsetOf(page) == (page - 1) * PageSize
query_findings(order, page) ==
    SubSeq(order, OffsetOf(page) + 1, Lesser(OffsetOf(page) + PageSize, Len(order)))
start_index(total, page) == IF total = 0 THEN 0 ELSE (page - 1) * PageSize + 1
end_index(total, page) == Lesser(page * PageSize, total)

\* Any page number may be asked for; below the first there is only the first.
_page_arg(n) == IF n < 1 THEN 1 ELSE n
_render_findings(order, n) == query_findings(order, _page_arg(n))

-----------------------------------------------------------------------------
\* What counts as active: dashboard.py, compliance_view.py and checks_catalog.py
\* each say it for themselves.
ActiveOnDashboard == {"open", "investigating"}
\* Mutant of ActiveForCompliance: a resolved finding still fails its control.
ActiveForCompliance_Resolved == {"open", "investigating", "resolved"}
ActiveForCompliance == {"open", "investigating"}
ActiveInCatalog == {"open", "investigating"}

build_dashboard(r) == {g \in Rows(r) : finding[g][r] \in ActiveOnDashboard}

_active_finding_counts(r) ==
    LET counted == {g \in Rows(r) : finding[g][r] \in ActiveInCatalog}
    IN  [c \in Checks |-> Cardinality({g \in counted : CheckOf[g] = c})]

\* A control passes when none of its checks has an active finding.
FailingChecks(r) == {CheckOf[g] : g \in {x \in Rows(r) : finding[x][r] \in ActiveForCompliance}}
Controls == UNION {ControlsOf[c] : c \in Checks}
compliance_summary(r) ==
    LET failing == FailingChecks(r)
        rows == Rows(r)
    IN  [k \in Controls |-> [passing |-> \A c \in failing : k \notin ControlsOf[c],
                             count |-> Cardinality({g \in rows : /\ k \in ControlsOf[CheckOf[g]]
                                                      /\ finding[g][r] \in ActiveForCompliance})]]

\* The front page: nothing before a scan has completed, and then the posture,
\* the trend of the last TrendLength scores and the frameworks.
NoPage == [run |-> NoRun]
index ==
    LET r == current_completed_run_id IN
    IF r = NoRun THEN NoPage
    ELSE [ run |-> r, active |-> build_dashboard(r), trend |-> score_trend(TrendLength),
           frameworks |-> compliance_summary(r) ]

-----------------------------------------------------------------------------
\* Mutant of DetailRun: the drawer reads the row of the run on display.
DetailRun_Displayed(g) == latest_run

\* The run whose row a drawer reads: the last the group was seen in, or the
\* newest that has a row of it.
DetailRun(g) ==
    IF lastSeen[g] # NoRun /\ finding[g][lastSeen[g]] # Absent THEN lastSeen[g]
    ELSE Newest({r \in Runs : finding[g][r] # Absent})

\* The drawer of a group; None of it if no row is found.
NoDrawer == [status |-> Absent]
get_finding_detail(g, role) ==
    IF status[g] = Absent \/ DetailRun(g) = NoRun \/ finding[g][DetailRun(g)] = Absent THEN NoDrawer
    ELSE [ status  |-> status[g],                     \* the pill, from the group
           row     |-> finding[g][DetailRun(g)],      \* the row, from the snapshot
           history |-> history[g],
           exceptions |-> {e.kind : e \in ActiveOf(g)},
           actions |-> available_actions(status[g], role) ]

-----------------------------------------------------------------------------
\* Walking the pages in any order shows every row, the footer says which rows
\* are on the page, and the number beside a status in the filter bar is the
\* number of rows that choosing it leaves.  (A filter leaves fewer rows, as a
\* run does that reported fewer.)
EveryRowIsOnAPage ==
    LET rows == Rows(latest_run)
        total == Cardinality(rows)
        numbers == 1 .. pages(total)
        footer == [n \in numbers |-> start_index(total, n) .. end_index(total, n)]
    IN  /\ total > 0 => UNION {footer[n] : n \in numbers} = 1 .. total
        /\ \A order \in Orders(rows) :
              /\ _render_findings(order, 0) = _render_findings(order, 1)
              /\ \A n \in numbers : LET page == _render_findings(order, n) IN
                    {page[k] : k \in DOMAIN page} = {order[i] : i \in footer[n] \ {0}}
FacetsSayWhatIsLeft ==
    LET r == latest_run IN
    \A st \in Status :
        FacetCount(r, st) = Cardinality(ApplyFilters(r, [status |-> {st}, check |-> {}]))

(***************************************************************************)
(* The pages agree about the current run and about what is active in it:   *)
(* the dashboard counts the rows the table shows under "open" and          *)
(* "investigating", the catalog's numbers add up to them check by check,   *)
(* and a control fails exactly when the catalog has a number beside one of *)
(* its checks.  "Compare" leads to a board of the two newest completed     *)
(* runs, which are the end of the trend.  And the table leaves nothing of  *)
(* the run out: every row is on one of its pages.  (dashboard.py,          *)
(* compliance_view.py, checks_catalog.py, finding_query.py, run_query.py,  *)
(* views.index, runs, runs_diff)                                           *)
(***************************************************************************)
PagesAgree ==
    LET r == current_completed_run_id
        page == index
        counts == _active_finding_counts(r)
        newest == latest_run
        runs_shown == runs_page
        board == runs_diff(NoRun, NoRun)
        active_rows == [status |-> {"open", "investigating"}, check |-> {}]
    IN  /\ EveryRowIsOnAPage /\ FacetsSayWhatIsLeft
        /\ page = NoPage <=> newest = NoRun
        /\ page # NoPage =>
              /\ page.run = newest
              /\ page.active = ApplyFilters(newest, active_rows)
              /\ page.run \in page.trend /\ Cardinality(page.trend) <= TrendLength
              /\ \A k \in Controls : LET shown == page.frameworks[k] IN
                    /\ shown.passing <=> \A c \in Checks : k \in ControlsOf[c] => counts[c] = 0
                    /\ shown.passing <=> shown.count = 0
        /\ \A c \in Checks :
              counts[c] = Cardinality(ApplyFilters(newest, [active_rows EXCEPT !.check = {c}]))
        /\ runs_shown.can_compare =>
              /\ board[2] = runs_shown.current /\ board[1] \in CompletedRuns
              /\ score_trend(2) = {board[1], r}
        /\ \A a, b \in runs_shown.rows : a # b => runs_diff(a, b) # NoBoard /\ runs_diff(a, b) = runs_diff(b, a)

(***************************************************************************)
(* A drawer opens on every group a scan has ever detected, and everything  *)
(* in it is of one moment: the row carries the group's status, unless the  *)
(* group's newest writer overlooked another one, the last line of the      *)
(* history leads to it, and each action it offers is one the state machine *)
(* accepts from it.  (finding_detail.get_finding_detail)                   *)
(***************************************************************************)
DrawerTellsTheGroup ==
    \A g \in Groups, role \in ROLES :
        LET d == get_finding_detail(g, role)
        IN  IF status[g] = Absent THEN d = NoDrawer
            ELSE /\ d # NoDrawer
                 /\ d.status = status[g] /\ (g \notin torn => d.row = status[g])
                 /\ d.history[Len(d.history)].to = d.status
                 /\ \A to \in d.actions : CanTransition(d.status, to)

(***************************************************************************)
(* The drawer shows an exception exactly while the status it shows is an   *)
(* exceptional one, and of that kind.  True when nobody takes an irregular *)
(* path, of the groups whose writers saw each other's moves.               *)
(* (finding_detail's active_exception)                                     *)
(***************************************************************************)
DrawerShowsException ==
    \A g \in Groups \ contested : LET d == get_finding_detail(g, "read_only") IN
        d # NoDrawer => d.exceptions = {d.status} \cap ExceptionStatuses
=============================================================================
