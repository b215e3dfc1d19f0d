-------------------------- MODULE FindingWorkflow ---------------------------
(***************************************************************************)
(* Finding groups, their per-run snapshots and their exceptions: the       *)
(* transition routes, the exception service, the bulk service, the expiry  *)
(* job and the part of a scan that writes findings.                        *)
(*                                                                         *)
(* Each of them is one database transaction (session_scope), and none has  *)
(* the database to itself: a request, a sweep or a scan first loads the    *)
(* groups it is about (Load), decides on what it has loaded, and writes    *)
(* when it commits; others commit in between.  That is what the code does  *)
(* on PostgreSQL.  On SQLite a scan keeps the write lock from its first    *)
(* insert to its commit, but a request that has read before still writes   *)
(* after it.                                                               *)
(*                                                                         *)
(* A scan is also two transactions: its run is created when it is queued,  *)
(* and its findings are persisted when it ends.  Up to MaxInFlight scans   *)
(* are open at once and may end in any order.                              *)
(*                                                                         *)
(* A finding_exception row that has been revoked is read by no query       *)
(* again, so only the active rows are kept.                                *)
(***************************************************************************)
EXTENDS Workflow, FiniteSets

CONSTANTS
    Groups,         \* the fingerprints of one account
    Threads,        \* the threads that serve requests, one transaction each at a time
    Scheduler,      \* the one of them, if any, that runs the daily sweep and nothing else
    MaxRuns,        \* bound: runs 1 .. MaxRuns, numbered in creation order
    MaxInFlight,    \* scans that may be open at once; 1 when each waits for the last
    MaxDay,         \* bound on the calendar
    MaxMoves,       \* bound: users leave a group alone once it has this many audit rows
    IrregularPaths  \* the requests below that users make although they skip a step

(***************************************************************************)
(* Two requests the code accepts change a group into or out of an          *)
(* exception status without touching finding_exception: a transition route *)
(* called with to_status "suppressed" or "accepted_risk", and the bulk     *)
(* "Reopen" of a group that is suppressed or accepted.                     *)
(***************************************************************************)
PathNames == {"plain_exception", "bulk_reopen"}

Runs == 1 .. MaxRuns
Days == 1 .. MaxDay
NoRun == 0
NoExpiry == 0           \* finding_exception.expires_at IS NULL
RunStates == {"none", "running", "completed", "failed"}

ASSUME FindingWorkflowAssumption ==
    /\ MaxRuns \in Nat
    /\ MaxInFlight \in Nat
    /\ MaxDay \in Nat
    /\ MaxMoves \in Nat
    /\ IrregularPaths \subseteq PathNames
    /\ Threads \cap Runs = {}

\* Whoever has a transaction open: a thread, or the worker that executes a run.
Sessions == Threads \cup Runs

\* An unrevoked row of finding_exception.  "at" stands for created_at: the
\* length of the group's audit trail once the row and the history row of the
\* same transaction were written.
ExceptionRow == [group : Groups, kind : ExceptionStatuses,
                 expires : Days \cup {NoExpiry}, at : Nat]

\* What a transaction knows of a group: the columns it has loaded, and how long
\* the audit trail was when it first looked (which no code reads).
Unread == "unread"
Look == [status : Status \cup {Absent, Unread}, run : Runs \cup {NoRun}, at : Nat]
NothingSeen == [g \in Groups |-> [status |-> Unread, run |-> NoRun, at |-> 0]]

VARIABLES
    day,       \* today's date
    runs,      \* run.status; "running" covers queued, ingesting and analyzing
    status,    \* finding_group.current_status
    lastSeen,  \* finding_group.last_seen_run
    history,   \* finding_status_history, per group, in the order of the commits
    finding,   \* finding.status of the snapshot of a group in a run, Absent if none
    active,    \* the finding_exception rows with revoked_at IS NULL
    seen,      \* what each open transaction has loaded of each group
    due,       \* the rows that the sweep of each thread has found
    (* Two more say which overlaps there were; no code reads them. *)
    contested, \* the groups that a writer ever moved overlooking another's move
    torn       \* the groups whose newest writer overlooked another's write

vars == <<day, runs, status, lastSeen, history, finding, active, seen, due, contested, torn>>

Init ==
    /\ day = 1
    /\ runs = [r \in Runs |-> "none"]
    /\ status = [g \in Groups |-> Absent]
    /\ lastSeen = [g \in Groups |-> NoRun]
    /\ history = [g \in Groups |-> <<>>]
    /\ finding = [g \in Groups |-> [r \in Runs |-> Absent]]
    /\ active = {}
    /\ seen = [x \in Sessions |-> NothingSeen]
    /\ due = [t \in Threads |-> {}]
    /\ contested = {}
    /\ torn = {}

-----------------------------------------------------------------------------
ActiveOf(g) == {e \in active : e.group = g}

Loaded(x) == {g \in Groups : seen[x][g].status # Unread}

\* A sweep has loaded the group of every row it has found.
AllRead(t) == \A e \in due[t] : e.group \in Loaded(t)

\* What x has loaded of g is out of date: the group has moved, or it has been
\* re-dated and x writes to the run that was its last one.
MovedSince(x, g) == seen[x][g].at # Len(history[g])
Overtaken(x, g) == MovedSince(x, g) \/ (x \in Threads /\ seen[x][g].run # lastSeen[g])

\* The transaction of x ends.
Release(x) == seen' = [seen EXCEPT ![x] = NothingSeen]
EndOf(t) == Release(t) /\ due' = [due EXCEPT ![t] = {}]

\* Mutant of Record: the row is written after the status it should remember.
Record_FromAfter(x, S, to, by) ==
    /\ status' = [g \in Groups |-> IF g \in S THEN to ELSE status[g]]
    /\ history' = [g \in Groups |->
                     IF g \in S THEN Append(history[g], Row(status'[g], to, by))
                                ELSE history[g]]
    /\ contested' = contested \cup {g \in S : MovedSince(x, g)}

\* Every group in S moves to "to", with one audit row each that says from which
\* status x thinks it does.
Record(x, S, to, by) ==
    /\ status' = [g \in Groups |-> IF g \in S THEN to ELSE status[g]]
    /\ history' = [g \in Groups |->
                     IF g \in S THEN Append(history[g], Row(seen[x][g].status, to, by))
                                ELSE history[g]]
    /\ contested' = contested \cup {g \in S : MovedSince(x, g)}

\* What every transition() does besides writing a snapshot.
Moves(t, S, to, by) ==
    /\ Record(t, S, to, by)
    /\ torn' = (torn \ S) \cup {g \in S : Overtaken(t, g)}
    /\ EndOf(t)
    /\ UNCHANGED <<runs, lastSeen, day>>

\* Mutants of Transition: the snapshot of the last run is left as it was, and
\* every run's snapshot follows the move.
Transition_NoMirror(t, S, to, by) ==
    /\ Moves(t, S, to, by)
    /\ UNCHANGED finding
Transition_EveryRun(t, S, to, by) ==
    /\ Moves(t, S, to, by)
    /\ finding' = [g \in Groups |->
                     [r \in Runs |-> IF g \in S /\ finding[g][r] # Absent
                                     THEN to ELSE finding[g][r]]]

\* transition() for every group in S, and the commit: the move is recorded, and
\* the snapshot follows it in the run that t has read as the group's last one.
Transition(t, S, to, by) ==
    /\ Moves(t, S, to, by)
    /\ finding' = [g \in Groups |->
                     [r \in Runs |->
                        IF g \in S /\ r = seen[t][g].run /\ finding[g][r] # Absent
                        THEN to ELSE finding[g][r]]]

\* The groups of a request that the state machine lets move; a bulk request
\* skips the others.
Movable(t, to) == {g \in Loaded(t) : /\ CanTransition(seen[t][g].status, to)
                                     /\ Len(history[g]) < MaxMoves}

-----------------------------------------------------------------------------
\* A transaction reads the row of a group, if there is one: a request one that it
\* is about, a sweep the group of a row it has found, a scan one it has detected.
Load(x, g) ==
    /\ seen[x][g].status = Unread
    /\ \/ x \in Runs /\ runs[x] = "running"
       \/ x \in Threads \ {Scheduler} /\ due[x] = {}
       \/ x \in Threads /\ \E e \in due[x] : e.group = g
    /\ LET first == IF x \in Threads /\ due[x] # {} THEN seen[x][g].at ELSE Len(history[g])
       IN  seen' = [seen EXCEPT ![x][g] = [status |-> status[g], run |-> lastSeen[g], at |-> first]]
    /\ UNCHANGED <<day, runs, status, lastSeen, history, finding, active, due, contested, torn>>

\* A transition request on one group that is not a reopening of an exception.
FindingTransition(t, g, to) ==
    /\ Loaded(t) = {g} /\ due[t] = {}
    /\ g \in Movable(t, to)
    /\ seen[t][g].status \notin ExceptionStatuses
    /\ to \in ExceptionStatuses => "plain_exception" \in IrregularPaths
    /\ Transition(t, {g}, to, "user")
    /\ UNCHANGED active

\* Mutant of RevokeException: the row is not closed.
RevokeException_RowLeft(t, g) ==
    /\ Loaded(t) = {g} /\ due[t] = {}
    /\ g \in Movable(t, "open")
    /\ seen[t][g].status \in ExceptionStatuses
    /\ Transition(t, {g}, "open", "user")
    /\ UNCHANGED active

\* The reopening of one suppressed or accepted group: one active row of the
\* group is closed, whichever the unordered query returns.  No row is closed if
\* there is none, or if somebody else closed the one that was found, which can
\* only be when the group was overtaken or had a row left over.
RevokeException(t, g) ==
    /\ Loaded(t) = {g} /\ due[t] = {}
    /\ g \in Movable(t, "open")
    /\ seen[t][g].status \in ExceptionStatuses
    /\ Transition(t, {g}, "open", "user")
    /\ \/ \E e \in ActiveOf(g) : active' = active \ {e}
       \/ /\ ActiveOf(g) = {} \/ g \in contested' \/ "bulk_reopen" \in IrregularPaths
          /\ UNCHANGED active

\* Suppressing or accepting the risk of one group or of a selection.
CreateException(t, kind, expires) ==
    LET moved == Movable(t, kind)
    IN  /\ due[t] = {} /\ moved # {}
        /\ Transition(t, moved, kind, "user")
        /\ active' = active \cup
              {[group |-> g, kind |-> kind, expires |-> expires, at |-> Len(history[g]) + 1] :
                  g \in moved}

\* The bulk status change: transition() per group, no exception row touched.
BulkTransition(t, to) ==
    LET moved == Movable(t, to)
    IN  /\ due[t] = {} /\ moved # {}
        /\ to \in ExceptionStatuses => "plain_exception" \in IrregularPaths
        /\ (\E g \in moved : seen[t][g].status \in ExceptionStatuses) =>
              "bulk_reopen" \in IrregularPaths
        /\ Transition(t, moved, to, "user")
        /\ UNCHANGED active

\* A request or a sweep ends without having written anything: it was only a
\* page view, was refused, or failed (a sweep at its last statement; whether it
\* got that far nobody else can tell).
Quit(t) ==
    /\ Loaded(t) # {} /\ AllRead(t)
    /\ EndOf(t)
    /\ UNCHANGED <<day, runs, status, lastSeen, history, finding, active, contested, torn>>

\* The expiry sweep, run daily and whenever someone looks at findings: every
\* active row whose date has come is closed, and its group reopened if it is in
\* an exception status.

\* Mutant of Expired: the date itself is still within the exception.
Expired_NextDay == {e \in active : e.expires # NoExpiry /\ e.expires < day}

Expired == {e \in active : e.expires # NoExpiry /\ e.expires <= day}

\* The query of the sweep; its groups are loaded one by one afterwards.
FindExpired(t) ==
    /\ Loaded(t) = {} /\ due[t] = {} /\ Expired # {}
    /\ due' = [due EXCEPT ![t] = Expired]
    /\ seen' = [seen EXCEPT ![t] = [g \in Groups |->
                   [seen[t][g] EXCEPT !.at = IF \E e \in Expired : e.group = g
                                             THEN Len(history[g]) ELSE 0]]]
    /\ UNCHANGED <<day, runs, status, lastSeen, history, finding, active, contested, torn>>

Swept(t) == {g \in Groups : seen[t][g].status \in ExceptionStatuses}

\* Mutant of ExpireExceptions: the group is reopened and its row left active.
ExpireExceptions_RowLeft(t) ==
    /\ due[t] # {} /\ AllRead(t)
    /\ Transition(t, Swept(t), "open", "expiry")
    /\ UNCHANGED active

ExpireExceptions(t) ==
    /\ due[t] # {} /\ AllRead(t)
    /\ Transition(t, Swept(t), "open", "expiry")
    /\ active' = active \ due[t]

-----------------------------------------------------------------------------
Running == {r \in Runs : runs[r] = "running"}

\* A run row is created; ids grow.
EnqueueScan(r) ==
    /\ runs[r] = "none"
    /\ r # 1 => runs[r - 1] # "none"
    /\ Cardinality(Running) < MaxInFlight
    /\ runs' = [runs EXCEPT ![r] = "running"]
    /\ UNCHANGED <<day, status, lastSeen, history, finding, active, seen, due, contested, torn>>

\* The run commits a snapshot of every group it has loaded: the groups in moved
\* are open from now on, those in redated were last seen now, and the others
\* appear with the status that was read.  A group it found missing has to be
\* missing still: its insert fails otherwise, and nothing is committed.
Persist(r, moved, redated) ==
    /\ runs[r] = "running"
    /\ \A g \in Loaded(r) : seen[r][g].status = Absent => status[g] = Absent
    /\ runs' = [runs EXCEPT ![r] = "completed"]
    /\ Record(r, moved, "open", "scan")
    /\ lastSeen' = [g \in Groups |-> IF g \in redated THEN r ELSE lastSeen[g]]
    /\ finding' = [g \in Groups |->
                     IF g \in Loaded(r)
                     THEN [finding[g] EXCEPT ![r] = IF g \in moved THEN "open" ELSE seen[r][g].status]
                     ELSE finding[g]]
    /\ torn' = (torn \ Loaded(r)) \cup {g \in Loaded(r) : Overtaken(r, g)}
    /\ Release(r)
    /\ UNCHANGED <<day, active, due>>

\* The groups of a scan that it creates or, after it has read them as resolved,
\* reopens.
Reappeared(r) == {g \in Groups : seen[r][g].status \in {Absent, "resolved"}}

\* Mutants of PersistScan: a re-detection reopens every group, and a known
\* group is not re-dated.
PersistScan_ReopensAll(r) == Persist(r, {g \in Loaded(r) : seen[r][g].status # "open"}, Loaded(r))
PersistScan_NotRedated(r) ==
    Persist(r, Reappeared(r), {g \in Loaded(r) : seen[r][g].status = Absent})

\* The end of a scan: a group seen for the first time is created, a resolved one
\* is reopened, every one is re-dated, and a snapshot is added to the run.
PersistScan(r) == Persist(r, Reappeared(r), Loaded(r))

\* Mutant of FailScan: the run ends in a state nobody reads.
FailScan_Canceled(r) ==
    /\ runs[r] = "running" /\ Loaded(r) = {}
    /\ runs' = [runs EXCEPT ![r] = "canceled"]
    /\ UNCHANGED <<day, status, lastSeen, history, finding, active, seen, due, contested, torn>>

\* A scan that fails has written no finding.
FailScan(r) ==
    /\ runs[r] = "running" /\ Loaded(r) = {}
    /\ runs' = [runs EXCEPT ![r] = "failed"]
    /\ UNCHANGED <<day, status, lastSeen, history, finding, active, seen, due, contested, torn>>

NextDay ==
    /\ day < MaxDay
    /\ day' = day + 1
    /\ UNCHANGED <<runs, status, lastSeen, history, finding, active, seen, due, contested, torn>>

-----------------------------------------------------------------------------
Next ==
    \/ \E x \in Sessions, g \in Groups : Load(x, g)
    \/ \E t \in Threads, g \in Groups, to \in Status : FindingTransition(t, g, to)
    \/ \E t \in Threads, g \in Groups : RevokeException(t, g)
    \/ \E t \in Threads, kind \in ExceptionStatuses, expires \in Days \cup {NoExpiry} :
          CreateException(t, kind, expires)
    \/ \E t \in Threads, to \in Status : BulkTransition(t, to)
    \/ \E t \in Threads : FindExpired(t)
    \/ \E t \in Threads : ExpireExceptions(t)
    \/ \E t \in Threads : Quit(t)
    \/ \E r \in Runs : EnqueueScan(r)
    \/ \E r \in Runs : PersistScan(r)
    \/ \E r \in Runs : FailScan(r)
    \/ NextDay

Spec == Init /\ [][Next]_vars

\* Days go by and the daily job starts its sweep; when a sweep fails, the next
\* one tries again, and not every one of them fails.
FairSpec ==
    /\ Spec
    /\ WF_vars(NextDay)
    /\ WF_vars(FindExpired(Scheduler))
    /\ WF_vars(\E g \in Groups : Load(Scheduler, g))
    /\ SF_vars(ExpireExceptions(Scheduler))

-----------------------------------------------------------------------------
TypeOK ==
    /\ day \in Nat
    /\ runs \in [Runs -> RunStates]
    /\ status \in [Groups -> Status \cup {Absent}]
    /\ lastSeen \in [Groups -> Runs \cup {NoRun}]
    /\ history \in [Groups -> Seq(AuditRow)]
    /\ finding \in [Groups -> [Runs -> Status \cup {Absent}]]
    /\ active \subseteq ExceptionRow
    /\ seen \in [Sessions -> [Groups -> Look]]
    /\ due \in [Threads -> SUBSET ExceptionRow]
    /\ contested \subseteq Groups /\ torn \subseteq Groups

(***************************************************************************)
(* Every handler, bulk or single, user's or scheduler's, keeps the promise *)
(* of the abstract lifecycle however they overlap: one legal move per      *)
(* change of status, one audit row per move, and a scan or a sweep never   *)
(* undoes a decision it has no right to undo, unless it had not seen it.   *)
(* (workflow_service.transition, _get_or_create_group, expire_exceptions)  *)
(***************************************************************************)
Lifecycle == INSTANCE FindingLifecycle WITH Groups <- Groups, status <- status,
                 history <- history, contested <- contested
ImplementsLifecycle == Lifecycle!Spec

\* The audit trail of every group can be replayed to its present status.
\* (finding_status_history, "that history is the audit trail")
AuditReplays == Lifecycle!AuditReplays

(***************************************************************************)
(* The drawer and the table tell the group's status: the run a group was   *)
(* last seen in is one that completed, and its snapshot there carries the  *)
(* group's present status, whatever users, scans and sweeps did since,     *)
(* unless the newest of them had read the group before another one wrote   *)
(* it; the next one undisturbed sets that right.  And no row of any run    *)
(* ever shows a status that the group has not had.                         *)
(* (workflow_service.py: "mirrored onto the current run's finding          *)
(* snapshot")                                                              *)
(***************************************************************************)
SnapshotMirrors ==
    \A g \in Groups :
        /\ IF status[g] = Absent
           THEN lastSeen[g] = NoRun
           ELSE /\ lastSeen[g] \in Runs
                /\ runs[lastSeen[g]] = "completed"
                /\ finding[g][lastSeen[g]] # Absent
                /\ g \notin torn => finding[g][lastSeen[g]] = status[g]
        /\ \A r \in Runs : finding[g][r] \in Lifecycle!Past(g) \cup {Absent}

(***************************************************************************)
(* The findings page shows the newest completed run of the account.  When  *)
(* each scan waits for the one before, every row it shows carries the      *)
(* group's present status, unless the group's newest writer overlooked     *)
(* another one.  (finding_query.latest_run, query_findings)                *)
(***************************************************************************)
Displayed(r) ==
    /\ runs[r] = "completed"
    /\ \A q \in Runs : runs[q] = "completed" => q <= r

DisplayedRowsMirror ==
    \A r \in Runs : Displayed(r) =>
        \A g \in Groups \ torn : finding[g][r] # Absent => finding[g][r] = status[g]

(***************************************************************************)
(* What a run reported is not rewritten: the snapshot of a group in a run  *)
(* changes only while that run is the last one the group was seen in, but  *)
(* for the request that a scan overtook.  The run diff compares such       *)
(* snapshots.  (workflow_service.transition, the UPDATE's run_id           *)
(* condition)                                                              *)
(***************************************************************************)
PastFrozen ==
    \A g \in Groups, r \in Runs :
        finding[g][r] # Absent /\ r # lastSeen[g] /\ g \notin torn' => finding'[g][r] = finding[g][r]
PastSnapshotsFrozen == [][PastFrozen]_vars

(***************************************************************************)
(* A group is suppressed or accepted exactly while one active exception of *)
(* that kind explains it, and that exception was written together with the *)
(* group's newest audit row.  True when nobody takes an irregular path, of *)
(* the groups whose writers saw each other's moves.                        *)
(* (exception_service: a status transition plus a finding_exception row)   *)
(***************************************************************************)
Explains(e, g) == e.group = g /\ e.kind = status[g] /\ e.at = Len(history[g])

ExceptionMatchesStatus ==
    \A g \in Groups \ contested :
        IF status[g] \in ExceptionStatuses
        THEN \E e \in active : Explains(e, g) /\ ActiveOf(g) = {e}
        ELSE ActiveOf(g) = {}

(***************************************************************************)
(* A group is reopened by expiry only when the exception that put it in    *)
(* its present status has come to its date: a decision taken later, or one *)
(* without a date, is not undone by an older exception, whatever was       *)
(* committed between the query of the sweep and its writes, as long as the *)
(* sweep did not overlook it.  (exception_service.expire_exceptions)       *)
(***************************************************************************)
ReopenedByOwnExpiry ==
    \A g \in Groups \ contested' :
        /\ Len(history'[g]) > Len(history[g])
        /\ history'[g][Len(history'[g])].by = "expiry"
        => \E e \in active : Explains(e, g) /\ e.expires \in 1 .. day
NoForeignExpiry == [][ReopenedByOwnExpiry]_vars

(***************************************************************************)
(* Re-surfacing: an active exception with a date is closed sooner or       *)
(* later, by its owner or by a sweep, although sweeps overlap with         *)
(* requests and fail now and then.  (run_expire_exceptions_job and the     *)
(* calls on the findings pages)                                            *)
(***************************************************************************)
Holds(g, d, n) == \E e \in active : e.group = g /\ e.expires = d /\ e.at = n
ExceptionsEnd ==
    \A g \in Groups, d \in Days, n \in 1 .. MaxMoves : Holds(g, d, n) ~> ~Holds(g, d, n)
=============================================================================
