------------------------------ MODULE ScanRuns ------------------------------
(***************************************************************************)
(* The scans of one account, from the request that creates a run to the    *)
(* end of its job in the background pool: the thread that enqueues a run,  *)
(* the worker that executes it, the database that serializes or rejects    *)
(* their writes, and the status that the progress poller reads.            *)
(*                                                                         *)
(* A commit of a scan is one step.  Writes whose flush fails roll the      *)
(* session back and leave it unusable, so the handler that should record   *)
(* the failure fails as well: the job is over and the row stays as it was  *)
(* last committed.  There are two ways to get there.  On SQLite a writer   *)
(* waits for the one write lock, which a scan holds from its first         *)
(* persisted row to its last commit, and gives up after the busy timeout.  *)
(* On PostgreSQL two scans may both find a fingerprint missing; the second *)
(* INSERT waits for the first transaction and then violates                *)
(* uq_group_account_fingerprint, or one of the two is a deadlock victim.   *)
(* Re-dating a group that both have found makes them wait in the same way. *)
(*                                                                         *)
(* Commits that only move progress_pct are left out.                       *)
(***************************************************************************)
EXTENDS Naturals, FiniteSets

CONSTANTS
    MaxRuns,       \* bound: runs 1 .. MaxRuns, numbered in creation order
    Workers,       \* max_workers of the pool
    Fingerprints,  \* what a scan of the account may detect
    Dialect,       \* "sqlite" or "postgresql"
    Faults         \* what may go wrong around the scans

(***************************************************************************)
(* "refuse": the pool raises and has not taken the job (it is shut down);  *)
(* "half_refuse": it raises after the job was put into its queue (no       *)
(* thread can be started); "crash": the server process restarts.           *)
(***************************************************************************)
FaultNames == {"refuse", "half_refuse", "crash"}

ASSUME ScanRunsAssumption ==
    /\ MaxRuns \in Nat
    /\ Workers \in Nat
    /\ Dialect \in {"sqlite", "postgresql"}
    /\ Faults \subseteq FaultNames

Runs == 1 .. MaxRuns
NoRun == 0
Absent == {}

RowStates == {"none", "queued", "ingesting", "analyzing", "completed", "failed"}
Terminal == {"completed", "failed"}
RequestStates == {"none", "created", "refused", "done"}
Executing == {"taken", "ingest", "analyze", "persist", "summed", "failing"}
JobStates == {"none", "queue", "over"} \cup Executing

VARIABLES
    row,       \* run.status as committed, "none" before the run exists
    request,   \* where the thread that enqueues the run is
    job,       \* where the job of the run is
    groups,    \* the committed fingerprints of finding_group
    todo,      \* what a persisting run has still to look up
    pending,   \* the fingerprint it found missing and is about to insert, as a set
    created,   \* the groups it inserted in its open transaction
    dating,    \* the fingerprint it found and is about to re-date, as a set
    dated,     \* the groups it re-dated in its open transaction
    compared,  \* the run its summary counts new and resolved findings against
    writer     \* the run that holds SQLite's write lock

vars == <<row, request, job, groups, todo, pending, created, dating, dated, compared, writer>>

Init ==
    /\ row = [r \in Runs |-> "none"]
    /\ request = [r \in Runs |-> "none"]
    /\ job = [r \in Runs |-> "none"]
    /\ groups = {}
    /\ todo = [r \in Runs |-> {}]
    /\ pending = [r \in Runs |-> Absent]
    /\ created = [r \in Runs |-> {}]
    /\ dating = [r \in Runs |-> Absent]
    /\ dated = [r \in Runs |-> {}]
    /\ compared = [r \in Runs |-> NoRun]
    /\ writer = NoRun

scanVars == <<todo, pending, created, dating, dated, writer>>

-----------------------------------------------------------------------------
\* A write of a transaction that holds no lock yet can be committed.
CanWrite == writer = NoRun

\* A job ends: its transaction, if it was open, is committed or rolled back.
EndJob(r) ==
    /\ job' = [job EXCEPT ![r] = "over"]
    /\ todo' = [todo EXCEPT ![r] = {}]
    /\ pending' = [pending EXCEPT ![r] = Absent]
    /\ created' = [created EXCEPT ![r] = {}]
    /\ dating' = [dating EXCEPT ![r] = Absent]
    /\ dated' = [dated EXCEPT ![r] = {}]
    /\ writer' = IF writer = r THEN NoRun ELSE writer

-----------------------------------------------------------------------------
(* The enqueuing thread: enqueue_scan.                                     *)

\* The queued row is committed; ids grow.
CreateRun(r) ==
    /\ row[r] = "none"
    /\ r # 1 => row[r - 1] # "none"
    /\ CanWrite
    /\ row' = [row EXCEPT ![r] = "queued"]
    /\ request' = [request EXCEPT ![r] = "created"]
    /\ UNCHANGED <<job, groups, compared, scanVars>>

Submit(r) ==
    /\ request[r] = "created"
    /\ request' = [request EXCEPT ![r] = "done"]
    /\ job' = [job EXCEPT ![r] = "queue"]
    /\ UNCHANGED <<row, groups, compared, scanVars>>

\* Mutant of SubmitRaises: the job stays in the queue whatever was raised.
SubmitRaises_KeepsJob(r) ==
    /\ request[r] = "created"
    /\ Faults \cap {"refuse", "half_refuse"} # {}
    /\ job' = [job EXCEPT ![r] = "queue"]
    /\ request' = [request EXCEPT ![r] = "refused"]
    /\ UNCHANGED <<row, groups, compared, scanVars>>

\* submit() raises.
SubmitRaises(r) ==
    /\ request[r] = "created"
    /\ \/ "refuse" \in Faults /\ UNCHANGED job
       \/ "half_refuse" \in Faults /\ job' = [job EXCEPT ![r] = "queue"]
    /\ request' = [request EXCEPT ![r] = "refused"]
    /\ UNCHANGED <<row, groups, compared, scanVars>>

\* Mutant of RecordRefusal: a status that the code never writes.
RecordRefusal_Canceled(r) ==
    /\ request[r] = "refused"
    /\ CanWrite
    /\ row' = [row EXCEPT ![r] = "canceled"]
    /\ request' = [request EXCEPT ![r] = "done"]
    /\ UNCHANGED <<job, groups, compared, scanVars>>

\* The run that could not be submitted is marked failed.
RecordRefusal(r) ==
    /\ request[r] = "refused"
    /\ CanWrite
    /\ row' = [row EXCEPT ![r] = "failed"]
    /\ request' = [request EXCEPT ![r] = "done"]
    /\ UNCHANGED <<job, groups, compared, scanVars>>

\* ... unless its own write times out.
RefusalTimesOut(r) ==
    /\ request[r] = "refused"
    /\ ~CanWrite
    /\ request' = [request EXCEPT ![r] = "done"]
    /\ UNCHANGED <<row, job, groups, compared, scanVars>>

-----------------------------------------------------------------------------
(* The worker: execute_scan.                                               *)

\* Mutant of TakeJob: one worker is always kept free.
TakeJob_OneFree(r) ==
    /\ job[r] = "queue"
    /\ Cardinality({q \in Runs : job[q] \in Executing}) + 1 < Workers
    /\ job' = [job EXCEPT ![r] = "taken"]
    /\ UNCHANGED <<row, request, groups, compared, scanVars>>

\* A worker is free and takes a job; which one is left open (the pool takes the
\* oldest).  execute_scan does not ask for the run's status.
TakeJob(r) ==
    /\ job[r] = "queue"
    /\ Cardinality({q \in Runs : job[q] \in Executing}) < Workers
    /\ job' = [job EXCEPT ![r] = "taken"]
    /\ UNCHANGED <<row, request, groups, compared, scanVars>>

\* The first progress report of the adapter commits the status.
ReportIngesting(r) ==
    /\ job[r] = "taken"
    /\ CanWrite
    /\ row' = [row EXCEPT ![r] = "ingesting"]
    /\ job' = [job EXCEPT ![r] = "ingest"]
    /\ UNCHANGED <<request, groups, compared, scanVars>>

\* The dataset is there; "Running checks" is reported.
ReportAnalyzing(r) ==
    /\ job[r] = "ingest"
    /\ CanWrite
    /\ row' = [row EXCEPT ![r] = "analyzing"]
    /\ job' = [job EXCEPT ![r] = "analyze"]
    /\ UNCHANGED <<request, groups, compared, scanVars>>

\* The adapter, normalize or run_analysis raises.
ScanRaises(r) ==
    /\ job[r] \in {"taken", "ingest", "analyze"}
    /\ job' = [job EXCEPT ![r] = "failing"]
    /\ UNCHANGED <<row, request, groups, compared, scanVars>>

\* Mutant of RecordFailure: the handler re-raises without a commit.
RecordFailure_NoCommit(r) ==
    /\ job[r] = "failing"
    /\ CanWrite
    /\ EndJob(r)
    /\ UNCHANGED <<row, request, groups, compared>>

RecordFailure(r) ==
    /\ job[r] = "failing"
    /\ CanWrite
    /\ row' = [row EXCEPT ![r] = "failed"]
    /\ EndJob(r)
    /\ UNCHANGED <<request, groups, compared>>

\* Mutant of BeginPersist: the groups are looked up before the first write.
BeginPersist_NoLock(r, D) ==
    /\ job[r] = "analyze"
    /\ CanWrite
    /\ job' = [job EXCEPT ![r] = "persist"]
    /\ todo' = [todo EXCEPT ![r] = D]
    /\ UNCHANGED <<row, request, groups, pending, created, dating, dated, compared, writer>>

\* The snapshot is written; the checks found the fingerprints in D.
BeginPersist(r, D) ==
    /\ job[r] = "analyze"
    /\ CanWrite
    /\ job' = [job EXCEPT ![r] = "persist"]
    /\ todo' = [todo EXCEPT ![r] = D]
    /\ writer' = IF Dialect = "sqlite" THEN r ELSE NoRun
    /\ UNCHANGED <<row, request, groups, pending, created, dating, dated, compared>>

\* A group is looked up by its fingerprint; a committed one is found.
SelectGroup(r, f) ==
    /\ job[r] = "persist"
    /\ pending[r] = Absent /\ dating[r] = Absent
    /\ f \in todo[r]
    /\ todo' = [todo EXCEPT ![r] = @ \ {f}]
    /\ IF f \in groups
       THEN dating' = [dating EXCEPT ![r] = {f}] /\ UNCHANGED pending
       ELSE pending' = [pending EXCEPT ![r] = {f}] /\ UNCHANGED dating
    /\ UNCHANGED <<row, request, job, groups, created, dated, compared, writer>>

\* The write of r waits for the transaction of q, which wrote the same group.
Rival(r, q) ==
    /\ q # r
    /\ created[q] \cap pending[r] # {} \/ dated[q] \cap dating[r] # {}

InsertGroup(r) ==
    /\ job[r] = "persist"
    /\ pending[r] # Absent
    /\ \A q \in Runs : ~Rival(r, q)
    /\ IF pending[r] \subseteq groups
       THEN EndJob(r)       \* IntegrityError
       ELSE /\ created' = [created EXCEPT ![r] = @ \cup pending[r]]
            /\ pending' = [pending EXCEPT ![r] = Absent]
            /\ UNCHANGED <<job, todo, dating, dated, writer>>
    /\ UNCHANGED <<row, request, groups, compared>>

\* last_seen_run of a group that was found.
RedateGroup(r) ==
    /\ job[r] = "persist"
    /\ dating[r] # Absent
    /\ \A q \in Runs : ~Rival(r, q)
    /\ dated' = [dated EXCEPT ![r] = @ \cup dating[r]]
    /\ dating' = [dating EXCEPT ![r] = Absent]
    /\ UNCHANGED <<row, request, job, groups, todo, pending, created, compared, writer>>

\* p is the completed run with the highest id besides r, NoRun if there is none.
NewestCompleted(r, p) ==
    /\ p # NoRun => p # r /\ row[p] = "completed"
    /\ \A q \in Runs \ {r} : row[q] = "completed" => q <= p

\* Mutant of Summarize: some completed run, in no order.
Summarize_Unordered(r) ==
    /\ job[r] = "persist"
    /\ todo[r] = {} /\ pending[r] = Absent /\ dating[r] = Absent
    /\ \E p \in {q \in Runs \ {r} : row[q] = "completed"} \cup {NoRun} :
          compared' = [compared EXCEPT ![r] = p]
    /\ job' = [job EXCEPT ![r] = "summed"]
    /\ UNCHANGED <<row, request, groups, scanVars>>

\* The summary is counted against the newest completed run.
Summarize(r) ==
    /\ job[r] = "persist"
    /\ todo[r] = {} /\ pending[r] = Absent /\ dating[r] = Absent
    /\ \E p \in Runs \cup {NoRun} :
          /\ NewestCompleted(r, p)
          /\ compared' = [compared EXCEPT ![r] = p]
    /\ job' = [job EXCEPT ![r] = "summed"]
    /\ UNCHANGED <<row, request, groups, scanVars>>

Complete(r) ==
    /\ job[r] = "summed"
    /\ row' = [row EXCEPT ![r] = "completed"]
    /\ groups' = groups \cup created[r]
    /\ EndJob(r)
    /\ UNCHANGED <<request, compared>>

\* A write of the job fails because of the others: it waits for SQLite's lock
\* until the busy timeout, or its write to a group waits in a circle and
\* PostgreSQL picks it as the victim.
WaitsForLock(r) == job[r] \in {"taken", "ingest", "analyze", "failing"} /\ ~CanWrite
InCircle(r) ==
    /\ job[r] = "persist"
    /\ \E S \in SUBSET Runs : r \in S /\ \A s \in S : \E q \in S : Rival(s, q)

WriteFails(r) ==
    /\ WaitsForLock(r) \/ InCircle(r)
    /\ EndJob(r)
    /\ UNCHANGED <<row, request, groups, compared>>

-----------------------------------------------------------------------------
\* The server process stops, and starts again: the pool's queue and every
\* thread are gone, and nothing looks for the runs they left.
Crash ==
    /\ "crash" \in Faults
    /\ request' = [r \in Runs |-> IF request[r] = "none" THEN "none" ELSE "done"]
    /\ job' = [r \in Runs |-> IF job[r] = "none" THEN "none" ELSE "over"]
    /\ todo' = [r \in Runs |-> {}]
    /\ pending' = [r \in Runs |-> Absent]
    /\ created' = [r \in Runs |-> {}]
    /\ dating' = [r \in Runs |-> Absent]
    /\ dated' = [r \in Runs |-> {}]
    /\ writer' = NoRun
    /\ UNCHANGED <<row, groups, compared>>

RequestStep(r) ==
    \/ Submit(r)
    \/ SubmitRaises(r)
    \/ RecordRefusal(r)
    \/ RefusalTimesOut(r)

JobStep(r) ==
    \/ TakeJob(r)
    \/ ReportIngesting(r)
    \/ ReportAnalyzing(r)
    \/ ScanRaises(r)
    \/ RecordFailure(r)
    \/ \E D \in SUBSET Fingerprints : BeginPersist(r, D)
    \/ \E f \in Fingerprints : SelectGroup(r, f)
    \/ InsertGroup(r)
    \/ RedateGroup(r)
    \/ Summarize(r)
    \/ Complete(r)
    \/ WriteFails(r)

Next ==
    \/ \E r \in Runs : CreateRun(r)
    \/ \E r \in Runs : RequestStep(r)
    \/ \E r \in Runs : JobStep(r)
    \/ Crash

Spec == Init /\ [][Next]_vars

\* Threads that can go on do so.  Nobody has to ask for a scan.
FairSpec == Spec /\ \A r \in Runs : WF_vars(RequestStep(r)) /\ WF_vars(JobStep(r))

-----------------------------------------------------------------------------
TypeOK ==
    /\ row \in [Runs -> RowStates]
    /\ request \in [Runs -> RequestStates]
    /\ job \in [Runs -> JobStates]
    /\ groups \subseteq Fingerprints
    /\ todo \in [Runs -> SUBSET Fingerprints]
    /\ pending \in [Runs -> SUBSET Fingerprints]
    /\ created \in [Runs -> SUBSET Fingerprints]
    /\ dating \in [Runs -> SUBSET Fingerprints]
    /\ dated \in [Runs -> SUBSET Fingerprints]
    /\ compared \in [Runs -> Runs \cup {NoRun}]
    /\ writer \in Runs \cup {NoRun}

(***************************************************************************)
(* A run whose status is not terminal has a thread that will change it:    *)
(* the request that creates it or the job that executes it.  Otherwise the *)
(* Runs page polls for ever.  (scan_service: ScanError, "the Run row is    *)
(* marked failed first"; enqueue_scan, "permanently stuck queued")         *)
(***************************************************************************)
HasOwner(r) == request[r] \in {"created", "refused"} \/ job[r] \notin {"none", "over"}
OpenRunsHaveOwners ==
    \A r \in Runs : row[r] \notin Terminal \cup {"none"} => HasOwner(r)

(***************************************************************************)
(* A terminal status is final: the poller that read it has stopped, and    *)
(* the completed run may be on display.  (RunStatus.is_terminal,           *)
(* web.run_progress)                                                       *)
(***************************************************************************)
TerminalKept == \A r \in Runs : row[r] \in Terminal => row'[r] = row[r]
TerminalIsFinal == [][TerminalKept]_vars

(***************************************************************************)
(* A fingerprint that a scan found missing is still missing when it is     *)
(* inserted, so no scan runs into uq_group_account_fingerprint, and no two *)
(* open transactions insert the same one.  (_get_or_create_group, the      *)
(* check and the insert)                                                   *)
(***************************************************************************)
MissingStaysMissing ==
    \A r \in Runs :
        /\ pending[r] \cap groups = {}
        /\ created[r] \cap groups = {}
        /\ \A q \in Runs \ {r} : created[q] \cap (pending[r] \cup created[r]) = {}

(***************************************************************************)
(* Until a summary is committed with its run, the run it is counted        *)
(* against stays the newest completed one: no scan ends, and none is       *)
(* marked failed, in between.  (_persist_summary, "prev_run")              *)
(***************************************************************************)
CountedAgainstNewest ==
    \A r \in Runs : job[r] = "summed" => NewestCompleted(r, compared[r])

(***************************************************************************)
(* Every run that is created ends, completed or failed, and the poller     *)
(* stops.  (web.run_progress)                                              *)
(***************************************************************************)
RunsEnd == \A r \in Runs : row[r] = "queued" ~> row[r] \in Terminal
=============================================================================
