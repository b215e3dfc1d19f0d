--------------------------- MODULE ScanRunsProofs ---------------------------
(***************************************************************************)
(* The scans of an account, for any number of runs, of workers and of      *)
(* fingerprints: what SQLite's write lock or a single worker guarantees,   *)
(* and what a pool that refuses cleanly guarantees.                        *)
(***************************************************************************)
EXTENDS ScanRuns, FiniteSetTheorems, TLAPS

\* The status of a run and its thread and job are of their types.
LEMMA TypedStep == TypeOK /\ [Next]_vars => TypeOK'
<1> SUFFICES ASSUME TypeOK, [Next]_vars PROVE TypeOK'
    OBVIOUS
<1> USE DEF TypeOK, RowStates, RequestStates, JobStates, Executing, Absent
<1>1. ASSUME NEW r \in Runs, EndJob(r)
      PROVE  /\ job' \in [Runs -> JobStates]
             /\ todo' \in [Runs -> SUBSET Fingerprints]
             /\ pending' \in [Runs -> SUBSET Fingerprints]
             /\ created' \in [Runs -> SUBSET Fingerprints]
             /\ dating' \in [Runs -> SUBSET Fingerprints]
             /\ dated' \in [Runs -> SUBSET Fingerprints]
             /\ writer' \in Runs \cup {NoRun}
    BY <1>1 DEF EndJob
<1>2. ASSUME NEW r \in Runs, CreateRun(r)
      PROVE  TypeOK'
    BY <1>2 DEF CreateRun, scanVars
<1>3. ASSUME NEW r \in Runs, RequestStep(r)
      PROVE  TypeOK'
    BY <1>3 DEF RequestStep, Submit, SubmitRaises, RecordRefusal, RefusalTimesOut, scanVars
<1>4. ASSUME NEW r \in Runs,
             TakeJob(r) \/ ReportIngesting(r) \/ ReportAnalyzing(r) \/ ScanRaises(r)
      PROVE  TypeOK'
    BY <1>4 DEF TakeJob, ReportIngesting, ReportAnalyzing, ScanRaises, scanVars
<1>5. ASSUME NEW r \in Runs, RecordFailure(r) \/ WriteFails(r)
      PROVE  TypeOK'
    BY <1>1, <1>5 DEF RecordFailure, WriteFails
<1>6. ASSUME NEW r \in Runs, NEW D \in SUBSET Fingerprints, BeginPersist(r, D)
      PROVE  TypeOK'
    BY <1>6 DEF BeginPersist
<1>7. ASSUME NEW r \in Runs, NEW f \in Fingerprints, SelectGroup(r, f)
      PROVE  TypeOK'
    <2>1. pending' \in [Runs -> SUBSET Fingerprints] /\ dating' \in [Runs -> SUBSET Fingerprints]
        BY <1>7 DEF SelectGroup
    <2>2. todo' \in [Runs -> SUBSET Fingerprints]
        BY <1>7 DEF SelectGroup
    <2> QED
        BY <1>7, <2>1, <2>2 DEF SelectGroup
<1>8. ASSUME NEW r \in Runs, InsertGroup(r) \/ RedateGroup(r)
      PROVE  TypeOK'
    BY <1>1, <1>8 DEF InsertGroup, RedateGroup
<1>9. ASSUME NEW r \in Runs, Summarize(r)
      PROVE  TypeOK'
    BY <1>9 DEF Summarize, scanVars
<1>10. ASSUME NEW r \in Runs, Complete(r)
       PROVE  TypeOK'
    BY <1>1, <1>10 DEF Complete
<1>11. ASSUME Crash
       PROVE  TypeOK'
    BY <1>11 DEF Crash
<1>12. CASE UNCHANGED vars
    BY <1>12 DEF vars
<1> QED
    BY <1>2, <1>3, <1>4, <1>5, <1>6, <1>7, <1>8, <1>9, <1>10, <1>11, <1>12
    DEF Next, JobStep

\* Before the first run everything has its type.
LEMMA TypedInit == Init => TypeOK
BY DEF Init, TypeOK, RowStates, RequestStates, JobStates, Absent

\* Every variable keeps its type.
THEOREM ScanRunsTyped == Spec => []TypeOK
BY TypedInit, TypedStep, PTL DEF Spec

-----------------------------------------------------------------------------
(* A run has no job before it is submitted.                                *)

NotSubmitted ==
    \A r \in Runs :
        /\ row[r] = "none" => request[r] = "none" /\ job[r] = "none"
        /\ request[r] = "created" => row[r] = "queued" /\ job[r] = "none"

\* Nothing but the submission gives a run its job.
LEMMA NotSubmittedStep == TypeOK /\ NotSubmitted /\ [Next]_vars => NotSubmitted'
<1> SUFFICES ASSUME TypeOK, NotSubmitted, [Next]_vars PROVE NotSubmitted'
    OBVIOUS
<1> USE DEF TypeOK, NotSubmitted
<1>1. CASE UNCHANGED vars
    BY <1>1 DEF vars
<1>2. ASSUME NEW r \in Runs, CreateRun(r) \/ RequestStep(r)
      PROVE  NotSubmitted'
    BY <1>2
    DEF CreateRun, RequestStep, Submit, SubmitRaises, RecordRefusal, RefusalTimesOut
<1>3. ASSUME NEW r \in Runs, job[r] # "none", UNCHANGED request,
             \E st \in JobStates, rs \in RowStates \ {"none"} :
                /\ job' = [job EXCEPT ![r] = st]
                /\ row' = row \/ row' = [row EXCEPT ![r] = rs]
      PROVE  NotSubmitted'
    BY <1>3
<1>4. ASSUME NEW r \in Runs, JobStep(r)
      PROVE  /\ job[r] # "none" /\ UNCHANGED request
             /\ \E st \in JobStates, rs \in RowStates \ {"none"} :
                   /\ job' = [job EXCEPT ![r] = st]
                   /\ row' = row \/ row' = [row EXCEPT ![r] = rs]
    <2> USE DEF JobStates, Executing, RowStates
    <2>1. CASE TakeJob(r) \/ ReportIngesting(r) \/ ReportAnalyzing(r) \/ ScanRaises(r)
        BY <2>1 DEF TakeJob, ReportIngesting, ReportAnalyzing, ScanRaises
    <2>2. CASE RecordFailure(r) \/ WriteFails(r)
        BY <2>2 DEF RecordFailure, WriteFails, WaitsForLock, InCircle, EndJob
    <2>3. ASSUME NEW D \in SUBSET Fingerprints, BeginPersist(r, D)
          PROVE  job[r] # "none" /\ job' = [job EXCEPT ![r] = "persist"] /\ UNCHANGED <<row, request>>
        BY <2>3 DEF BeginPersist
    <2>4. ASSUME NEW f \in Fingerprints, SelectGroup(r, f)
          PROVE  job[r] = "persist" /\ job' = job /\ UNCHANGED <<row, request>>
        BY <2>4 DEF SelectGroup
    <2>5. CASE InsertGroup(r) \/ RedateGroup(r)
        BY <2>5 DEF InsertGroup, RedateGroup, EndJob
    <2>6. CASE Summarize(r) \/ Complete(r)
        BY <2>6 DEF Summarize, Complete, EndJob
    <2>7. job = [job EXCEPT ![r] = job[r]]
        OBVIOUS
    <2> QED
        BY <1>4, <2>1, <2>2, <2>3, <2>4, <2>5, <2>6, <2>7 DEF JobStep
<1>5. CASE Crash
    BY <1>5 DEF Crash
<1> QED
    BY <1>1, <1>2, <1>3, <1>4, <1>5 DEF Next

-----------------------------------------------------------------------------
(* One scan at a time holds uncommitted groups.                            *)

\* Where scans persist one after another: SQLite's write lock, or one worker.
ScansSerialize == Dialect = "sqlite" \/ Workers <= 1

Holding == {"persist", "summed"}

\* SQLite's write lock is with the run that persists.
LockHeld == Dialect = "sqlite" => \A r \in Runs : job[r] \in Holding => writer = r

\* One worker executes one run.
OneExecutes ==
    Workers <= 1 => \A r, q \in Runs : job[r] \in Executing /\ job[q] \in Executing => r = q

\* Only a persisting run has looked groups up, and what it missed still is missing.
OwnMissing ==
    \A r \in Runs :
        /\ job[r] \notin Holding =>
              /\ pending[r] = {} /\ created[r] = {}
              /\ dating[r] = {} /\ dated[r] = {}
        /\ pending[r] \cap groups = {}
        /\ created[r] \cap groups = {}

SerialInv == TypeOK /\ NotSubmitted /\ LockHeld /\ OneExecutes /\ OwnMissing

\* Two runs never persist at once.
LEMMA OneHolds ==
    ASSUME ScansSerialize, SerialInv, NEW r \in Runs, NEW q \in Runs,
           job[r] \in Holding, job[q] \in Holding
    PROVE  r = q
BY DEF ScansSerialize, SerialInv, LockHeld, OneExecutes, Holding, Executing

\* A single worker that takes a job executes nothing else.
LEMMA TakenAlone ==
    ASSUME Workers <= 1, NEW r \in Runs, TakeJob(r)
    PROVE  \A q \in Runs : job[q] \notin Executing
<1> DEFINE E == {q \in Runs : job[q] \in Executing}
<1>1. IsFiniteSet(E)
    <2>1. IsFiniteSet(Runs)
        BY ScanRunsAssumption, FS_Interval DEF Runs
    <2> QED
        BY <2>1, FS_Subset
<1>2. Cardinality(E) \in Nat
    BY <1>1, FS_CardinalityType
<1>3. Cardinality(E) < Workers
    BY DEF TakeJob
<1>4. Cardinality(E) = 0
    BY <1>2, <1>3, ScanRunsAssumption
<1>5. E = {}
    BY <1>1, <1>4, FS_EmptySet
<1> QED
    BY <1>5

\* The end of a job leaves the other runs alone.
LEMMA EndJobKeeps ==
    ASSUME SerialInv, NEW r \in Runs, EndJob(r), groups' = groups
    PROVE  LockHeld' /\ OneExecutes' /\ OwnMissing'
BY DEF SerialInv, TypeOK, EndJob, LockHeld, OneExecutes, OwnMissing, Holding, Executing, Absent

\* The invariant is inductive.
LEMMA SerialStep == ScansSerialize /\ SerialInv /\ [Next]_vars => SerialInv'
<1> SUFFICES ASSUME ScansSerialize, SerialInv, [Next]_vars PROVE SerialInv'
    OBVIOUS
<1> DEFINE Rest == LockHeld /\ OneExecutes /\ OwnMissing
<1>1. TypeOK' /\ NotSubmitted'
    BY TypedStep, NotSubmittedStep DEF SerialInv
<1>2. CASE UNCHANGED vars
    BY <1>1, <1>2 DEF vars, SerialInv, LockHeld, OneExecutes, OwnMissing
<1>3. ASSUME NEW r \in Runs, CreateRun(r) \/ RequestStep(r)
      PROVE  Rest'
    <2>1. UNCHANGED <<groups, scanVars>>
        BY <1>3
        DEF CreateRun, RequestStep, Submit, SubmitRaises, RecordRefusal, RefusalTimesOut
    <2>2. \/ job' = job
          \/ job[r] = "none" /\ job' = [job EXCEPT ![r] = "queue"]
        BY <1>3
        DEF CreateRun, RequestStep, Submit, SubmitRaises, RecordRefusal, RefusalTimesOut,
            SerialInv, NotSubmitted
    <2>3. \A q \in Runs : \/ job'[q] = job[q]
                          \/ job[q] = "none" /\ job'[q] = "queue"
        BY <2>2 DEF SerialInv, TypeOK
    <2> QED
        BY <2>1, <2>3
        DEF SerialInv, LockHeld, OneExecutes, OwnMissing, Holding, Executing, scanVars
<1>4. ASSUME NEW r \in Runs, TakeJob(r)
      PROVE  Rest'
    <2>1. LockHeld' /\ OwnMissing'
        BY <1>4 DEF SerialInv, TypeOK, LockHeld, OwnMissing, Holding, TakeJob, scanVars
    <2>2. OneExecutes'
        BY <1>4, TakenAlone DEF SerialInv, TypeOK, OneExecutes, TakeJob
    <2> QED
        BY <2>1, <2>2
<1>5. ASSUME NEW r \in Runs, ReportIngesting(r) \/ ReportAnalyzing(r) \/ ScanRaises(r)
      PROVE  Rest'
    BY <1>5
    DEF SerialInv, TypeOK, LockHeld, OneExecutes, OwnMissing, Holding, Executing, scanVars,
        ReportIngesting, ReportAnalyzing, ScanRaises
<1>6. ASSUME NEW r \in Runs, RecordFailure(r) \/ WriteFails(r)
      PROVE  Rest'
    BY <1>6, EndJobKeeps DEF RecordFailure, WriteFails
<1>7. ASSUME NEW r \in Runs, NEW D \in SUBSET Fingerprints, BeginPersist(r, D)
      PROVE  Rest'
    <2>1. LockHeld'
        BY <1>7 DEF SerialInv, TypeOK, LockHeld, Holding, BeginPersist, CanWrite, Runs, NoRun
    <2>2. OneExecutes' /\ OwnMissing'
        BY <1>7 DEF SerialInv, TypeOK, OneExecutes, OwnMissing, Holding, Executing, BeginPersist
    <2> QED
        BY <2>1, <2>2
<1>8. ASSUME NEW r \in Runs, NEW f \in Fingerprints, SelectGroup(r, f)
      PROVE  Rest'
    <2>1. \A q \in Runs \ {r} : pending'[q] = pending[q] /\ dating'[q] = dating[q]
        BY <1>8 DEF SerialInv, TypeOK, SelectGroup
    <2>2. pending'[r] \cap groups = {} /\ job[r] \in Holding
        BY <1>8 DEF SerialInv, TypeOK, SelectGroup, Absent, Holding
    <2>3. OwnMissing'
        BY <1>8, <2>1, <2>2 DEF SerialInv, OwnMissing, SelectGroup
    <2> QED
        BY <1>8, <2>3 DEF SerialInv, LockHeld, OneExecutes, SelectGroup
<1>9. ASSUME NEW r \in Runs, InsertGroup(r)
      PROVE  Rest'
    <2>1. CASE EndJob(r)
        BY <1>9, <2>1, EndJobKeeps DEF InsertGroup
    <2>2. CASE ~EndJob(r)
        BY <1>9, <2>2
        DEF SerialInv, TypeOK, LockHeld, OneExecutes, OwnMissing, InsertGroup, Absent, Holding
    <2> QED
        BY <2>1, <2>2
<1>10. ASSUME NEW r \in Runs, RedateGroup(r) \/ Summarize(r)
       PROVE  Rest'
    BY <1>10
    DEF RedateGroup, SerialInv, TypeOK, LockHeld, OneExecutes, OwnMissing, Summarize, scanVars, Holding, Executing
<1>11. ASSUME NEW r \in Runs, Complete(r)
       PROVE  Rest'
    <2>1. \A q \in Runs \ {r} : job[q] \notin Holding
        BY <1>11, OneHolds DEF Complete, Holding
    <2>2. \A q \in Runs : /\ pending'[q] = {} /\ created'[q] = {}
                          /\ dating'[q] = {} /\ dated'[q] = {}
        BY <1>11, <2>1 DEF SerialInv, TypeOK, OwnMissing, Complete, EndJob, Absent
    <2>3. LockHeld' /\ OneExecutes'
        BY <1>11, <2>1
        DEF SerialInv, TypeOK, LockHeld, OneExecutes, Complete, EndJob, Holding, Executing
    <2> QED
        BY <2>2, <2>3 DEF OwnMissing
<1>12. ASSUME Crash
       PROVE  Rest'
    BY <1>12
    DEF SerialInv, LockHeld, OneExecutes, OwnMissing, Crash, Holding, Executing, Absent
<1> QED
    BY <1>1, <1>2, <1>3, <1>4, <1>5, <1>6, <1>7, <1>8, <1>9, <1>10, <1>11, <1>12
    DEF Next, JobStep, SerialInv

\* The invariant holds before the first run.
LEMMA SerialInit == Init => SerialInv
BY TypedInit
DEF Init, SerialInv, NotSubmitted, LockHeld, OneExecutes, OwnMissing, Holding, Executing, Absent

(***************************************************************************)
(* No scan runs into uq_group_account_fingerprint: what it found missing   *)
(* is still missing when it inserts it, on SQLite or with one worker.      *)
(* (_get_or_create_group)                                                  *)
(***************************************************************************)
THEOREM MissingIsSafe ==
    ASSUME ScansSerialize
    PROVE  Spec => []MissingStaysMissing
<1>1. SerialInv => MissingStaysMissing
    <2> SUFFICES ASSUME SerialInv, NEW r \in Runs
                 PROVE  /\ pending[r] \cap groups = {}
                        /\ created[r] \cap groups = {}
                        /\ \A q \in Runs \ {r} : created[q] \cap (pending[r] \cup created[r]) = {}
        BY DEF MissingStaysMissing
    <2>1. ASSUME NEW q \in Runs \ {r}
          PROVE  created[q] \cap (pending[r] \cup created[r]) = {}
        <3>1. job[q] \notin Holding \/ job[r] \notin Holding
            BY OneHolds
        <3> QED
            BY <3>1 DEF SerialInv, OwnMissing
    <2> QED
        BY <2>1 DEF SerialInv, OwnMissing
<1>2. SerialInv /\ [Next]_vars => SerialInv'
    BY SerialStep
<1> QED
    BY <1>1, <1>2, SerialInit, PTL DEF Spec

-----------------------------------------------------------------------------
(* A summary is up to date when its run is committed.                      *)

\* While a run that is summed holds SQLite's write lock, no status changes.
LEMMA SummedKeeps ==
    ASSUME Dialect = "sqlite", SerialInv, [Next]_vars,
           NEW s \in Runs, job[s] = "summed", job'[s] = "summed"
    PROVE  UNCHANGED <<row, compared>>
<1>1. writer = s /\ ~CanWrite
    BY DEF SerialInv, LockHeld, Holding, CanWrite, Runs, NoRun
<1>2. ASSUME NEW r \in Runs, job[r] \in Holding PROVE r = s
    BY <1>2, OneHolds DEF ScansSerialize, Holding
<1>3. CASE UNCHANGED vars
    BY <1>3 DEF vars
<1>4. ASSUME NEW r \in Runs, CreateRun(r) \/ RequestStep(r)
      PROVE  UNCHANGED <<row, compared>>
    BY <1>1, <1>4 DEF CreateRun, RequestStep, Submit, SubmitRaises, RecordRefusal, RefusalTimesOut
<1>5. ASSUME NEW r \in Runs,
             \/ TakeJob(r) \/ ReportIngesting(r) \/ ReportAnalyzing(r) \/ ScanRaises(r)
             \/ RecordFailure(r) \/ WriteFails(r)
             \/ \E D \in SUBSET Fingerprints : BeginPersist(r, D)
             \/ \E f \in Fingerprints : SelectGroup(r, f)
             \/ InsertGroup(r) \/ RedateGroup(r)
      PROVE  UNCHANGED <<row, compared>>
    BY <1>1, <1>5
    DEF TakeJob, ReportIngesting, ReportAnalyzing, ScanRaises, RecordFailure, WriteFails,
        BeginPersist, SelectGroup, InsertGroup, RedateGroup
<1>6. ASSUME NEW r \in Runs, Summarize(r) \/ Complete(r)
      PROVE  FALSE
    <2>1. r = s
        BY <1>2, <1>6 DEF Summarize, Complete, Holding
    <2> QED
        BY <1>6, <2>1 DEF Summarize, Complete, EndJob, SerialInv, TypeOK
<1>7. ASSUME Crash
      PROVE  FALSE
    BY <1>7 DEF Crash
<1> QED
    BY <1>3, <1>4, <1>5, <1>6, <1>7 DEF Next, JobStep

\* A summary is counted when nothing else is under way, and stays right.
LEMMA CountedStep ==
    ASSUME Dialect = "sqlite", SerialInv, CountedAgainstNewest, [Next]_vars
    PROVE  CountedAgainstNewest'
<1> SUFFICES ASSUME NEW s \in Runs, job'[s] = "summed"
             PROVE  NewestCompleted(s, compared[s])'
    BY DEF CountedAgainstNewest
<1>1. CASE job[s] = "summed"
    BY <1>1, SummedKeeps DEF CountedAgainstNewest, NewestCompleted
<1>2. CASE job[s] # "summed"
    <2>1. Summarize(s)
        <3>1. ASSUME NEW r \in Runs, EndJob(r) PROVE FALSE
            BY <1>2, <3>1 DEF EndJob, SerialInv, TypeOK
        <3>2. ASSUME NEW r \in Runs, CreateRun(r) \/ RequestStep(r) PROVE FALSE
            BY <1>2, <3>2
            DEF CreateRun, RequestStep, Submit, SubmitRaises, RecordRefusal, RefusalTimesOut,
                scanVars, SerialInv, TypeOK
        <3>3. ASSUME NEW r \in Runs,
                     TakeJob(r) \/ ReportIngesting(r) \/ ReportAnalyzing(r) \/ ScanRaises(r)
              PROVE  FALSE
            BY <1>2, <3>3
            DEF TakeJob, ReportIngesting, ReportAnalyzing, ScanRaises, SerialInv, TypeOK
        <3>4. ASSUME NEW r \in Runs, \E D \in SUBSET Fingerprints : BeginPersist(r, D)
              PROVE  FALSE
            BY <1>2, <3>4 DEF BeginPersist, SerialInv, TypeOK
        <3>5. ASSUME NEW r \in Runs,
                     \/ \E f \in Fingerprints : SelectGroup(r, f)
                     \/ InsertGroup(r) \/ RedateGroup(r)
              PROVE  FALSE
            BY <1>2, <3>1, <3>5 DEF SelectGroup, InsertGroup, RedateGroup
        <3>6. ASSUME NEW r \in Runs, RecordFailure(r) \/ Complete(r) \/ WriteFails(r)
              PROVE  FALSE
            BY <3>1, <3>6 DEF RecordFailure, Complete, WriteFails
        <3>7. ASSUME NEW r \in Runs, Summarize(r) PROVE r = s
            BY <1>2, <3>7 DEF Summarize, SerialInv, TypeOK
        <3>8. ~Crash
            BY <1>2 DEF Crash
        <3>9. ~UNCHANGED vars
            BY <1>2 DEF vars
        <3> QED
            BY <3>2, <3>3, <3>4, <3>5, <3>6, <3>7, <3>8, <3>9 DEF Next, JobStep
    <2>2. PICK p \in Runs \cup {NoRun} :
            NewestCompleted(s, p) /\ compared' = [compared EXCEPT ![s] = p]
        BY <2>1 DEF Summarize
    <2>3. row' = row /\ compared'[s] = p
        BY <2>1, <2>2 DEF Summarize, SerialInv, TypeOK
    <2> QED
        BY <2>2, <2>3 DEF NewestCompleted
<1> QED
    BY <1>1, <1>2

(***************************************************************************)
(* On SQLite the run a summary is counted against is still the newest      *)
(* completed one when the summary is committed.  (_persist_summary)        *)
(***************************************************************************)
THEOREM SummaryIsCurrent ==
    ASSUME Dialect = "sqlite"
    PROVE  Spec => []CountedAgainstNewest
<1>1. Init => CountedAgainstNewest
    BY DEF Init, CountedAgainstNewest
<1>2. SerialInv /\ [Next]_vars => SerialInv'
    BY SerialStep DEF ScansSerialize
<1>3. SerialInv /\ CountedAgainstNewest /\ [Next]_vars => CountedAgainstNewest'
    BY CountedStep
<1> QED
    BY <1>1, <1>2, <1>3, SerialInit, PTL DEF Spec

-----------------------------------------------------------------------------
(* A terminal status is final when a pool that raises has taken no job.    *)

\* A run that was refused is queued and has no job; an open job's run is open.
Underway ==
    \A r \in Runs :
        /\ request[r] = "refused" => row[r] = "queued" /\ job[r] = "none"
        /\ job[r] \notin {"none", "over"} => row[r] \notin Terminal

FinalInv == TypeOK /\ NotSubmitted /\ Underway

\* What a step does to the statuses, and to the run it is about.
LEMMA FinalStep ==
    ASSUME "half_refuse" \notin Faults, FinalInv, [Next]_vars
    PROVE  FinalInv' /\ TerminalKept
<1>1. TypeOK' /\ NotSubmitted'
    BY TypedStep, NotSubmittedStep DEF FinalInv
<1> USE DEF FinalInv, TypeOK, NotSubmitted, Underway, TerminalKept, Terminal
<1>2. ASSUME UNCHANGED vars
      PROVE  Underway' /\ TerminalKept
    BY <1>2 DEF vars
<1>3. ASSUME NEW r \in Runs, CreateRun(r) \/ RequestStep(r)
      PROVE  Underway' /\ TerminalKept
    BY <1>3
    DEF CreateRun, RequestStep, Submit, SubmitRaises, RecordRefusal, RefusalTimesOut
<1>4. ASSUME NEW r \in Runs,
             TakeJob(r) \/ ReportIngesting(r) \/ ReportAnalyzing(r) \/ ScanRaises(r)
      PROVE  Underway' /\ TerminalKept
    BY <1>4 DEF TakeJob, ReportIngesting, ReportAnalyzing, ScanRaises
<1>5. ASSUME NEW r \in Runs, EndJob(r), job[r] \notin {"none", "over"}, UNCHANGED request,
             NEW st \in Terminal, row' = row \/ row' = [row EXCEPT ![r] = st]
      PROVE  Underway' /\ TerminalKept
    BY <1>5 DEF EndJob
<1>6. ASSUME NEW r \in Runs, RecordFailure(r) \/ WriteFails(r) \/ Complete(r)
      PROVE  Underway' /\ TerminalKept
    BY <1>5, <1>6 DEF RecordFailure, WriteFails, WaitsForLock, InCircle, Complete
<1>7. ASSUME NEW r \in Runs, job[r] \notin {"none", "over"}, UNCHANGED <<row, request>>,
             NEW st \in JobStates, job' = [job EXCEPT ![r] = st]
      PROVE  Underway' /\ TerminalKept
    BY <1>7
<1>8. ASSUME NEW r \in Runs, NEW D \in SUBSET Fingerprints, BeginPersist(r, D)
      PROVE  Underway' /\ TerminalKept
    BY <1>7, <1>8 DEF BeginPersist, JobStates, Executing
<1>9. ASSUME NEW r \in Runs, RedateGroup(r) \/ \E f \in Fingerprints : SelectGroup(r, f)
      PROVE  Underway' /\ TerminalKept
    BY <1>9 DEF SelectGroup, RedateGroup
<1>10. ASSUME NEW r \in Runs, InsertGroup(r) \/ Summarize(r)
       PROVE  Underway' /\ TerminalKept
    <2>1. CASE InsertGroup(r)
        <3>1. \/ EndJob(r) /\ row' = row
              \/ UNCHANGED <<job, row>>
            BY <2>1 DEF InsertGroup
        <3>2. job[r] \notin {"none", "over"} /\ UNCHANGED request
            BY <2>1 DEF InsertGroup
        <3>3. CASE EndJob(r) /\ row' = row
            BY <1>5, <3>2, <3>3
        <3>4. CASE UNCHANGED <<job, row>>
            BY <3>2, <3>4
        <3> QED
            BY <3>1, <3>3, <3>4
    <2>2. CASE Summarize(r)
        BY <1>7, <2>2 DEF Summarize, JobStates, Executing
    <2> QED
        BY <1>10, <2>1, <2>2
<1>11. ASSUME Crash
       PROVE  Underway' /\ TerminalKept
    BY <1>11 DEF Crash
<1> QED
    BY <1>1, <1>2, <1>3, <1>4, <1>6, <1>8, <1>9, <1>10, <1>11 DEF Next, JobStep

(***************************************************************************)
(* The status the poller stopped at is the run's last one, unless the pool *)
(* may raise for a job that it runs all the same.  (enqueue_scan,          *)
(* RunStatus.is_terminal)                                                  *)
(***************************************************************************)
THEOREM FinalStatusStays ==
    ASSUME "half_refuse" \notin Faults
    PROVE  Spec => TerminalIsFinal
<1>1. Init => FinalInv
    BY TypedInit DEF Init, FinalInv, NotSubmitted, Underway
<1>2. FinalInv /\ [Next]_vars => FinalInv' /\ [TerminalKept]_vars
    BY FinalStep
<1> QED
    BY <1>1, <1>2, PTL DEF Spec, TerminalIsFinal

-----------------------------------------------------------------------------
(* Every open run has an owner, where no write can fail and nobody crashes.*)

\* One worker on PostgreSQL: no scan waits for another.
NoContention == Workers <= 1 /\ Dialect = "postgresql" /\ "crash" \notin Faults

OwnedInv == SerialInv /\ writer = NoRun /\ OpenRunsHaveOwners

\* No write of a scan is refused, so no job ends with its run left open.
LEMMA WritesSucceed ==
    ASSUME NoContention, OwnedInv, NEW r \in Runs
    PROVE  ~WriteFails(r) /\ (InsertGroup(r) => ~EndJob(r))
<1>1. CanWrite
    BY DEF OwnedInv, CanWrite
<1>2. ASSUME InCircle(r) PROVE FALSE
    <2>1. PICK q \in Runs : Rival(r, q)
        BY <1>2 DEF InCircle
    <2>2. /\ q # r
          /\ \/ created[q] # {} /\ pending[r] # {}
             \/ dated[q] # {} /\ dating[r] # {}
        BY <2>1 DEF Rival
    <2>3. job[q] \in Holding /\ job[r] \in Holding
        BY <2>2 DEF OwnedInv, SerialInv, OwnMissing
    <2> QED
        BY <2>2, <2>3 DEF OwnedInv, SerialInv, NoContention, OneExecutes, Holding, Executing
<1>3. ASSUME InsertGroup(r), EndJob(r) PROVE FALSE
    <2>1. pending[r] # {} /\ pending[r] \cap groups = {}
        BY <1>3 DEF InsertGroup, Absent, OwnedInv, SerialInv, OwnMissing
    <2>2. job' = job
        BY <1>3, <2>1 DEF InsertGroup
    <2> QED
        BY <1>3, <2>2 DEF InsertGroup, EndJob, OwnedInv, SerialInv, TypeOK
<1> QED
    BY <1>1, <1>2, <1>3 DEF WriteFails, WaitsForLock

\* The invariant is inductive.
LEMMA OwnedStep == NoContention /\ OwnedInv /\ [Next]_vars => OwnedInv'
<1> SUFFICES ASSUME NoContention, OwnedInv, [Next]_vars PROVE OwnedInv'
    OBVIOUS
<1>1. SerialInv'
    BY SerialStep DEF NoContention, ScansSerialize, OwnedInv
<1> DEFINE Good == writer = NoRun /\ OpenRunsHaveOwners
<1> USE DEF OwnedInv, SerialInv, TypeOK, NotSubmitted, OpenRunsHaveOwners, HasOwner, Terminal
<1>2. ASSUME UNCHANGED vars
      PROVE  Good'
    BY <1>2 DEF vars
<1>3. ASSUME NEW r \in Runs, CreateRun(r)
      PROVE  Good'
    BY <1>3 DEF CreateRun, scanVars
<1>4. ASSUME NEW r \in Runs, RequestStep(r)
      PROVE  Good'
    BY <1>4
    DEF RequestStep, Submit, SubmitRaises, RecordRefusal, RefusalTimesOut, CanWrite, scanVars
<1>5. ASSUME NEW r \in Runs,
             TakeJob(r) \/ ReportIngesting(r) \/ ReportAnalyzing(r) \/ ScanRaises(r)
      PROVE  Good'
    BY <1>5 DEF TakeJob, ReportIngesting, ReportAnalyzing, ScanRaises, scanVars
<1>6. ASSUME NEW r \in Runs, RecordFailure(r) \/ Complete(r)
      PROVE  Good'
    BY <1>6 DEF RecordFailure, Complete, EndJob
<1>7. ASSUME NEW r \in Runs, NEW D \in SUBSET Fingerprints, BeginPersist(r, D)
      PROVE  Good'
    BY <1>7 DEF BeginPersist, NoContention
<1>8. ASSUME NEW r \in Runs, RedateGroup(r) \/ \E f \in Fingerprints : SelectGroup(r, f)
      PROVE  Good'
    BY <1>8 DEF SelectGroup, RedateGroup
<1>9. ASSUME NEW r \in Runs, InsertGroup(r)
      PROVE  Good'
    BY <1>9, WritesSucceed DEF InsertGroup
<1>10. ASSUME NEW r \in Runs, Summarize(r)
       PROVE  Good'
    BY <1>10 DEF Summarize, scanVars
<1>11. ASSUME NEW r \in Runs PROVE ~WriteFails(r)
    BY WritesSucceed
<1>12. ~Crash
    BY DEF Crash, NoContention
<1> QED
    BY <1>1, <1>2, <1>3, <1>4, <1>5, <1>6, <1>7, <1>8, <1>9, <1>10, <1>11, <1>12
    DEF Next, JobStep

(***************************************************************************)
(* No run is left open with nobody to end it, on PostgreSQL with one       *)
(* worker and no crash: the poller never waits for nothing.  (enqueue_scan,*)
(* execute_scan)                                                           *)
(***************************************************************************)
THEOREM NoRunIsAbandoned ==
    ASSUME NoContention
    PROVE  Spec => []OpenRunsHaveOwners
<1>1. Init => OwnedInv
    BY SerialInit DEF Init, OwnedInv, OpenRunsHaveOwners
<1>2. OwnedInv /\ [Next]_vars => OwnedInv'
    BY OwnedStep
<1>3. OwnedInv => OpenRunsHaveOwners
    BY DEF OwnedInv
<1> QED
    BY <1>1, <1>2, <1>3, PTL DEF Spec
=============================================================================
