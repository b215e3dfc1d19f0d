---------------------------- MODULE ScheduleSync ----------------------------
(***************************************************************************)
(* Recurring scans: the schedule rows of the accounts and the live jobs of *)
(* the in-process scheduler that should mirror them.  A request edits the  *)
(* row in one transaction and touches the scheduler after its commit; cron *)
(* fires and "Run now" read the row, advance its next run and then ask for *)
(* a scan.  All of them run in threads of one process, which may restart.  *)
(*                                                                         *)
(* The time next_run_at is represented by the cron expression it was       *)
(* computed from, NoCron for NULL.                                         *)
(***************************************************************************)
EXTENDS Naturals

CONSTANTS
    Accounts,  \* the accounts that exist or may be connected
    MaxId,     \* bound: schedule ids
    Crons,     \* valid cron expressions
    BadCron,   \* one that does not parse
    Editors,   \* the threads that handle requests
    Firers,    \* the threads of the scheduler's executor
    Dialect,   \* "sqlite" or "postgresql"
    Overlap,   \* whether two edits of one account's schedule may be under way at once
    NoCron, NoRow, NoId, NoAsk

Ids == 1 .. MaxId
Threads == Editors \cup Firers
Rows == [account : Accounts, cron : Crons, enabled : BOOLEAN, next : Crons \cup {NoCron}]

ASSUME ScheduleAssumption ==
    /\ MaxId \in Nat
    /\ BadCron \notin Crons
    /\ NoCron \notin Crons \cup {BadCron}
    /\ NoRow \notin Rows
    /\ NoId \notin Ids
    /\ Dialect \in {"sqlite", "postgresql"}
    /\ Overlap \in BOOLEAN
    /\ Editors \cap Firers = {}

\* What an editing request asks for.  A wizard may leave the schedule out.
Saves == [op : {"save"}, account : Accounts, cron : Crons, on : BOOLEAN]
Deletes == [op : {"delete"}, account : Accounts]
Connects == [op : {"connect"}, account : Accounts, cron : Crons \cup {BadCron, NoCron},
             on : {TRUE}, via : {"web", "api"}]
Asks == Saves \cup Deletes \cup Connects

VARIABLES
    connected,  \* account: the accounts that exist
    rows,       \* schedule: the row of each id, as committed
    lastId,     \* the highest id handed out so far
    jobs,       \* the live job of each id: the cron expression it runs on
    at,         \* where each thread is
    asks,       \* what its request asks for
    found,      \* the id it read or wrote
    seen        \* the row as its transaction read it

vars == <<connected, rows, lastId, jobs, at, asks, found, seen>>

Init ==
    /\ connected = {}
    /\ rows = [i \in Ids |-> NoRow]
    /\ lastId = 0
    /\ jobs = [i \in Ids |-> NoCron]
    /\ at = [t \in Threads |-> "idle"]
    /\ asks = [t \in Threads |-> NoAsk]
    /\ found = [t \in Threads |-> NoId]
    /\ seen = [t \in Threads |-> NoRow]

-----------------------------------------------------------------------------
\* Mutant of SchedulesOf: only enabled schedules are found.
SchedulesOf_Enabled(a) == {i \in Ids : rows[i] # NoRow /\ rows[i].account = a /\ rows[i].enabled}

\* get_schedule: the ids of an account's schedules; the caller takes any one.
SchedulesOf(a) == {i \in Ids : rows[i] # NoRow /\ rows[i].account = a}

\* The row a save or a wizard asks for.
Asked(r) == [account |-> r.account, cron |-> r.cron, enabled |-> r.on,
             next |-> IF r.on THEN r.cron ELSE NoCron]

\* The job a row should have: that of its cron expression while it is enabled.
LiveJob(row) == IF row # NoRow /\ row.enabled THEN row.cron ELSE NoCron

\* SQLite hands out the id above the highest in the table, PostgreSQL's
\* sequence never the same id twice.
Fresh(i) ==
    /\ \A j \in Ids : rows[j] # NoRow => j < i
    /\ Dialect = "postgresql" => lastId < i

Editing == {"connect", "save", "delete", "sync", "unsync"}
Alone(a) == ~Overlap => \A u \in Editors : at[u] \in Editing => asks[u].account # a

Finish(t) ==
    /\ at' = [at EXCEPT ![t] = "idle"]
    /\ asks' = [asks EXCEPT ![t] = NoAsk]
    /\ found' = [found EXCEPT ![t] = NoId]
    /\ seen' = [seen EXCEPT ![t] = NoRow]

-----------------------------------------------------------------------------
\* The Connect wizard is submitted for an account that does not exist yet.
StartConnect(t, r) ==
    /\ at[t] = "idle"
    /\ r \in Connects
    /\ r.account \notin connected
    /\ \A u \in Editors : at[u] = "connect" => asks[u].account # r.account
    /\ Alone(r.account)
    /\ at' = [at EXCEPT ![t] = "connect"]
    /\ asks' = [asks EXCEPT ![t] = r]
    /\ UNCHANGED <<connected, rows, lastId, jobs, found, seen>>

\* The account and its schedule are committed together.
ConnectBoth(t) ==
    /\ at[t] = "connect"
    /\ asks[t].cron \in Crons
    /\ \E i \in Ids :
        /\ Fresh(i)
        /\ rows' = [rows EXCEPT ![i] = Asked(asks[t])]
        /\ lastId' = i
        /\ found' = [found EXCEPT ![t] = i]
    /\ connected' = connected \cup {asks[t].account}
    /\ at' = [at EXCEPT ![t] = "sync"]
    /\ UNCHANGED <<jobs, asks, seen>>

\* The account alone: no schedule was asked for, or its cron expression did
\* not parse and the page that says so returns through the commit.  The API
\* raises instead, which rolls back and changes nothing.
ConnectAlone(t) ==
    /\ at[t] = "connect"
    /\ asks[t].cron \notin Crons
    /\ connected' = IF asks[t].cron = BadCron /\ asks[t].via = "api"
                    THEN connected ELSE connected \cup {asks[t].account}
    /\ Finish(t)
    /\ UNCHANGED <<rows, lastId, jobs>>

-----------------------------------------------------------------------------
\* upsert_schedule reads the account's schedule.  A cron expression that does
\* not parse is refused before that.
StartSave(t, r) ==
    /\ at[t] = "idle"
    /\ r \in Saves
    /\ r.account \in connected
    /\ Alone(r.account)
    /\ \/ /\ SchedulesOf(r.account) = {}
          /\ UNCHANGED <<found, seen>>
       \/ \E i \in SchedulesOf(r.account) :
            /\ found' = [found EXCEPT ![t] = i]
            /\ seen' = [seen EXCEPT ![t] = rows[i]]
    /\ at' = [at EXCEPT ![t] = "save"]
    /\ asks' = [asks EXCEPT ![t] = r]
    /\ UNCHANGED <<connected, rows, lastId, jobs>>

InsertSchedule(t) ==
    /\ at[t] = "save"
    /\ found[t] = NoId
    /\ \E i \in Ids :
        /\ Fresh(i)
        /\ rows' = [rows EXCEPT ![i] = Asked(asks[t])]
        /\ lastId' = i
        /\ found' = [found EXCEPT ![t] = i]
    /\ at' = [at EXCEPT ![t] = "sync"]
    /\ UNCHANGED <<connected, jobs, asks, seen>>

\* The columns an UPDATE sets: those that differ from what was read, and the
\* next run if time has moved it.
Columns(t, moved) ==
    {c \in {"cron", "enabled", "next"} :
        \/ Asked(asks[t])[c] # seen[t][c]
        \/ c = "next" /\ asks[t].on /\ moved}
Written(row, columns, new) ==
    [row EXCEPT !.cron = IF "cron" \in columns THEN new.cron ELSE @,
                !.enabled = IF "enabled" \in columns THEN new.enabled ELSE @,
                !.next = IF "next" \in columns THEN new.next ELSE @]

\* The row is updated in place and committed.  An UPDATE that finds no row
\* raises StaleDataError; without a column to set there is no UPDATE.
UpdateSchedule(t, moved) ==
    /\ at[t] = "save"
    /\ found[t] # NoId
    /\ LET columns == Columns(t, moved)
           i == found[t]
       IN  \/ /\ columns = {} \/ rows[i] # NoRow
              /\ rows' = IF columns = {} THEN rows
                         ELSE [rows EXCEPT ![i] = Written(rows[i], columns, Asked(asks[t]))]
              /\ at' = [at EXCEPT ![t] = "sync"]
              /\ UNCHANGED <<asks, found, seen>>
           \/ /\ columns # {}
              /\ rows[i] = NoRow
              /\ Finish(t)
              /\ UNCHANGED rows
    /\ UNCHANGED <<connected, lastId, jobs>>

\* Mutant of SyncSchedule: a schedule that was disabled keeps its job.
SyncSchedule_EnabledOnly(t) ==
    /\ at[t] = "sync"
    /\ jobs' = IF asks[t].on THEN [jobs EXCEPT ![found[t]] = asks[t].cron] ELSE jobs
    /\ Finish(t)
    /\ UNCHANGED <<connected, rows, lastId>>

\* sync_schedule, after the commit: the job is added, replaced or removed.
SyncSchedule(t) ==
    /\ at[t] = "sync"
    /\ jobs' = [jobs EXCEPT ![found[t]] = IF asks[t].on THEN asks[t].cron ELSE NoCron]
    /\ Finish(t)
    /\ UNCHANGED <<connected, rows, lastId>>

-----------------------------------------------------------------------------
StartDelete(t, r) ==
    /\ at[t] = "idle"
    /\ r \in Deletes
    /\ Alone(r.account)
    /\ \E i \in SchedulesOf(r.account) : found' = [found EXCEPT ![t] = i]
    /\ at' = [at EXCEPT ![t] = "delete"]
    /\ asks' = [asks EXCEPT ![t] = r]
    /\ UNCHANGED <<connected, rows, lastId, jobs, seen>>

\* The row is deleted and the deletion committed; if it is gone by now, that
\* is only a warning.
DeleteSchedule(t) ==
    /\ at[t] = "delete"
    /\ rows' = [rows EXCEPT ![found[t]] = NoRow]
    /\ at' = [at EXCEPT ![t] = "unsync"]
    /\ UNCHANGED <<connected, lastId, jobs, asks, found, seen>>

RemoveScheduleJob(t) ==
    /\ at[t] = "unsync"
    /\ jobs' = [jobs EXCEPT ![found[t]] = NoCron]
    /\ Finish(t)
    /\ UNCHANGED <<connected, rows, lastId>>

-----------------------------------------------------------------------------
\* The scheduler calls fire_schedule for a job, on a thread of its own.
CronFire(t, i) ==
    /\ at[t] = "idle"
    /\ jobs[i] # NoCron
    /\ at' = [at EXCEPT ![t] = "fire"]
    /\ found' = [found EXCEPT ![t] = i]
    /\ UNCHANGED <<connected, rows, lastId, jobs, asks, seen>>

\* "Run now": the request finds the schedule and calls fire_schedule itself.
RunNow(t, i) ==
    /\ at[t] = "idle"
    /\ rows[i] # NoRow
    /\ at' = [at EXCEPT ![t] = "fire"]
    /\ found' = [found EXCEPT ![t] = i]
    /\ UNCHANGED <<connected, rows, lastId, jobs, asks, seen>>

\* Mutant of FireRead: a fire takes whatever row it reads, or none.
FireRead_Unchecked(t) ==
    /\ at[t] = "fire"
    /\ seen' = [seen EXCEPT ![t] = rows[found[t]]]
    /\ at' = [at EXCEPT ![t] = "advance"]
    /\ UNCHANGED <<connected, rows, lastId, jobs, asks, found>>

\* fire_schedule reads the row; a missing or disabled schedule is skipped.
FireRead(t) ==
    /\ at[t] = "fire"
    /\ \/ /\ LiveJob(rows[found[t]]) = NoCron
          /\ Finish(t)
       \/ /\ LiveJob(rows[found[t]]) # NoCron
          /\ seen' = [seen EXCEPT ![t] = rows[found[t]]]
          /\ at' = [at EXCEPT ![t] = "advance"]
          /\ UNCHANGED <<asks, found>>
    /\ UNCHANGED <<connected, rows, lastId, jobs>>

\* Mutant of FireCommit: the whole row is written back as it was read.
FireCommit_WholeRow(t, moved) ==
    /\ at[t] = "advance"
    /\ rows' = [rows EXCEPT ![found[t]] = [seen[t] EXCEPT !.next = seen[t].cron]]
    /\ at' = [at EXCEPT ![t] = "enqueue"]
    /\ UNCHANGED <<connected, lastId, jobs, asks, found, seen>>

\* last_run_at and next_run_at are committed; a row that has been deleted
\* since raises StaleDataError.
FireCommit(t, moved) ==
    /\ at[t] = "advance"
    /\ LET i == found[t]
       IN  \/ /\ rows[i] # NoRow
              /\ rows' = IF moved \/ seen[t].next # seen[t].cron
                         THEN [rows EXCEPT ![i] = [rows[i] EXCEPT !.next = seen[t].cron]]
                         ELSE rows
              /\ at' = [at EXCEPT ![t] = "enqueue"]
              /\ UNCHANGED <<asks, found, seen>>
           \/ /\ rows[i] = NoRow
              /\ Finish(t)
              /\ UNCHANGED rows
    /\ UNCHANGED <<connected, lastId, jobs>>

\* enqueue_scan: a run of seen[t].account (module ScanRuns).
Enqueue(t) ==
    /\ at[t] = "enqueue"
    /\ Finish(t)
    /\ UNCHANGED <<connected, rows, lastId, jobs>>

-----------------------------------------------------------------------------
\* A transaction fails: it waited too long for SQLite's write lock, or lost
\* its connection.
GiveUp(t) ==
    /\ at[t] \in {"connect", "save", "delete", "advance"}
    /\ Finish(t)
    /\ UNCHANGED <<connected, rows, lastId, jobs>>

\* The process stops, with whatever its threads were doing, and starts again:
\* start_scheduler registers a job for each enabled row.
StartScheduler ==
    /\ jobs' = [i \in Ids |-> LiveJob(rows[i])]
    /\ at' = [t \in Threads |-> "idle"]
    /\ asks' = [t \in Threads |-> NoAsk]
    /\ found' = [t \in Threads |-> NoId]
    /\ seen' = [t \in Threads |-> NoRow]
    /\ UNCHANGED <<connected, rows, lastId>>

Next ==
    \/ \E t \in Editors :
        \/ \E r \in Asks : StartConnect(t, r) \/ StartSave(t, r) \/ StartDelete(t, r)
        \/ ConnectBoth(t)
        \/ ConnectAlone(t)
        \/ InsertSchedule(t)
        \/ \E moved \in BOOLEAN : UpdateSchedule(t, moved)
        \/ SyncSchedule(t)
        \/ DeleteSchedule(t)
        \/ RemoveScheduleJob(t)
        \/ \E i \in Ids : RunNow(t, i)
    \/ \E t \in Firers, i \in Ids : CronFire(t, i)
    \/ \E t \in Threads :
        \/ FireRead(t)
        \/ \E moved \in BOOLEAN : FireCommit(t, moved)
        \/ Enqueue(t)
        \/ GiveUp(t)
    \/ StartScheduler

Spec == Init /\ [][Next]_vars

-----------------------------------------------------------------------------
\* What a thread carries at each point of its request.
ThreadTyped(t) ==
    /\ at[t] = "idle" => found[t] = NoId
    /\ at[t] \in {"connect", "save", "sync"} => t \in Editors
    /\ at[t] = "connect" => asks[t] \in Connects
    /\ at[t] = "save" => asks[t] \in Saves /\ (found[t] # NoId => seen[t] \in Rows)
    /\ at[t] = "sync" => asks[t] \in Saves \cup Connects /\ asks[t].cron \in Crons
    /\ at[t] \in {"delete", "unsync"} => asks[t] \in Deletes
    /\ at[t] \in {"sync", "delete", "unsync", "fire", "advance"} => found[t] \in Ids
    /\ at[t] = "advance" => seen[t] \in Rows

TypeOK ==
    /\ connected \subseteq Accounts
    /\ rows \in [Ids -> Rows \cup {NoRow}]
    /\ lastId \in 0 .. MaxId
    /\ jobs \in [Ids -> Crons \cup {NoCron}]
    /\ at \in [Threads -> Editing \cup {"idle", "fire", "advance", "enqueue"}]
    /\ asks \in [Threads -> Asks \cup {NoAsk}]
    /\ found \in [Threads -> Ids \cup {NoId}]
    /\ seen \in [Threads -> Rows \cup {NoRow}]
    /\ \A t \in Threads : ThreadTyped(t)

(***************************************************************************)
(* Every schedule whose row nobody has just committed has exactly the live *)
(* job its row asks for, across fires, failures and restarts.              *)
(* (scheduler.py: "so the live scheduler always mirrors the DB")           *)
(***************************************************************************)
Pending(i) == \E t \in Editors : at[t] \in {"sync", "unsync"} /\ found[t] = i
JobsMirrorRows == \A i \in Ids : ~Pending(i) => jobs[i] = LiveJob(rows[i])

(***************************************************************************)
(* An account has at most one schedule, though nothing in the table says   *)
(* so.  (schedule_service.py: "nothing in this app ever creates a second   *)
(* one")                                                                   *)
(***************************************************************************)
OneSchedulePerAccount ==
    \A i, j \in Ids :
        rows[i] # NoRow /\ rows[j] # NoRow /\ rows[i].account = rows[j].account => i = j

(***************************************************************************)
(* A fire that is overtaken by an edit never undoes it: it brings no       *)
(* deleted schedule back and restores no cron expression and no switch     *)
(* that it read before.  (fire_schedule: "a real race with 'delete this    *)
(* schedule'")                                                             *)
(***************************************************************************)
SameSchedule(row, new) ==
    /\ (new = NoRow) = (row = NoRow)
    /\ row # NoRow => /\ new.account = row.account
                      /\ new.cron = row.cron
                      /\ new.enabled = row.enabled
FireKeepsSchedules ==
    \A t \in Threads : at[t] \in {"fire", "advance", "enqueue"} /\ at'[t] # at[t] =>
        \A i \in Ids : SameSchedule(rows[i], rows'[i])
FiresKeepSchedules == [][FireKeepsSchedules]_vars
=============================================================================
