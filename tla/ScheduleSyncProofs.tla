------------------------- MODULE ScheduleSyncProofs -------------------------
(***************************************************************************)
(* The live jobs mirror the schedule rows, and no account has two          *)
(* schedules, for any accounts, threads and cron expressions, as long as   *)
(* the database never reuses an id and no two edits of one account's       *)
(* schedule are under way at once.                                         *)
(***************************************************************************)
EXTENDS ScheduleSync, TLAPS

\* The variables of threads, with their types.
Local ==
    /\ at \in [Threads -> Editing \cup {"idle", "fire", "advance", "enqueue"}]
    /\ asks \in [Threads -> Asks \cup {NoAsk}]
    /\ found \in [Threads -> Ids \cup {NoId}]
    /\ seen \in [Threads -> Rows \cup {NoRow}]

\* What a step of thread t leaves of the others.
Others(t) ==
    \A s \in Threads : s # t => /\ at'[s] = at[s]
                                /\ asks'[s] = asks[s]
                                /\ found'[s] = found[s]
                                /\ seen'[s] = seen[s]

\* A thread's facts survive the steps of others.
LEMMA OthersTyped ==
    ASSUME NEW t \in Threads, TypeOK, Others(t), Local', ThreadTyped(t)'
    PROVE  \A s \in Threads : ThreadTyped(s)'
BY DEF TypeOK, Others, ThreadTyped

\* Finish leaves the other threads alone and gives up all that t had.
LEMMA FinishLocal ==
    ASSUME NEW t \in Threads, TypeOK, Finish(t)
    PROVE  /\ Local' /\ Others(t) /\ ThreadTyped(t)'
           /\ at'[t] = "idle"
BY DEF TypeOK, Finish, Local, Others, ThreadTyped

\* The row a save or a wizard with a valid cron expression asks for is a row.
LEMMA AskedIsRow ==
    ASSUME NEW r \in Saves \cup Connects, r.cron \in Crons
    PROVE  /\ Asked(r) \in Rows
           /\ Asked(r).account = r.account
           /\ Asked(r).cron = r.cron
           /\ Asked(r).enabled = r.on
BY DEF Asked, Rows, Saves, Connects

\* An UPDATE of some columns of a row gives a row of the same account.
LEMMA WrittenIsRow ==
    ASSUME NEW row \in Rows, NEW new \in Rows, NEW columns
    PROVE  /\ Written(row, columns, new) \in Rows
           /\ Written(row, columns, new).account = row.account
           /\ Written(row, columns, new).cron = IF "cron" \in columns THEN new.cron ELSE row.cron
           /\ Written(row, columns, new).enabled =
                  IF "enabled" \in columns THEN new.enabled ELSE row.enabled
BY DEF Written, Rows

\* A next run that is advanced leaves a row of the same schedule.
LEMMA AdvancedIsRow ==
    ASSUME NEW row \in Rows, NEW c \in Crons
    PROVE  /\ [row EXCEPT !.next = c] \in Rows
           /\ [row EXCEPT !.next = c].account = row.account
           /\ [row EXCEPT !.next = c].cron = row.cron
           /\ [row EXCEPT !.next = c].enabled = row.enabled
BY DEF Rows

\* A live job is a cron expression.
LEMMA LiveJobTyped ==
    ASSUME NEW row \in Rows \cup {NoRow}
    PROVE  LiveJob(row) \in Crons \cup {NoCron}
BY DEF LiveJob, Rows

\* Init has the types.
LEMMA TypedInit == Init => TypeOK
BY ScheduleAssumption DEF Init, TypeOK, ThreadTyped, Editing, Ids

\* What thread t asks for is what its place says.
LEMMA AskTyped ==
    ASSUME NEW t \in Threads, TypeOK
    PROVE  /\ at[t] = "connect" => asks[t] \in Connects
           /\ at[t] = "save" => asks[t] \in Saves /\ asks[t].cron \in Crons
           /\ at[t] \in {"connect", "save", "sync", "delete", "unsync"} =>
                  asks[t].account \in Accounts
BY DEF TypeOK, ThreadTyped, Saves, Connects, Deletes

\* Every handler keeps the types.
LEMMA TypedStep == TypeOK /\ [Next]_vars => TypeOK'
<1> SUFFICES ASSUME TypeOK, [Next]_vars PROVE TypeOK'
    OBVIOUS
<1> USE ScheduleAssumption
<1> DEFINE Good(C, R, L, J) ==
        /\ C \subseteq Accounts
        /\ R \in [Ids -> Rows \cup {NoRow}]
        /\ L \in 0 .. MaxId
        /\ J \in [Ids -> Crons \cup {NoCron}]
<1>0. Good(connected, rows, lastId, jobs)
    BY DEF TypeOK
<1>1. ASSUME NEW t \in Threads, Local', Others(t), ThreadTyped(t)',
             Good(connected', rows', lastId', jobs')
      PROVE  TypeOK'
    BY <1>1, OthersTyped DEF TypeOK, Local
<1>2. ASSUME NEW t \in Threads, Finish(t), Good(connected', rows', lastId', jobs')
      PROVE  TypeOK'
    BY <1>1, <1>2, FinishLocal
<1>3. ASSUME NEW t \in Editors, NEW r \in Asks,
             StartConnect(t, r) \/ StartSave(t, r) \/ StartDelete(t, r)
      PROVE  TypeOK'
    <2> t \in Threads
        BY DEF Threads
    <2>1. CASE StartConnect(t, r)
        <3>1. Local' /\ Others(t) /\ ThreadTyped(t)'
            BY <2>1 DEF StartConnect, TypeOK, Local, Others, ThreadTyped, Editing
        <3> QED
            BY <1>0, <1>1, <2>1, <3>1 DEF StartConnect
    <2>2. CASE StartSave(t, r)
        <3>1. Local' /\ Others(t)
            BY <2>2 DEF StartSave, TypeOK, Local, Others, Editing, SchedulesOf
        <3>2. found'[t] # NoId => seen'[t] \in Rows
            BY <2>2 DEF StartSave, TypeOK, SchedulesOf, ThreadTyped
        <3>3. ThreadTyped(t)'
            BY <2>2, <3>2 DEF StartSave, TypeOK, ThreadTyped
        <3> QED
            BY <1>0, <1>1, <2>2, <3>1, <3>3 DEF StartSave
    <2>3. CASE StartDelete(t, r)
        <3>1. Local' /\ Others(t)
            BY <2>3 DEF StartDelete, TypeOK, Local, Others, Editing, SchedulesOf
        <3>2. found'[t] \in Ids
            BY <2>3 DEF StartDelete, TypeOK, SchedulesOf
        <3>3. ThreadTyped(t)'
            BY <2>3, <3>2 DEF StartDelete, TypeOK, ThreadTyped
        <3> QED
            BY <1>0, <1>1, <2>3, <3>1, <3>3 DEF StartDelete
    <2> QED
        BY <1>3, <2>1, <2>2, <2>3
<1>4. ASSUME NEW t \in Editors, ConnectBoth(t) \/ InsertSchedule(t)
      PROVE  TypeOK'
    <2> t \in Threads
        BY DEF Threads
    <2>1. asks[t] \in Saves \cup Connects /\ asks[t].cron \in Crons
        BY <1>4, AskTyped DEF ConnectBoth, InsertSchedule
    <2>2. Asked(asks[t]) \in Rows /\ asks[t].account \in Accounts
        BY <2>1, AskedIsRow DEF Saves, Connects
    <2>3. Good(connected', rows', lastId', jobs')
        <3>1. PICK i \in Ids : rows' = [rows EXCEPT ![i] = Asked(asks[t])] /\ lastId' = i
            BY <1>4 DEF ConnectBoth, InsertSchedule
        <3>2. rows' \in [Ids -> Rows \cup {NoRow}]
            BY <2>2, <3>1 DEF TypeOK
        <3>3. lastId' \in 0 .. MaxId
            BY <3>1 DEF Ids
        <3> QED
            BY <1>0, <1>4, <2>2, <3>2, <3>3 DEF ConnectBoth, InsertSchedule
    <2>4. Local' /\ Others(t) /\ found'[t] \in Ids
        BY <1>4 DEF ConnectBoth, InsertSchedule, TypeOK, Local, Others, Editing
    <2>5. ThreadTyped(t)'
        BY <1>4, <2>1, <2>4 DEF ConnectBoth, InsertSchedule, TypeOK, ThreadTyped
    <2> QED
        BY <1>1, <2>3, <2>4, <2>5
<1>5. ASSUME NEW t \in Editors, ConnectAlone(t)
      PROVE  TypeOK'
    <2> t \in Threads
        BY DEF Threads
    <2>1. asks[t].account \in Accounts
        BY <1>5, AskTyped DEF ConnectAlone
    <2> QED
        BY <1>0, <1>2, <1>5, <2>1 DEF ConnectAlone
<1>6. ASSUME NEW t \in Editors, NEW moved \in BOOLEAN, UpdateSchedule(t, moved)
      PROVE  TypeOK'
    <2> t \in Threads
        BY DEF Threads
    <2>1. asks[t] \in Saves /\ asks[t].cron \in Crons /\ found[t] \in Ids
        BY <1>6, AskTyped DEF UpdateSchedule, TypeOK
    <2>2. Asked(asks[t]) \in Rows
        BY <2>1, AskedIsRow
    <2>3. rows' \in [Ids -> Rows \cup {NoRow}]
        <3> DEFINE new == Written(rows[found[t]], Columns(t, moved), Asked(asks[t]))
        <3>1. \/ rows' = rows
              \/ (rows[found[t]] # NoRow /\ rows' = [rows EXCEPT ![found[t]] = new])
            <4>1. CASE Columns(t, moved) = {}
                BY <1>6, <4>1 DEF UpdateSchedule
            <4>2. CASE Columns(t, moved) # {}
                BY <1>6, <4>2 DEF UpdateSchedule
            <4> QED
                BY <4>1, <4>2
        <3>2. CASE rows[found[t]] # NoRow
            <4>1. rows[found[t]] \in Rows
                BY <2>1, <3>2 DEF TypeOK
            <4>2. new \in Rows
                BY <2>2, <4>1, WrittenIsRow
            <4>3. rows' = rows \/ rows' = [rows EXCEPT ![found[t]] = new]
                BY <3>1
            <4> HIDE DEF new
            <4> QED
                BY <2>1, <4>2, <4>3 DEF TypeOK
        <3>3. CASE rows[found[t]] = NoRow
            BY <3>1, <3>3 DEF TypeOK
        <3> QED
            BY <3>2, <3>3
    <2>4. Good(connected', rows', lastId', jobs')
        BY <1>0, <1>6, <2>3 DEF UpdateSchedule
    <2>5. Finish(t) \/ (at' = [at EXCEPT ![t] = "sync"] /\ UNCHANGED <<asks, found, seen>>)
        BY <1>6 DEF UpdateSchedule
    <2>6. CASE Finish(t)
        BY <1>2, <2>4, <2>6
    <2>7. CASE at' = [at EXCEPT ![t] = "sync"] /\ UNCHANGED <<asks, found, seen>>
        <3>1. Local' /\ Others(t)
            BY <2>7 DEF TypeOK, Local, Others, Editing
        <3>2. ThreadTyped(t)'
            BY <2>1, <2>7 DEF TypeOK, ThreadTyped
        <3> QED
            BY <1>1, <2>4, <3>1, <3>2
    <2> QED
        BY <2>5, <2>6, <2>7
<1>7. ASSUME NEW t \in Editors, SyncSchedule(t) \/ RemoveScheduleJob(t)
      PROVE  TypeOK'
    <2> t \in Threads
        BY DEF Threads
    <2>1. Finish(t)
        BY <1>7 DEF SyncSchedule, RemoveScheduleJob
    <2>2. at[t] = "sync" => asks[t].cron \in Crons
        BY DEF TypeOK, ThreadTyped
    <2>3. jobs' \in [Ids -> Crons \cup {NoCron}]
        BY <1>0, <1>7, <2>2 DEF SyncSchedule, RemoveScheduleJob
    <2> QED
        BY <1>0, <1>2, <1>7, <2>1, <2>3 DEF SyncSchedule, RemoveScheduleJob
<1>8. ASSUME NEW t \in Editors, DeleteSchedule(t)
      PROVE  TypeOK'
    <2> t \in Threads
        BY DEF Threads
    <2>1. Good(connected', rows', lastId', jobs')
        BY <1>0, <1>8 DEF DeleteSchedule
    <2>2. Local' /\ Others(t)
        BY <1>8 DEF DeleteSchedule, TypeOK, Local, Others, Editing
    <2>3. ThreadTyped(t)'
        BY <1>8 DEF DeleteSchedule, TypeOK, ThreadTyped
    <2> QED
        BY <1>1, <2>1, <2>2, <2>3
<1>9. ASSUME NEW t \in Threads, NEW i \in Ids, RunNow(t, i) \/ CronFire(t, i)
      PROVE  TypeOK'
    <2>1. Local' /\ Others(t)
        BY <1>9 DEF RunNow, CronFire, TypeOK, Local, Others, Editing
    <2>2. ThreadTyped(t)'
        BY <1>9 DEF RunNow, CronFire, TypeOK, ThreadTyped
    <2> QED
        BY <1>0, <1>1, <1>9, <2>1, <2>2 DEF RunNow, CronFire
<1>10. ASSUME NEW t \in Threads, FireRead(t)
       PROVE  TypeOK'
    <2>1. Good(connected', rows', lastId', jobs')
        BY <1>0, <1>10 DEF FireRead
    <2>2. CASE Finish(t)
        BY <1>2, <2>1, <2>2
    <2>3. CASE ~Finish(t)
        <3>1. found[t] \in Ids /\ rows[found[t]] # NoRow
            BY <1>10, <2>3 DEF FireRead, LiveJob, TypeOK, ThreadTyped
        <3>2. Local' /\ Others(t)
            BY <1>10, <2>3, <3>1 DEF FireRead, TypeOK, Local, Others, Editing
        <3>3. ThreadTyped(t)'
            BY <1>10, <2>3, <3>1 DEF FireRead, TypeOK, ThreadTyped
        <3> QED
            BY <1>1, <2>1, <3>2, <3>3
    <2> QED
        BY <2>2, <2>3
<1>11. ASSUME NEW t \in Threads, NEW moved \in BOOLEAN, FireCommit(t, moved)
       PROVE  TypeOK'
    <2>1. found[t] \in Ids /\ seen[t] \in Rows /\ seen[t].cron \in Crons
        BY <1>11 DEF FireCommit, TypeOK, ThreadTyped, Rows
    <2>2. rows' \in [Ids -> Rows \cup {NoRow}]
        <3> DEFINE new == [rows[found[t]] EXCEPT !.next = seen[t].cron]
        <3>1. \/ rows' = rows
              \/ (rows[found[t]] # NoRow /\ rows' = [rows EXCEPT ![found[t]] = new])
            <4>1. CASE moved \/ seen[t].next # seen[t].cron
                BY <1>11, <4>1 DEF FireCommit
            <4>2. CASE ~(moved \/ seen[t].next # seen[t].cron)
                BY <1>11, <4>2 DEF FireCommit
            <4> QED
                BY <4>1, <4>2
        <3>2. rows[found[t]] # NoRow => new \in Rows
            BY <2>1, AdvancedIsRow DEF TypeOK
        <3> HIDE DEF new
        <3> QED
            BY <2>1, <3>1, <3>2 DEF TypeOK
    <2>3. Good(connected', rows', lastId', jobs')
        BY <1>0, <1>11, <2>2 DEF FireCommit
    <2>4. Finish(t) \/ (at' = [at EXCEPT ![t] = "enqueue"] /\ UNCHANGED <<asks, found, seen>>)
        BY <1>11 DEF FireCommit
    <2>5. CASE Finish(t)
        BY <1>2, <2>3, <2>5
    <2>6. CASE at' = [at EXCEPT ![t] = "enqueue"] /\ UNCHANGED <<asks, found, seen>>
        <3>1. Local' /\ Others(t)
            BY <2>6 DEF TypeOK, Local, Others, Editing
        <3>2. ThreadTyped(t)'
            BY <2>6 DEF TypeOK, ThreadTyped
        <3> QED
            BY <1>1, <2>3, <3>1, <3>2
    <2> QED
        BY <2>4, <2>5, <2>6
<1>12. ASSUME NEW t \in Threads, Enqueue(t) \/ GiveUp(t)
       PROVE  TypeOK'
    BY <1>0, <1>2, <1>12 DEF Enqueue, GiveUp
<1>13. ASSUME StartScheduler
       PROVE  TypeOK'
    <2>1. jobs' \in [Ids -> Crons \cup {NoCron}]
        BY <1>13, LiveJobTyped DEF StartScheduler, TypeOK
    <2>2. Local' /\ \A s \in Threads : ThreadTyped(s)'
        BY <1>13 DEF StartScheduler, Local, ThreadTyped, Editing
    <2> QED
        BY <1>13, <2>1, <2>2 DEF StartScheduler, TypeOK, Local
<1>14. ASSUME UNCHANGED vars
       PROVE  TypeOK'
    BY <1>14 DEF vars, TypeOK, ThreadTyped
<1> QED
    BY <1>3, <1>4, <1>5, <1>6, <1>7, <1>8, <1>9, <1>10, <1>11, <1>12, <1>13, <1>14
    DEF Next, Threads

(***************************************************************************)
(* Every reachable state is type correct, whatever the database and        *)
(* however requests overlap.                                               *)
(***************************************************************************)
THEOREM ScheduleTyped == Spec => []TypeOK
<1>1. Init => TypeOK
    BY TypedInit
<1>2. TypeOK /\ [Next]_vars => TypeOK'
    BY TypedStep
<1> QED
    BY <1>1, <1>2, PTL DEF Spec

-----------------------------------------------------------------------------
\* The condition of the next theorems.
EditsApart == ~Overlap /\ Dialect = "postgresql"

\* What an editing thread knows of the row it found or wrote.
ThreadKnows(t) ==
    /\ at[t] = "connect" => asks[t].account \notin connected
    /\ at[t] = "save" => asks[t].account \in connected
    /\ at[t] = "save" /\ found[t] = NoId =>
           \A i \in Ids : rows[i] # NoRow => rows[i].account # asks[t].account
    /\ at[t] = "save" /\ found[t] # NoId => SameSchedule(seen[t], rows[found[t]])
    /\ at[t] \in {"sync", "delete"} \/ (at[t] = "save" /\ found[t] # NoId) =>
           rows[found[t]] # NoRow /\ rows[found[t]].account = asks[t].account
    /\ at[t] = "sync" => /\ rows[found[t]].cron = asks[t].cron
                         /\ rows[found[t]].enabled = asks[t].on
    /\ at[t] = "unsync" => rows[found[t]] = NoRow /\ found[t] <= lastId

Apart ==
    \A t, u \in Editors :
        t # u /\ at[t] \in Editing /\ at[u] \in Editing => asks[t].account # asks[u].account

RowsKnown == \A i \in Ids : rows[i] # NoRow => rows[i].account \in connected /\ i <= lastId

SyncInv ==
    /\ \A t \in Editors : ThreadKnows(t)
    /\ Apart
    /\ RowsKnown
    /\ JobsMirrorRows
    /\ OneSchedulePerAccount

\* Rows of the same schedule have the same job.
LEMMA SameJob ==
    ASSUME NEW row, NEW new, SameSchedule(row, new)
    PROVE  LiveJob(new) = LiveJob(row)
BY DEF SameSchedule, LiveJob

\* What an editing thread s knows survives a step of another thread that
\* changes rows of s's account only in ways s does not look at.
LEMMA KnowsStays ==
    ASSUME TypeOK, SyncInv, NEW s \in Editors,
           at'[s] = at[s], asks'[s] = asks[s], found'[s] = found[s], seen'[s] = seen[s],
           connected \subseteq connected',
           at[s] = "connect" => asks[s].account \notin connected',
           lastId' \in Nat, lastId <= lastId',
           \A i \in Ids :
              \/ SameSchedule(rows[i], rows'[i])
              \/ /\ rows[i] = NoRow /\ lastId < i
                 /\ rows'[i] # NoRow
                 /\ at[s] \in Editing => rows'[i].account # asks[s].account
              \/ /\ rows[i] # NoRow
                 /\ at[s] \in Editing => rows[i].account # asks[s].account
                 /\ rows'[i] = NoRow \/ rows'[i].account = rows[i].account
    PROVE  ThreadKnows(s)'
<1>0. s \in Threads /\ ThreadKnows(s)
    BY DEF SyncInv, Threads
<1>1. lastId \in Nat /\ Ids \subseteq Nat
    BY ScheduleAssumption DEF TypeOK, Ids
<1>2. at[s] \in {"sync", "delete", "unsync"} => found[s] \in Ids
    BY <1>0 DEF TypeOK, ThreadTyped
<1>3. at[s] = "save" /\ found[s] # NoId => found[s] \in Ids
    BY <1>0 DEF TypeOK
<1>4. ASSUME at[s] \in {"sync", "delete"} \/ (at[s] = "save" /\ found[s] # NoId)
      PROVE  SameSchedule(rows[found[s]], rows'[found[s]])
    BY <1>0, <1>2, <1>3, <1>4 DEF ThreadKnows, Editing
<1>5. ASSUME at[s] = "unsync"
      PROVE  rows'[found[s]] = NoRow /\ found[s] <= lastId'
    <2>1. found[s] \in Ids /\ found[s] \in Nat /\ rows[found[s]] = NoRow /\ found[s] <= lastId
        BY <1>0, <1>1, <1>2, <1>5 DEF ThreadKnows
    <2>2. ~(lastId < found[s]) /\ found[s] <= lastId'
        BY <1>1, <2>1
    <2> QED
        BY <2>1, <2>2 DEF SameSchedule
<1>6. ASSUME at[s] = "save", found[s] = NoId, NEW i \in Ids, rows'[i] # NoRow
      PROVE  rows'[i].account # asks[s].account
    BY <1>0, <1>6 DEF ThreadKnows, SameSchedule, Editing
<1>7. ASSUME at[s] = "save", found[s] # NoId
      PROVE  SameSchedule(seen[s], rows'[found[s]])
    BY <1>0, <1>4, <1>7 DEF ThreadKnows, SameSchedule
<1>8. ASSUME at[s] \in {"sync", "delete"} \/ (at[s] = "save" /\ found[s] # NoId)
      PROVE  rows'[found[s]] # NoRow /\ rows'[found[s]].account = asks[s].account
    BY <1>0, <1>4, <1>8 DEF ThreadKnows, SameSchedule
<1>9. ASSUME at[s] = "sync"
      PROVE  rows'[found[s]].cron = asks[s].cron /\ rows'[found[s]].enabled = asks[s].on
    BY <1>0, <1>4, <1>9 DEF ThreadKnows, SameSchedule
<1> QED
    BY <1>0, <1>5, <1>6, <1>7, <1>8, <1>9 DEF ThreadKnows

\* Everything starts empty.
LEMMA SyncInit == Init => SyncInv
BY DEF Init, SyncInv, ThreadKnows, Apart, RowsKnown, JobsMirrorRows, OneSchedulePerAccount,
       LiveJob, Threads, Editing

\* A step of t that changes neither rows nor jobs, and neither begins nor ends
\* an edit between its commit and its call of the scheduler.
LEMMA QuietStep ==
    ASSUME TypeOK, TypeOK', SyncInv, NEW t \in Threads, Others(t),
           UNCHANGED <<rows, lastId, jobs>>, connected \subseteq connected',
           at[t] \notin {"sync", "unsync"}, at'[t] \notin {"sync", "unsync"},
           \A s \in Editors : s # t /\ at[s] = "connect" => asks[s].account \notin connected',
           t \in Editors => ThreadKnows(t)',
           t \in Editors /\ at'[t] \in Editing =>
               \A s \in Editors : s # t /\ at[s] \in Editing => asks[s].account # asks'[t].account
    PROVE  SyncInv'
<1>1. \A s \in Editors : ThreadKnows(s)'
    <2> SUFFICES ASSUME NEW s \in Editors, s # t PROVE ThreadKnows(s)'
        OBVIOUS
    <2>1. lastId' \in Nat /\ lastId <= lastId'
        BY ScheduleAssumption DEF TypeOK
    <2>2. \A i \in Ids : SameSchedule(rows[i], rows'[i])
        BY DEF SameSchedule
    <2>3. at'[s] = at[s] /\ asks'[s] = asks[s] /\ found'[s] = found[s] /\ seen'[s] = seen[s]
        BY DEF Others, Threads
    <2> QED
        BY <2>1, <2>2, <2>3, KnowsStays
<1>2. Apart'
    <2> SUFFICES ASSUME NEW r \in Editors, NEW s \in Editors, r # s,
                        at'[r] \in Editing, at'[s] \in Editing
                 PROVE  asks'[r].account # asks'[s].account
        BY DEF Apart, Editing
    <2>1. \A u \in Editors : u # t => at'[u] = at[u] /\ asks'[u] = asks[u]
        BY DEF Others, Threads
    <2> QED
        BY <2>1 DEF SyncInv, Apart
<1>3. RowsKnown' /\ OneSchedulePerAccount'
    BY DEF SyncInv, RowsKnown, OneSchedulePerAccount
<1>4. JobsMirrorRows'
    <2>1. \A i \in Ids : Pending(i) => Pending(i)'
        BY DEF Pending, Others, Threads
    <2> QED
        BY <2>1 DEF SyncInv, JobsMirrorRows
<1> QED
    BY <1>1, <1>2, <1>3, <1>4 DEF SyncInv

\* No two edits of one account begin while another is under way.
LEMMA AloneApart ==
    ASSUME EditsApart, NEW a, Alone(a), NEW s \in Editors, at[s] \in Editing
    PROVE  asks[s].account # a
BY DEF EditsApart, Alone

\* The requests that begin, the fires, and the transactions that fail.
LEMMA QuietActions ==
    ASSUME EditsApart, TypeOK, TypeOK', SyncInv, NEW t \in Threads,
           \/ t \in Editors /\ \E r \in Asks : \/ StartConnect(t, r)
                                               \/ StartSave(t, r)
                                               \/ StartDelete(t, r)
           \/ t \in Editors /\ ConnectAlone(t)
           \/ \E i \in Ids : RunNow(t, i) \/ CronFire(t, i)
           \/ FireRead(t)
           \/ Enqueue(t)
           \/ GiveUp(t)
    PROVE  SyncInv'
<1> DEFINE Quiet == /\ Others(t)
                    /\ UNCHANGED <<rows, lastId, jobs>>
                    /\ connected \subseteq connected'
                    /\ at[t] \notin {"sync", "unsync"}
                    /\ at'[t] \notin {"sync", "unsync"}
<1> DEFINE Before == \A s \in Editors :
                        s # t /\ at[s] = "connect" => asks[s].account \notin connected'
<1>0. connected' = connected => Before
    BY DEF SyncInv, ThreadKnows
<1>1. ASSUME Finish(t), at[t] \notin {"sync", "unsync"}, UNCHANGED <<rows, lastId, jobs>>,
             connected \subseteq connected', Before
      PROVE  SyncInv'
    <2>1. Others(t) /\ at'[t] = "idle"
        BY <1>1, FinishLocal
    <2>2. ThreadKnows(t)'
        BY <2>1 DEF ThreadKnows
    <2> QED
        BY <1>1, <2>1, <2>2, QuietStep DEF Editing
<1>2. ASSUME NEW r \in Asks, t \in Editors, StartConnect(t, r) PROVE SyncInv'
    <2>1. Quiet /\ at'[t] = "connect" /\ asks'[t] = r /\ connected' = connected
        BY <1>2 DEF StartConnect, TypeOK, Others
    <2>2. ThreadKnows(t)'
        BY <1>2, <2>1 DEF StartConnect, ThreadKnows
    <2>3. \A s \in Editors : s # t /\ at[s] \in Editing => asks[s].account # asks'[t].account
        BY <1>2, <2>1, AloneApart DEF StartConnect
    <2> QED
        BY <1>0, <2>1, <2>2, <2>3, QuietStep
<1>3. ASSUME NEW r \in Asks, t \in Editors, StartSave(t, r) PROVE SyncInv'
    <2>1. Quiet /\ at'[t] = "save" /\ asks'[t] = r /\ connected' = connected
        BY <1>3 DEF StartSave, TypeOK, Others, SchedulesOf
    <2>2. ThreadKnows(t)'
        <3>1. CASE SchedulesOf(r.account) = {} /\ UNCHANGED <<found, seen>>
            <4>1. found'[t] = NoId
                BY <1>3, <3>1 DEF StartSave, TypeOK, ThreadTyped
            <4>2. \A i \in Ids : rows[i] # NoRow => rows[i].account # r.account
                BY <3>1 DEF SchedulesOf
            <4> QED
                BY <1>3, <2>1, <4>1, <4>2 DEF StartSave, ThreadKnows
        <3>2. CASE ~(SchedulesOf(r.account) = {} /\ UNCHANGED <<found, seen>>)
            <4>1. PICK i \in SchedulesOf(r.account) :
                        /\ found' = [found EXCEPT ![t] = i]
                        /\ seen' = [seen EXCEPT ![t] = rows[i]]
                BY <1>3, <3>2 DEF StartSave
            <4>2. found'[t] = i /\ seen'[t] = rows[i] /\ i # NoId
                BY <4>1, ScheduleAssumption DEF TypeOK, SchedulesOf
            <4>3. rows[i] # NoRow /\ rows[i].account = r.account /\ SameSchedule(rows[i], rows[i])
                BY DEF SchedulesOf, SameSchedule
            <4> QED
                BY <1>3, <2>1, <4>2, <4>3 DEF StartSave, ThreadKnows
        <3> QED
            BY <3>1, <3>2
    <2>3. \A s \in Editors : s # t /\ at[s] \in Editing => asks[s].account # asks'[t].account
        BY <1>3, <2>1, AloneApart DEF StartSave
    <2> QED
        BY <1>0, <2>1, <2>2, <2>3, QuietStep
<1>4. ASSUME NEW r \in Asks, t \in Editors, StartDelete(t, r) PROVE SyncInv'
    <2>1. Quiet /\ at'[t] = "delete" /\ asks'[t] = r /\ connected' = connected
        BY <1>4 DEF StartDelete, TypeOK, Others, SchedulesOf
    <2>2. ThreadKnows(t)'
        <3>1. PICK i \in SchedulesOf(r.account) : found' = [found EXCEPT ![t] = i]
            BY <1>4 DEF StartDelete
        <3>2. found'[t] = i /\ rows[i] # NoRow /\ rows[i].account = r.account
            BY <3>1 DEF TypeOK, SchedulesOf
        <3> QED
            BY <1>4, <2>1, <3>2 DEF StartDelete, ThreadKnows
    <2>3. \A s \in Editors : s # t /\ at[s] \in Editing => asks[s].account # asks'[t].account
        BY <1>4, <2>1, AloneApart DEF StartDelete
    <2> QED
        BY <1>0, <2>1, <2>2, <2>3, QuietStep
<1>5. ASSUME t \in Editors, ConnectAlone(t) PROVE SyncInv'
    <2>1. Before
        BY <1>0, <1>5 DEF ConnectAlone, SyncInv, ThreadKnows, Apart, Editing
    <2> QED
        BY <1>1, <1>5, <2>1 DEF ConnectAlone
<1>6. ASSUME NEW i \in Ids, RunNow(t, i) \/ CronFire(t, i) PROVE SyncInv'
    <2>1. Quiet /\ at'[t] = "fire" /\ connected' = connected
        BY <1>6 DEF RunNow, CronFire, TypeOK, Others
    <2> QED
        BY <1>0, <2>1, QuietStep DEF ThreadKnows, Editing
<1>7. ASSUME FireRead(t) PROVE SyncInv'
    <2>1. CASE Finish(t)
        BY <1>0, <1>1, <1>7, <2>1 DEF FireRead
    <2>2. CASE ~Finish(t)
        <3>1. Quiet /\ at'[t] = "advance" /\ connected' = connected
            BY <1>7, <2>2 DEF FireRead, TypeOK, Others
        <3> QED
            BY <1>0, <3>1, QuietStep DEF ThreadKnows, Editing
    <2> QED
        BY <2>1, <2>2
<1>8. ASSUME Enqueue(t) \/ GiveUp(t) PROVE SyncInv'
    BY <1>0, <1>1, <1>8 DEF Enqueue, GiveUp
<1> QED
    BY <1>2, <1>3, <1>4, <1>5, <1>6, <1>7, <1>8

\* A schedule is inserted, at an id that was never used.
LEMMA InsertStep ==
    ASSUME EditsApart, TypeOK, TypeOK', SyncInv, NEW t \in Editors,
           ConnectBoth(t) \/ InsertSchedule(t)
    PROVE  SyncInv'
<1> DEFINE a == asks[t].account
<1> t \in Threads
    BY DEF Threads
<1>1. at[t] \in {"connect", "save"} /\ at[t] \in Editing /\ asks[t].cron \in Crons
    BY AskTyped DEF ConnectBoth, InsertSchedule, Editing
<1>2. /\ Asked(asks[t]) \in Rows /\ Asked(asks[t]) # NoRow
      /\ Asked(asks[t]).account = a
      /\ Asked(asks[t]).cron = asks[t].cron
      /\ Asked(asks[t]).enabled = asks[t].on
    BY <1>1, AskTyped, AskedIsRow, ScheduleAssumption
<1>3. PICK i \in Ids : /\ Fresh(i)
                       /\ rows' = [rows EXCEPT ![i] = Asked(asks[t])]
                       /\ lastId' = i
                       /\ found' = [found EXCEPT ![t] = i]
    BY DEF ConnectBoth, InsertSchedule
<1>4. /\ at' = [at EXCEPT ![t] = "sync"]
      /\ UNCHANGED <<jobs, asks, seen>>
      /\ connected' = connected \cup {a}
    BY DEF ConnectBoth, InsertSchedule, SyncInv, ThreadKnows
<1>5. lastId < i /\ lastId \in Nat /\ i \in Nat /\ rows[i] = NoRow
    <2>1. lastId < i /\ lastId \in Nat /\ i \in Nat
        BY <1>3, ScheduleAssumption DEF Fresh, EditsApart, TypeOK, Ids
    <2>2. rows[i] # NoRow => i <= lastId
        BY <1>3 DEF SyncInv, RowsKnown
    <2> QED
        BY <2>1, <2>2
<1>6. \A j \in Ids : rows'[j] = IF j = i THEN Asked(asks[t]) ELSE rows[j]
    BY <1>3 DEF TypeOK
<1>7. at'[t] = "sync" /\ found'[t] = i
    BY <1>3, <1>4 DEF TypeOK
<1>8. ASSUME NEW s \in Editors, s # t
      PROVE  at'[s] = at[s] /\ asks'[s] = asks[s] /\ found'[s] = found[s] /\ seen'[s] = seen[s]
    BY <1>3, <1>4, <1>8 DEF TypeOK, Threads
<1>9. \A s \in Editors : s # t /\ at[s] \in Editing => asks[s].account # a
    BY <1>1 DEF SyncInv, Apart
<1>10. \A j \in Ids : rows[j] # NoRow => rows[j].account # a
    <2>1. CASE ConnectBoth(t)
        BY <2>1 DEF ConnectBoth, SyncInv, ThreadKnows, RowsKnown
    <2>2. CASE InsertSchedule(t)
        BY <2>2 DEF InsertSchedule, SyncInv, ThreadKnows
    <2> QED
        BY <2>1, <2>2
<1>11. \A s \in Editors : ThreadKnows(s)'
    <2>1. ThreadKnows(t)'
        BY <1>2, <1>3, <1>4, <1>6, <1>7 DEF ThreadKnows
    <2>2. ASSUME NEW s \in Editors, s # t PROVE ThreadKnows(s)'
        <3>1. at[s] = "connect" => asks[s].account \notin connected'
            BY <1>4, <1>9, <2>2 DEF SyncInv, ThreadKnows, Editing
        <3>2. lastId' \in Nat /\ lastId <= lastId'
            BY <1>3, <1>5
        <3>3. \A j \in Ids : \/ SameSchedule(rows[j], rows'[j])
                             \/ /\ rows[j] = NoRow /\ lastId < j
                                /\ rows'[j] # NoRow
                                /\ at[s] \in Editing => rows'[j].account # asks[s].account
            BY <1>2, <1>5, <1>6, <1>9, <2>2 DEF SameSchedule
        <3>4. connected \subseteq connected'
            BY <1>4
        <3> QED
            BY <1>8, <2>2, <3>1, <3>2, <3>3, <3>4, KnowsStays
    <2> QED
        BY <2>1, <2>2
<1>12. Apart'
    <2>1. \A s \in Editors : asks'[s] = asks[s] /\ (at'[s] \in Editing => at[s] \in Editing)
        BY <1>1, <1>4, <1>8
    <2> QED
        BY <2>1 DEF SyncInv, Apart, Editing
<1>13. RowsKnown'
    BY <1>2, <1>3, <1>4, <1>5, <1>6 DEF SyncInv, RowsKnown, Ids
<1>14. OneSchedulePerAccount'
    BY <1>2, <1>6, <1>10 DEF SyncInv, OneSchedulePerAccount
<1>15. JobsMirrorRows'
    <2>1. Pending(i)'
        BY <1>7 DEF Pending
    <2>2. ASSUME NEW j \in Ids, j # i, Pending(j) PROVE Pending(j)'
        BY <1>1, <1>8, <2>2 DEF Pending
    <2> QED
        BY <1>4, <1>6, <2>1, <2>2 DEF SyncInv, JobsMirrorRows
<1> QED
    BY <1>11, <1>12, <1>13, <1>14, <1>15 DEF SyncInv

\* The account's row is updated, by the only edit of it that is under way.
LEMMA UpdateStep ==
    ASSUME EditsApart, TypeOK, TypeOK', SyncInv, NEW t \in Editors,
           NEW moved \in BOOLEAN, UpdateSchedule(t, moved)
    PROVE  SyncInv'
<1> DEFINE i == found[t]
           a == asks[t].account
           new == Asked(asks[t])
           W == Columns(t, moved)
<1> t \in Threads
    BY DEF Threads
<1>1. /\ at[t] = "save" /\ at[t] \in Editing /\ i \in Ids /\ asks[t].cron \in Crons
      /\ seen[t] \in Rows
    BY AskTyped DEF UpdateSchedule, Editing, TypeOK, ThreadTyped
<1>2. /\ rows[i] # NoRow /\ rows[i].account = a /\ SameSchedule(seen[t], rows[i])
      /\ a \in connected
    BY <1>1 DEF SyncInv, ThreadKnows, UpdateSchedule
<1>3. /\ new \in Rows
      /\ new.account = a
      /\ new.cron = asks[t].cron
      /\ new.enabled = asks[t].on
    BY <1>1, AskTyped, AskedIsRow
<1>4. seen[t] # NoRow /\ rows[i].cron = seen[t].cron /\ rows[i].enabled = seen[t].enabled
    BY <1>2 DEF SameSchedule
<1>5. /\ rows' = IF W = {} THEN rows ELSE [rows EXCEPT ![i] = Written(rows[i], W, new)]
      /\ at' = [at EXCEPT ![t] = "sync"]
      /\ UNCHANGED <<connected, lastId, jobs, asks, found, seen>>
    BY <1>2 DEF UpdateSchedule
<1>6. /\ "cron" \notin W => new.cron = seen[t].cron
      /\ "enabled" \notin W => new.enabled = seen[t].enabled
    BY DEF Columns
<1>7. /\ rows'[i] # NoRow
      /\ rows'[i].account = a
      /\ rows'[i].cron = asks[t].cron
      /\ rows'[i].enabled = asks[t].on
    <2>1. CASE W = {}
        BY <1>2, <1>3, <1>4, <1>5, <1>6, <2>1
    <2>2. CASE W # {}
        <3>1. rows[i] \in Rows
            BY <1>1, <1>2 DEF TypeOK
        <3>2. rows'[i] = Written(rows[i], W, new)
            BY <1>1, <1>5, <2>2 DEF TypeOK
        <3> HIDE DEF W, new
        <3> QED
            BY <1>2, <1>3, <1>4, <1>6, <3>1, <3>2, WrittenIsRow, ScheduleAssumption
    <2> QED
        BY <2>1, <2>2
<1>8. \A j \in Ids : j # i => rows'[j] = rows[j]
    BY <1>5 DEF TypeOK
<1> HIDE DEF W, new
<1>9. at'[t] = "sync" /\ found'[t] = i
    BY <1>5 DEF TypeOK
<1>10. ASSUME NEW s \in Editors, s # t PROVE at'[s] = at[s]
    BY <1>5, <1>10 DEF TypeOK, Threads
<1>11. \A s \in Editors : s # t /\ at[s] \in Editing => asks[s].account # a
    BY <1>1 DEF SyncInv, Apart
<1>12. \A s \in Editors : ThreadKnows(s)'
    <2>1. ThreadKnows(t)'
        BY <1>5, <1>7, <1>9 DEF ThreadKnows
    <2>2. ASSUME NEW s \in Editors, s # t PROVE ThreadKnows(s)'
        <3>1. \A j \in Ids : \/ SameSchedule(rows[j], rows'[j])
                             \/ /\ rows[j] # NoRow
                                /\ at[s] \in Editing => rows[j].account # asks[s].account
                                /\ rows'[j] = NoRow \/ rows'[j].account = rows[j].account
            BY <1>2, <1>7, <1>8, <1>11, <2>2 DEF SameSchedule
        <3>2. lastId' \in Nat /\ lastId <= lastId'
            BY <1>5, ScheduleAssumption DEF TypeOK
        <3>3. at[s] = "connect" => asks[s].account \notin connected'
            BY <1>5 DEF SyncInv, ThreadKnows
        <3> QED
            BY <1>5, <1>10, <2>2, <3>1, <3>2, <3>3, KnowsStays
    <2> QED
        BY <2>1, <2>2
<1>13. Apart'
    <2>1. \A s \in Editors : asks'[s] = asks[s] /\ (at'[s] \in Editing => at[s] \in Editing)
        BY <1>1, <1>5, <1>10
    <2> QED
        BY <2>1 DEF SyncInv, Apart, Editing
<1>14. RowsKnown' /\ OneSchedulePerAccount'
    BY <1>1, <1>2, <1>5, <1>7, <1>8 DEF SyncInv, RowsKnown, OneSchedulePerAccount
<1>15. JobsMirrorRows'
    <2>1. Pending(i)'
        BY <1>9 DEF Pending
    <2>2. ASSUME NEW j \in Ids, j # i, Pending(j) PROVE Pending(j)'
        BY <1>1, <1>5, <1>10, <2>2 DEF Pending
    <2> QED
        BY <1>5, <1>8, <2>1, <2>2 DEF SyncInv, JobsMirrorRows
<1> QED
    BY <1>12, <1>13, <1>14, <1>15 DEF SyncInv

\* The account's row is deleted, by the only edit of it that is under way.
LEMMA DeleteStep ==
    ASSUME EditsApart, TypeOK, TypeOK', SyncInv, NEW t \in Editors, DeleteSchedule(t)
    PROVE  SyncInv'
<1> DEFINE i == found[t]
           a == asks[t].account
<1> t \in Threads
    BY DEF Threads
<1>1. at[t] = "delete" /\ at[t] \in Editing /\ i \in Ids
    BY DEF DeleteSchedule, Editing, TypeOK, ThreadTyped
<1>2. rows[i] # NoRow /\ rows[i].account = a /\ i <= lastId
    BY <1>1 DEF SyncInv, ThreadKnows, RowsKnown
<1>3. /\ at' = [at EXCEPT ![t] = "unsync"]
      /\ rows' = [rows EXCEPT ![i] = NoRow]
      /\ UNCHANGED <<connected, lastId, jobs, asks, found, seen>>
    BY DEF DeleteSchedule
<1>4. rows'[i] = NoRow /\ \A j \in Ids : j # i => rows'[j] = rows[j]
    BY <1>1, <1>3 DEF TypeOK
<1>5. at'[t] = "unsync" /\ found'[t] = i
    BY <1>3 DEF TypeOK
<1>6. ASSUME NEW s \in Editors, s # t PROVE at'[s] = at[s]
    BY <1>3, <1>6 DEF TypeOK, Threads
<1>7. \A s \in Editors : s # t /\ at[s] \in Editing => asks[s].account # a
    BY <1>1 DEF SyncInv, Apart
<1>8. \A s \in Editors : ThreadKnows(s)'
    <2>1. ThreadKnows(t)'
        BY <1>2, <1>3, <1>4, <1>5 DEF ThreadKnows
    <2>2. ASSUME NEW s \in Editors, s # t PROVE ThreadKnows(s)'
        <3>1. \A j \in Ids : \/ SameSchedule(rows[j], rows'[j])
                             \/ /\ rows[j] # NoRow
                                /\ at[s] \in Editing => rows[j].account # asks[s].account
                                /\ rows'[j] = NoRow \/ rows'[j].account = rows[j].account
            BY <1>2, <1>4, <1>7, <2>2 DEF SameSchedule
        <3>2. lastId' \in Nat /\ lastId <= lastId'
            BY <1>3, ScheduleAssumption DEF TypeOK
        <3>3. at[s] = "connect" => asks[s].account \notin connected'
            BY <1>3 DEF SyncInv, ThreadKnows
        <3> QED
            BY <1>3, <1>6, <2>2, <3>1, <3>2, <3>3, KnowsStays
    <2> QED
        BY <2>1, <2>2
<1>9. Apart'
    <2>1. \A s \in Editors : asks'[s] = asks[s] /\ (at'[s] \in Editing => at[s] \in Editing)
        BY <1>1, <1>3, <1>6
    <2> QED
        BY <2>1 DEF SyncInv, Apart, Editing
<1>10. RowsKnown' /\ OneSchedulePerAccount'
    BY <1>3, <1>4 DEF SyncInv, RowsKnown, OneSchedulePerAccount
<1>11. JobsMirrorRows'
    <2>1. Pending(i)'
        BY <1>5 DEF Pending
    <2>2. ASSUME NEW j \in Ids, j # i, Pending(j) PROVE Pending(j)'
        BY <1>1, <1>3, <1>6, <2>2 DEF Pending
    <2> QED
        BY <1>3, <1>4, <2>1, <2>2 DEF SyncInv, JobsMirrorRows
<1> QED
    BY <1>8, <1>9, <1>10, <1>11 DEF SyncInv

\* The scheduler catches up with the row that t committed.
LEMMA SyncStep ==
    ASSUME TypeOK, TypeOK', SyncInv, NEW t \in Editors,
           SyncSchedule(t) \/ RemoveScheduleJob(t)
    PROVE  SyncInv'
<1> DEFINE i == found[t]
<1> t \in Threads
    BY DEF Threads
<1>1. /\ Finish(t)
      /\ UNCHANGED <<connected, rows, lastId>>
      /\ at[t] \in {"sync", "unsync"}
      /\ i \in Ids
    BY DEF SyncSchedule, RemoveScheduleJob, TypeOK, ThreadTyped
<1>2. Others(t) /\ at'[t] = "idle"
    BY <1>1, FinishLocal
<1>3. jobs'[i] = LiveJob(rows[i]) /\ \A j \in Ids : j # i => jobs'[j] = jobs[j]
    <2>1. CASE SyncSchedule(t)
        BY <1>1, <2>1 DEF SyncSchedule, SyncInv, ThreadKnows, LiveJob, TypeOK
    <2>2. CASE RemoveScheduleJob(t)
        BY <1>1, <2>2 DEF RemoveScheduleJob, SyncInv, ThreadKnows, LiveJob, TypeOK
    <2> QED
        BY <2>1, <2>2
<1>4. \A s \in Editors : ThreadKnows(s)'
    <2>1. ThreadKnows(t)'
        BY <1>2 DEF ThreadKnows
    <2>2. ASSUME NEW s \in Editors, s # t PROVE ThreadKnows(s)'
        <3>1. \A j \in Ids : SameSchedule(rows[j], rows'[j])
            BY <1>1 DEF SameSchedule
        <3>2. lastId' \in Nat /\ lastId <= lastId'
            BY <1>1, ScheduleAssumption DEF TypeOK
        <3>3. at[s] = "connect" => asks[s].account \notin connected'
            BY <1>1 DEF SyncInv, ThreadKnows
        <3>4. at'[s] = at[s] /\ asks'[s] = asks[s] /\ found'[s] = found[s] /\ seen'[s] = seen[s]
            BY <1>2, <2>2 DEF Others, Threads
        <3> QED
            BY <1>1, <3>1, <3>2, <3>3, <3>4, KnowsStays
    <2> QED
        BY <2>1, <2>2
<1>5. Apart'
    <2>1. \A s \in Editors : at'[s] \in Editing =>
                s # t /\ at'[s] = at[s] /\ asks'[s] = asks[s]
        BY <1>2 DEF Others, Threads, Editing
    <2> QED
        BY <2>1 DEF SyncInv, Apart, Editing
<1>6. RowsKnown' /\ OneSchedulePerAccount'
    BY <1>1 DEF SyncInv, RowsKnown, OneSchedulePerAccount
<1>7. JobsMirrorRows'
    <2>1. ASSUME NEW j \in Ids, j # i, Pending(j) PROVE Pending(j)'
        BY <1>2, <2>1 DEF Pending, Others, Threads
    <2> QED
        BY <1>1, <1>3, <2>1 DEF SyncInv, JobsMirrorRows
<1> QED
    BY <1>4, <1>5, <1>6, <1>7 DEF SyncInv

\* A fire changes at most the next run of a row that is there.
LEMMA FireCommitRows ==
    ASSUME TypeOK, NEW t \in Threads, NEW moved \in BOOLEAN, FireCommit(t, moved)
    PROVE  \A j \in Ids : SameSchedule(rows[j], rows'[j])
<1> DEFINE i == found[t]
           new == [rows[i] EXCEPT !.next = seen[t].cron]
<1>1. i \in Ids /\ seen[t].cron \in Crons
    BY DEF FireCommit, TypeOK, ThreadTyped, Rows
<1>2. \/ rows' = rows
      \/ (rows[i] # NoRow /\ rows' = [rows EXCEPT ![i] = new])
    <2>1. CASE moved \/ seen[t].next # seen[t].cron
        BY <2>1 DEF FireCommit
    <2>2. CASE ~(moved \/ seen[t].next # seen[t].cron)
        BY <2>2 DEF FireCommit
    <2> QED
        BY <2>1, <2>2
<1>3. rows[i] # NoRow => SameSchedule(rows[i], new)
    BY <1>1, AdvancedIsRow, ScheduleAssumption DEF TypeOK, SameSchedule
<1> HIDE DEF new
<1> QED
    BY <1>1, <1>2, <1>3 DEF TypeOK, SameSchedule

LEMMA FireCommitStep ==
    ASSUME TypeOK, TypeOK', SyncInv, NEW t \in Threads, NEW moved \in BOOLEAN,
           FireCommit(t, moved)
    PROVE  SyncInv'
<1>1. /\ UNCHANGED <<connected, lastId, jobs>>
      /\ at[t] = "advance"
      /\ Finish(t) \/ (at' = [at EXCEPT ![t] = "enqueue"] /\ UNCHANGED <<asks, found, seen>>)
    BY DEF FireCommit
<1>2. Others(t) /\ at'[t] \in {"idle", "enqueue"}
    <2>1. CASE Finish(t)
        BY <2>1, FinishLocal
    <2>2. CASE at' = [at EXCEPT ![t] = "enqueue"] /\ UNCHANGED <<asks, found, seen>>
        BY <2>2 DEF TypeOK, Others
    <2> QED
        BY <1>1, <2>1, <2>2
<1>3. \A j \in Ids : SameSchedule(rows[j], rows'[j])
    BY FireCommitRows
<1>4. \A s \in Editors : ThreadKnows(s)'
    <2>1. t \in Editors => ThreadKnows(t)'
        BY <1>2 DEF ThreadKnows
    <2>2. ASSUME NEW s \in Editors, s # t PROVE ThreadKnows(s)'
        <3>1. lastId' \in Nat /\ lastId <= lastId'
            BY <1>1, ScheduleAssumption DEF TypeOK
        <3>2. at[s] = "connect" => asks[s].account \notin connected'
            BY <1>1 DEF SyncInv, ThreadKnows
        <3>3. at'[s] = at[s] /\ asks'[s] = asks[s] /\ found'[s] = found[s] /\ seen'[s] = seen[s]
            BY <1>2, <2>2 DEF Others, Threads
        <3> QED
            BY <1>1, <1>3, <3>1, <3>2, <3>3, KnowsStays
    <2> QED
        BY <2>1, <2>2
<1>5. Apart'
    <2>1. \A s \in Editors : at'[s] \in Editing =>
                s # t /\ at'[s] = at[s] /\ asks'[s] = asks[s]
        BY <1>2 DEF Others, Threads, Editing
    <2> QED
        BY <2>1 DEF SyncInv, Apart, Editing
<1>6. RowsKnown' /\ OneSchedulePerAccount'
    BY <1>1, <1>3 DEF SyncInv, RowsKnown, OneSchedulePerAccount, SameSchedule
<1>7. JobsMirrorRows'
    <2>1. ASSUME NEW j \in Ids, Pending(j) PROVE Pending(j)'
        BY <1>1, <1>2, <2>1 DEF Pending, Others, Threads
    <2> QED
        BY <1>1, <1>3, <2>1, SameJob DEF SyncInv, JobsMirrorRows
<1> QED
    BY <1>4, <1>5, <1>6, <1>7 DEF SyncInv

\* A restart reads the jobs from the rows.
LEMMA RestartStep ==
    ASSUME SyncInv, StartScheduler
    PROVE  SyncInv'
<1>1. \A t \in Editors : at'[t] = "idle"
    BY DEF StartScheduler, Threads
<1>2. (\A t \in Editors : ThreadKnows(t)') /\ Apart'
    BY <1>1 DEF ThreadKnows, Apart, Editing
<1>3. JobsMirrorRows'
    BY DEF StartScheduler, JobsMirrorRows
<1> QED
    BY <1>2, <1>3 DEF SyncInv, StartScheduler, RowsKnown, OneSchedulePerAccount

LEMMA SyncStays == EditsApart /\ TypeOK /\ SyncInv /\ [Next]_vars => SyncInv'
<1> SUFFICES ASSUME EditsApart, TypeOK, SyncInv, [Next]_vars PROVE SyncInv'
    OBVIOUS
<1>1. TypeOK'
    BY TypedStep
<1>2. CASE Next
    <2>1. ASSUME NEW t \in Editors, NEW r \in Asks,
                 StartConnect(t, r) \/ StartSave(t, r) \/ StartDelete(t, r)
          PROVE  SyncInv'
        BY <1>1, <2>1, QuietActions DEF Threads
    <2>2. ASSUME NEW t \in Editors, ConnectAlone(t) PROVE SyncInv'
        BY <1>1, <2>2, QuietActions DEF Threads
    <2>3. ASSUME NEW t \in Threads, NEW i \in Ids, RunNow(t, i) \/ CronFire(t, i) PROVE SyncInv'
        BY <1>1, <2>3, QuietActions
    <2>4. ASSUME NEW t \in Threads, FireRead(t) \/ Enqueue(t) \/ GiveUp(t) PROVE SyncInv'
        BY <1>1, <2>4, QuietActions
    <2>5. ASSUME NEW t \in Editors, ConnectBoth(t) \/ InsertSchedule(t) PROVE SyncInv'
        BY <1>1, <2>5, InsertStep
    <2>6. ASSUME NEW t \in Editors, NEW moved \in BOOLEAN, UpdateSchedule(t, moved)
          PROVE  SyncInv'
        BY <1>1, <2>6, UpdateStep
    <2>7. ASSUME NEW t \in Editors, DeleteSchedule(t) PROVE SyncInv'
        BY <1>1, <2>7, DeleteStep
    <2>8. ASSUME NEW t \in Editors, SyncSchedule(t) \/ RemoveScheduleJob(t) PROVE SyncInv'
        BY <1>1, <2>8, SyncStep
    <2>9. ASSUME NEW t \in Threads, NEW moved \in BOOLEAN, FireCommit(t, moved)
          PROVE  SyncInv'
        BY <1>1, <2>9, FireCommitStep
    <2>10. ASSUME StartScheduler PROVE SyncInv'
        BY <2>10, RestartStep
    <2> QED
        BY <1>2, <2>1, <2>2, <2>3, <2>4, <2>5, <2>6, <2>7, <2>8, <2>9, <2>10
        DEF Next, Threads
<1>3. CASE UNCHANGED vars
    BY <1>3 DEF vars, SyncInv, ThreadKnows, Apart, RowsKnown, JobsMirrorRows, Pending,
                OneSchedulePerAccount
<1> QED
    BY <1>2, <1>3

(***************************************************************************)
(* On PostgreSQL, when the edits of one account's schedule come one after  *)
(* another, the live jobs mirror the rows whatever edits of other          *)
(* accounts, fires, failures and restarts come in between.                 *)
(***************************************************************************)
THEOREM SchedulesMirrored ==
    ASSUME EditsApart
    PROVE  Spec => []JobsMirrorRows
<1>1. Init => TypeOK /\ SyncInv
    BY TypedInit, SyncInit
<1>2. TypeOK /\ SyncInv /\ [Next]_vars => (TypeOK /\ SyncInv)'
    BY TypedStep, SyncStays
<1>3. TypeOK /\ SyncInv => JobsMirrorRows
    BY DEF SyncInv
<1> QED
    BY <1>1, <1>2, <1>3, PTL DEF Spec

(***************************************************************************)
(* Under the same condition an account never has two schedules.            *)
(***************************************************************************)
THEOREM OneScheduleEach ==
    ASSUME EditsApart
    PROVE  Spec => []OneSchedulePerAccount
<1>1. Init => TypeOK /\ SyncInv
    BY TypedInit, SyncInit
<1>2. TypeOK /\ SyncInv /\ [Next]_vars => (TypeOK /\ SyncInv)'
    BY TypedStep, SyncStays
<1>3. TypeOK /\ SyncInv => OneSchedulePerAccount
    BY DEF SyncInv
<1> QED
    BY <1>1, <1>2, <1>3, PTL DEF Spec

-----------------------------------------------------------------------------
\* A step in which a thread goes on from a fire is a step of that fire, or a
\* restart.
LEMMA FireStep == TypeOK /\ [Next]_vars => [FireKeepsSchedules]_vars
<1> SUFFICES ASSUME TypeOK, [Next]_vars, NEW t \in Threads,
                    at[t] \in {"fire", "advance", "enqueue"}, at'[t] # at[t],
                    NEW i \in Ids
             PROVE  SameSchedule(rows[i], rows'[i])
    BY DEF FireKeepsSchedules
<1>1. CASE rows' = rows
    BY <1>1 DEF SameSchedule
<1>2. ASSUME NEW s \in Editors, ConnectBoth(s) \/ InsertSchedule(s) \/ DeleteSchedule(s)
      PROVE  FALSE
    BY <1>2 DEF ConnectBoth, InsertSchedule, DeleteSchedule, TypeOK, Threads
<1>3. ASSUME NEW s \in Editors, NEW moved \in BOOLEAN, UpdateSchedule(s, moved), rows' # rows
      PROVE  FALSE
    <2>1. at[s] = "save" /\ at' = [at EXCEPT ![s] = "sync"]
        BY <1>3 DEF UpdateSchedule
    <2> QED
        BY <2>1 DEF TypeOK, Threads
<1>4. ASSUME NEW s \in Threads, NEW moved \in BOOLEAN, FireCommit(s, moved)
      PROVE  SameSchedule(rows[i], rows'[i])
    BY <1>4, FireCommitRows
<1> QED
    BY <1>1, <1>2, <1>3, <1>4
    DEF Next, vars, StartConnect, StartSave, StartDelete, ConnectAlone, SyncSchedule,
        RemoveScheduleJob, RunNow, CronFire, FireRead, Enqueue, GiveUp, StartScheduler

(***************************************************************************)
(* Whatever the database and however requests overlap, a fire never undoes *)
(* an edit that overtook it.                                               *)
(***************************************************************************)
THEOREM FiresAreHarmless == Spec => FiresKeepSchedules
<1>1. Init => TypeOK
    BY TypedInit
<1>2. TypeOK /\ [Next]_vars => TypeOK'
    BY TypedStep
<1>3. TypeOK /\ [Next]_vars => [FireKeepsSchedules]_vars
    BY FireStep
<1> QED
    BY <1>1, <1>2, <1>3, PTL DEF Spec, FiresKeepSchedules
=============================================================================
