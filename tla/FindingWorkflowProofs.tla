----------------------- MODULE FindingWorkflowProofs ------------------------
(***************************************************************************)
(* Theorems about FindingWorkflow and the pages over it (FindingViews),    *)
(* for every set of groups and threads, every number of runs, scans in     *)
(* flight, days and moves, every overlap of their transactions, and every  *)
(* choice of irregular paths unless a theorem says otherwise.              *)
(***************************************************************************)
EXTENDS FindingViews, SequenceTheorems, FiniteFacts

LifecycleThms == INSTANCE FindingLifecycleProofs

-----------------------------------------------------------------------------
(* Facts about the building blocks of every commit.                        *)

\* The statuses, the marks that are none, and the writers.
LEMMA StatusesAreTargets ==
    /\ "open" \in Status /\ ExceptionStatuses \subseteq Status
    /\ Absent \notin Status /\ Unread \notin Status \cup {Absent}
    /\ "user" \in Writers /\ "expiry" \in Writers /\ "scan" \in Writers
BY DEF Status, ExceptionStatuses, Absent, Unread, Writers

\* What a session has loaded of a group.
LEMMA LookTyped ==
    ASSUME TypeOK, NEW x \in Sessions, NEW g \in Groups
    PROVE  /\ seen[x][g] \in Look
           /\ seen[x][g].status \in Status \cup {Absent, Unread}
           /\ seen[x][g].run \in Runs \cup {NoRun}
           /\ seen[x][g].at \in Nat
           /\ Len(history[g]) \in Nat
           /\ g \in Loaded(x) <=> seen[x][g].status \in Status \cup {Absent}
BY StatusesAreTargets DEF TypeOK, Look, Loaded

\* The end of a transaction forgets what its session has loaded, and no other's.
LEMMA ReleaseEffect ==
    ASSUME TypeOK, NEW x \in Sessions, Release(x)
    PROVE  /\ seen' \in [Sessions -> [Groups -> Look]]
           /\ \A g \in Groups : seen'[x][g] = [status |-> Unread, run |-> NoRun, at |-> 0]
           /\ \A y \in Sessions \ {x} : seen'[y] = seen[y]
<1>1. NothingSeen \in [Groups -> Look]
  BY DEF NothingSeen, Look
<1>2. seen' = [seen EXCEPT ![x] = NothingSeen] /\ seen \in [Sessions -> [Groups -> Look]]
  BY DEF Release, TypeOK
<1>3. seen'[x] = NothingSeen
  BY <1>2
<1> QED
  BY <1>1, <1>2, <1>3 DEF NothingSeen

\* The statuses that an audit trail leads through.
PastOf(trail) == {trail[i].to : i \in 1 .. Len(trail)}

LEMMA PastIsPastOf ==
    ASSUME NEW g \in Groups PROVE Lifecycle!Past(g) = PastOf(history[g])
BY DEF Lifecycle!Past, PastOf

\* Record moves each group of S, and lengthens its past by the target.
Moved(g, to, by) ==
    /\ status'[g] = to /\ history'[g] \in Seq(AuditRow)
    /\ Len(history'[g]) = Len(history[g]) + 1
    /\ history'[g][Len(history'[g])].by = by
    /\ PastOf(history'[g]) = PastOf(history[g]) \cup {to}

LEMMA RecordMoves ==
    ASSUME TypeOK, NEW x \in Sessions, NEW S \in SUBSET Loaded(x), NEW to \in Status,
           NEW by \in Writers, Record(x, S, to, by)
    PROVE  \A g \in S : Moved(g, to, by)
<1> SUFFICES ASSUME NEW g \in S PROVE Moved(g, to, by)
  OBVIOUS
<1> DEFINE n == Len(history[g])
           row == Row(seen[x][g].status, to, by)
<1>0. g \in Groups /\ seen[x][g].status \in Status \cup {Absent}
  BY LookTyped DEF Loaded
<1>1. status'[g] = to /\ history'[g] = Append(history[g], row)
  BY <1>0 DEF Record
<1>2. history[g] \in Seq(AuditRow) /\ n \in Nat
  BY <1>0 DEF TypeOK
<1>2a. row \in AuditRow
  BY <1>0 DEF Row, AuditRow
<1>3. row.to = to /\ row.by = by
  BY DEF Row
<1> HIDE DEF row
<1>4. history'[g] \in Seq(AuditRow) /\ Len(history'[g]) = n + 1 /\ history'[g][n + 1] = row
  BY <1>1, <1>2, <1>2a
<1>5. \A i \in 1 .. n : history'[g][i] = history[g][i]
  BY <1>1, <1>2
<1>6. 1 .. n + 1 = (1 .. n) \cup {n + 1}
  BY <1>2
<1>7. {history'[g][i].to : i \in 1 .. n + 1} = {history[g][i].to : i \in 1 .. n} \cup {to}
  BY <1>3, <1>4, <1>5, <1>6
<1> QED
  BY <1>1, <1>3, <1>4, <1>7 DEF PastOf, Moved

\* It leaves the others alone.
LEMMA RecordSpares ==
    ASSUME NEW x, NEW S, NEW to, NEW by, Record(x, S, to, by), NEW g \in Groups \ S
    PROVE  status'[g] = status[g] /\ history'[g] = history[g] /\ (g \in contested' <=> g \in contested)
BY DEF Record

\* What it writes has the right types.
LEMMA RecordTyped ==
    ASSUME TypeOK, NEW x \in Sessions, NEW S \in SUBSET Loaded(x), NEW to \in Status,
           NEW by \in Writers, Record(x, S, to, by)
    PROVE  /\ status' \in [Groups -> Status \cup {Absent}]
           /\ history' \in [Groups -> Seq(AuditRow)]
           /\ contested' = contested \cup {g \in S : MovedSince(x, g)} /\ contested' \subseteq Groups
<1>0. S \subseteq Groups
  BY DEF Loaded
<1>1. ASSUME NEW g \in Groups
      PROVE  history'[g] \in Seq(AuditRow)
  <2>1. CASE g \in S
    BY <2>1, RecordMoves DEF Moved
  <2>2. CASE g \notin S
    BY <2>2, RecordSpares DEF TypeOK
  <2> QED
    BY <2>1, <2>2
<1> QED
  BY <1>0, <1>1 DEF TypeOK, Record

\* Transition keeps the types of all it writes.
LEMMA TransitionTyped ==
    ASSUME TypeOK, NEW t \in Threads, NEW S \in SUBSET Loaded(t), NEW to \in Status,
           NEW by \in Writers, Transition(t, S, to, by), active' \subseteq ExceptionRow
    PROVE  TypeOK'
<1>1. t \in Sessions /\ Record(t, S, to, by) /\ Release(t)
  BY DEF Transition, Moves, EndOf, Sessions
<1>2. finding' \in [Groups -> [Runs -> Status \cup {Absent}]]
  BY DEF Transition, TypeOK
<1>3. day' = day /\ runs' = runs /\ lastSeen' = lastSeen /\ torn' \subseteq Groups
  BY DEF Transition, Moves, TypeOK, Loaded
<1>4. due' \in [Threads -> SUBSET ExceptionRow]
  BY DEF Transition, Moves, EndOf, TypeOK
<1> QED
  BY <1>1, <1>2, <1>3, <1>4, RecordTyped, ReleaseEffect DEF TypeOK

\* The groups a request moves are loaded, and the move is the user's to make.
LEMMA MovableLegal ==
    ASSUME NEW t, NEW to \in Status, NEW g \in Movable(t, to)
    PROVE  /\ g \in Groups /\ g \in Loaded(t)
           /\ seen[t][g].status \in Status
           /\ LegalMove(seen[t][g].status, to, "user")
BY DEF Movable, Loaded, CanTransition, ALLOWED_TRANSITIONS, Status, LegalMove

\* So are those a sweep moves, and it is expiry's to make.
LEMMA SweptLegal ==
    ASSUME NEW t, NEW g \in Swept(t)
    PROVE  /\ g \in Groups /\ g \in Loaded(t)
           /\ seen[t][g].status \in Status /\ seen[t][g].status \in ExceptionStatuses
           /\ LegalMove(seen[t][g].status, "open", "expiry")
BY StatusesAreTargets DEF Swept, Loaded, LegalMove

\* And those a scan moves.
LEMMA ReappearedLegal ==
    ASSUME NEW r, NEW g \in Reappeared(r)
    PROVE  /\ g \in Groups /\ g \in Loaded(r)
           /\ seen[r][g].status \in Status \cup {Absent}
           /\ LegalMove(seen[r][g].status, "open", "scan")
BY DEF Reappeared, Loaded, LegalMove, Status, Absent, Unread

-----------------------------------------------------------------------------
(* What a step can be.                                                     *)

\* The commit of a request or of a sweep: it moves groups it has loaded.
Commit(t, S, to, by) ==
    /\ Transition(t, S, to, by)
    /\ S \subseteq Loaded(t)
    /\ \A g \in S : seen[t][g].status \in Status /\ LegalMove(seen[t][g].status, to, by)

\* Steps that touch neither a group nor a snapshot nor an exception.
Quiet ==
    \/ \E x \in Sessions, g \in Groups : Load(x, g)
    \/ \E t \in Threads : FindExpired(t) \/ Quit(t)
    \/ \E r \in Runs : EnqueueScan(r) \/ FailScan(r)
    \/ NextDay
    \/ UNCHANGED vars

\* Each action of a thread that writes is a Commit.
LEMMA TransitionCommits ==
    ASSUME NEW t \in Threads, NEW g \in Groups, NEW to \in Status, FindingTransition(t, g, to)
    PROVE  Commit(t, {g}, to, "user") /\ active' = active
BY MovableLegal DEF FindingTransition, Commit
LEMMA RevokeCommits ==
    ASSUME NEW t \in Threads, NEW g \in Groups, RevokeException(t, g)
    PROVE  /\ Commit(t, {g}, "open", "user") /\ active' \subseteq active
           /\ \A e \in active \ active' : e.group = g
BY MovableLegal, StatusesAreTargets DEF RevokeException, Commit, ActiveOf
LEMMA CreateCommits ==
    ASSUME NEW t \in Threads, NEW kind \in ExceptionStatuses, NEW expires \in Days \cup {NoExpiry},
           CreateException(t, kind, expires)
    PROVE  /\ Movable(t, kind) \in SUBSET Groups
           /\ Commit(t, Movable(t, kind), kind, "user")
           /\ active' = active \cup
                 {[group |-> g, kind |-> kind, expires |-> expires, at |-> Len(history[g]) + 1] :
                     g \in Movable(t, kind)}
BY MovableLegal, StatusesAreTargets DEF CreateException, Commit
LEMMA BulkCommits ==
    ASSUME NEW t \in Threads, NEW to \in Status, BulkTransition(t, to)
    PROVE  /\ Movable(t, to) \in SUBSET Groups
           /\ Commit(t, Movable(t, to), to, "user") /\ active' = active
BY MovableLegal DEF BulkTransition, Commit
LEMMA ExpireCommits ==
    ASSUME NEW t \in Threads, ExpireExceptions(t)
    PROVE  /\ Swept(t) \in SUBSET Groups
           /\ Commit(t, Swept(t), "open", "expiry") /\ active' = active \ due[t]
BY SweptLegal DEF ExpireExceptions, Commit

\* A step is the commit of a thread, the end of a scan, or quiet.
LEMMA Steps ==
    ASSUME [Next]_vars
    PROVE  \/ \E t \in Threads, S \in SUBSET Groups, to \in Status, by \in Writers : Commit(t, S, to, by)
           \/ \E r \in Runs : PersistScan(r)
           \/ Quiet
<1> DEFINE Commits == \E t \in Threads, S \in SUBSET Groups, to \in Status, by \in Writers :
                         Commit(t, S, to, by)
<1> USE StatusesAreTargets
<1>1. ASSUME NEW t \in Threads, NEW g \in Groups, NEW to \in Status, FindingTransition(t, g, to)
      PROVE  Commits
  <2>1. Commit(t, {g}, to, "user") /\ {g} \in SUBSET Groups
    BY <1>1, TransitionCommits
  <2> QED
    BY <2>1
<1>2. ASSUME NEW t \in Threads, NEW g \in Groups, RevokeException(t, g)
      PROVE  Commits
  <2>1. Commit(t, {g}, "open", "user") /\ {g} \in SUBSET Groups
    BY <1>2, RevokeCommits
  <2> QED
    BY <2>1
<1>3. ASSUME NEW t \in Threads, NEW kind \in ExceptionStatuses, NEW expires \in Days \cup {NoExpiry},
             CreateException(t, kind, expires)
      PROVE  Commits
  BY <1>3, CreateCommits
<1>4. ASSUME NEW t \in Threads, NEW to \in Status, BulkTransition(t, to)
      PROVE  Commits
  BY <1>4, BulkCommits
<1>5. ASSUME NEW t \in Threads, ExpireExceptions(t)
      PROVE  Commits
  BY <1>5, ExpireCommits
<1> QED
  BY <1>1, <1>2, <1>3, <1>4, <1>5 DEF Next, Quiet

\* What a quiet step leaves alone.
LEMMA QuietLeaves ==
    ASSUME Quiet
    PROVE  UNCHANGED <<status, lastSeen, history, finding, active, contested, torn>>
BY DEF Quiet, Load, FindExpired, Quit, EnqueueScan, FailScan, NextDay, vars

\* A commit, variable by variable.
CommitWrites(t, S, to, by) ==
    /\ runs' = runs /\ lastSeen' = lastSeen /\ day' = day
    /\ torn' = (torn \ S) \cup {g \in S : Overtaken(t, g)}
    /\ due'[t] = {} /\ \A u \in Threads \ {t} : due'[u] = due[u]
    /\ \A g \in Groups, r \in Runs :
          finding'[g][r] = IF g \in S /\ r = seen[t][g].run /\ finding[g][r] # Absent
                           THEN to ELSE finding[g][r]

LEMMA CommitEffect ==
    ASSUME TypeOK, NEW t \in Threads, NEW S \in SUBSET Groups, NEW to \in Status, NEW by \in Writers,
           Commit(t, S, to, by)
    PROVE  /\ t \in Sessions /\ Record(t, S, to, by) /\ Release(t)
           /\ S \in SUBSET Loaded(t)
           /\ CommitWrites(t, S, to, by)
BY DEF Commit, CommitWrites, Transition, Moves, EndOf, Sessions, TypeOK

\* The end of a scan, variable by variable.
LEMMA PersistEffect ==
    ASSUME TypeOK, NEW r \in Runs, PersistScan(r)
    PROVE  /\ r \in Sessions /\ Record(r, Reappeared(r), "open", "scan") /\ Release(r)
           /\ Reappeared(r) \in SUBSET Loaded(r) /\ Loaded(r) \in SUBSET Groups
           /\ \A g \in Loaded(r) : seen[r][g].status = Absent => status[g] = Absent
           /\ runs[r] = "running" /\ \A q \in Runs : runs'[q] = IF q = r THEN "completed" ELSE runs[q]
           /\ day' = day /\ active' = active /\ due' = due
           /\ torn' = (torn \ Loaded(r)) \cup {g \in Loaded(r) : Overtaken(r, g)}
           /\ \A g \in Groups : lastSeen'[g] = IF g \in Loaded(r) THEN r ELSE lastSeen[g]
           /\ \A g \in Groups, q \in Runs :
                 finding'[g][q] = IF g \in Loaded(r) /\ q = r
                                  THEN IF g \in Reappeared(r) THEN "open" ELSE seen[r][g].status
                                  ELSE finding[g][q]
BY ReappearedLegal DEF PersistScan, Persist, Sessions, TypeOK, Loaded

\* Every variable keeps its type, whatever overlaps.
THEOREM WorkflowTyped == Spec => []TypeOK
<1>1. Init => TypeOK
  <2> SUFFICES ASSUME Init PROVE TypeOK
    OBVIOUS
  <2>1. \A g \in Groups : history[g] \in Seq(AuditRow)
    BY DEF Init
  <2>2. seen \in [Sessions -> [Groups -> Look]]
    BY DEF Init, NothingSeen, Look
  <2> QED
    BY <2>1, <2>2 DEF Init, TypeOK, RunStates, NoRun
<1>2. TypeOK /\ [Next]_vars => TypeOK'
  <2> SUFFICES ASSUME TypeOK, [Next]_vars
               PROVE  TypeOK'
    OBVIOUS
  <2> USE StatusesAreTargets
  <2>0. ASSUME NEW t \in Threads, NEW S \in SUBSET Groups, NEW to \in Status, NEW by \in Writers,
               Commit(t, S, to, by), active' \subseteq ExceptionRow
        PROVE  TypeOK'
    BY <2>0, TransitionTyped DEF Commit
  <2>1. ASSUME NEW t \in Threads, NEW g \in Groups, NEW to \in Status, FindingTransition(t, g, to)
        PROVE  TypeOK'
    <3>1. {g} \in SUBSET Groups /\ Commit(t, {g}, to, "user") /\ active' \subseteq ExceptionRow
      BY <2>1, TransitionCommits DEF TypeOK
    <3> QED
      BY <3>1, <2>0
  <2>2. ASSUME NEW t \in Threads, NEW g \in Groups, RevokeException(t, g)
        PROVE  TypeOK'
    <3>1. {g} \in SUBSET Groups /\ Commit(t, {g}, "open", "user") /\ active' \subseteq ExceptionRow
      BY <2>2, RevokeCommits DEF TypeOK
    <3> QED
      BY <3>1, <2>0
  <2>3. ASSUME NEW t \in Threads, NEW kind \in ExceptionStatuses,
               NEW expires \in Days \cup {NoExpiry}, CreateException(t, kind, expires)
        PROVE  TypeOK'
    <3> DEFINE new == {[group |-> g, kind |-> kind, expires |-> expires,
                        at |-> Len(history[g]) + 1] : g \in Movable(t, kind)}
    <3>1. /\ Movable(t, kind) \in SUBSET Groups /\ Commit(t, Movable(t, kind), kind, "user")
          /\ active' = active \cup new
      BY <2>3, CreateCommits
    <3>2. \A g \in Groups : Len(history[g]) \in Nat
      BY DEF TypeOK
    <3>3. new \subseteq ExceptionRow
      BY <3>1, <3>2 DEF ExceptionRow
    <3>4. active' \subseteq ExceptionRow /\ kind \in Status
      BY <3>1, <3>3 DEF TypeOK
    <3> QED
      BY <3>1, <3>4, <2>0
  <2>4. ASSUME NEW t \in Threads, NEW to \in Status, BulkTransition(t, to)
        PROVE  TypeOK'
    <3>1. /\ Movable(t, to) \in SUBSET Groups /\ Commit(t, Movable(t, to), to, "user")
          /\ active' \subseteq ExceptionRow
      BY <2>4, BulkCommits DEF TypeOK
    <3> QED
      BY <3>1, <2>0
  <2>5. ASSUME NEW t \in Threads, ExpireExceptions(t)
        PROVE  TypeOK'
    <3>1. /\ Swept(t) \in SUBSET Groups /\ Commit(t, Swept(t), "open", "expiry")
          /\ active' \subseteq ExceptionRow
      BY <2>5, ExpireCommits DEF TypeOK
    <3> QED
      BY <3>1, <2>0
  <2>6. ASSUME NEW r \in Runs, PersistScan(r)
        PROVE  TypeOK'
    <3>1. /\ status' \in [Groups -> Status \cup {Absent}]
          /\ history' \in [Groups -> Seq(AuditRow)]
          /\ contested' \subseteq Groups
      BY <2>6, PersistEffect, RecordTyped
    <3>2. seen' \in [Sessions -> [Groups -> Look]]
      BY <2>6, PersistEffect, ReleaseEffect
    <3>3. /\ runs' \in [Runs -> RunStates] /\ day' = day /\ active' = active /\ due' = due
      BY <2>6 DEF PersistScan, Persist, TypeOK, RunStates
    <3>7. torn' \subseteq Groups
      BY <2>6, PersistEffect DEF Loaded, TypeOK
    <3>4. lastSeen' \in [Groups -> Runs \cup {NoRun}]
      BY <2>6 DEF PersistScan, Persist, TypeOK
    <3>5. \A g \in Loaded(r) \ Reappeared(r) : seen[r][g].status \in Status
      BY LookTyped DEF Loaded, Reappeared, Sessions
    <3>6. finding' \in [Groups -> [Runs -> Status \cup {Absent}]]
      BY <2>6, <3>5 DEF PersistScan, Persist, TypeOK
    <3> QED
      BY <3>1, <3>2, <3>3, <3>4, <3>6, <3>7 DEF TypeOK
  <2>7. ASSUME NEW x \in Sessions, NEW g \in Groups, Load(x, g)
        PROVE  TypeOK'
    <3> DEFINE first == IF x \in Threads /\ due[x] # {} THEN seen[x][g].at ELSE Len(history[g])
               look == [status |-> status[g], run |-> lastSeen[g], at |-> first]
    <3>1. first \in Nat
      BY LookTyped
    <3> HIDE DEF first
    <3>2. look \in Look
      BY <3>1 DEF Look, TypeOK
    <3>3. seen' = [seen EXCEPT ![x][g] = look]
      BY <2>7 DEF Load, first
    <3> HIDE DEF look
    <3>4. seen' \in [Sessions -> [Groups -> Look]]
      BY <3>2, <3>3 DEF TypeOK
    <3> QED
      BY <3>4, <2>7 DEF Load, TypeOK
  <2>8. ASSUME NEW t \in Threads, FindExpired(t)
        PROVE  TypeOK'
    <3> DEFINE at(g) == IF \E e \in Expired : e.group = g THEN Len(history[g]) ELSE 0
               looks == [g \in Groups |-> [seen[t][g] EXCEPT !.at = at(g)]]
    <3>1. t \in Sessions /\ Expired \subseteq ExceptionRow
      BY DEF Sessions, Expired, TypeOK
    <3>2. ASSUME NEW g \in Groups
          PROVE  [seen[t][g] EXCEPT !.at = at(g)] \in Look
      <4>1. at(g) \in Nat /\ seen[t][g] \in Look
        BY <3>1, LookTyped
      <4> HIDE DEF at
      <4> QED
        BY <4>1 DEF Look
    <3>3. looks \in [Groups -> Look]
      BY <3>2
    <3>4. seen' = [seen EXCEPT ![t] = looks]
      BY <2>8 DEF FindExpired
    <3> HIDE DEF looks
    <3>5. seen' \in [Sessions -> [Groups -> Look]]
      BY <3>1, <3>3, <3>4 DEF TypeOK
    <3>6. due' \in [Threads -> SUBSET ExceptionRow]
      BY <3>1, <2>8 DEF FindExpired, TypeOK
    <3> QED
      BY <3>5, <3>6, <2>8 DEF FindExpired, TypeOK
  <2>9. ASSUME NEW t \in Threads, Quit(t)
        PROVE  TypeOK'
    <3>1. t \in Sessions /\ Release(t)
      BY <2>9 DEF Sessions, Quit, EndOf
    <3>2. due' \in [Threads -> SUBSET ExceptionRow]
      BY <2>9 DEF Quit, EndOf, TypeOK
    <3> QED
      BY <3>1, <3>2, <2>9, ReleaseEffect DEF Quit, TypeOK
  <2>10. ASSUME NEW r \in Runs, EnqueueScan(r) \/ FailScan(r)
         PROVE  TypeOK'
    BY <2>10 DEF EnqueueScan, FailScan, TypeOK, RunStates
  <2>11. CASE NextDay
    BY <2>11 DEF NextDay, TypeOK
  <2>12. CASE UNCHANGED vars
    BY <2>12 DEF vars, TypeOK
  <2> QED
    BY <2>1, <2>2, <2>3, <2>4, <2>5, <2>6, <2>7, <2>8, <2>9, <2>10, <2>11, <2>12 DEF Next
<1> QED
  BY <1>1, <1>2, PTL DEF Spec

-----------------------------------------------------------------------------
(* What open transactions have seen.                                       *)

\* A group's status is the last of those it has had, and it has had none while
\* it is absent.
StatusIsPast ==
    \A g \in Groups : /\ status[g] \in PastOf(history[g]) \cup {Absent}
                      /\ status[g] = Absent => PastOf(history[g]) = {}

\* What a session has loaded of a group is a status the group has had, and the
\* present one if the group has not moved since.
SeenIsPast ==
    \A x \in Sessions, g \in Groups :
        /\ seen[x][g].at <= Len(history[g])
        /\ g \in Loaded(x) =>
              /\ seen[x][g].status \in PastOf(history[g]) \cup {Absent}
              /\ ~MovedSince(x, g) => seen[x][g].status = status[g]

SeenInv == StatusIsPast /\ SeenIsPast

\* A transaction that moves groups leaves every other one with an honest view.
LEMMA RecordKeepsSeen ==
    ASSUME TypeOK, SeenInv,
           NEW x \in Sessions, NEW S \in SUBSET Loaded(x), NEW to \in Status, NEW by \in Writers,
           Record(x, S, to, by), Release(x)
    PROVE  SeenInv'
<1>0. \A g \in S : Moved(g, to, by)
  BY RecordMoves
<1>1. StatusIsPast'
  <2> SUFFICES ASSUME NEW g \in Groups
               PROVE  /\ status'[g] \in PastOf(history'[g]) \cup {Absent}
                      /\ status'[g] = Absent => PastOf(history'[g]) = {}
    BY DEF StatusIsPast
  <2>1. CASE g \in S
    BY <2>1, <1>0, StatusesAreTargets DEF Moved
  <2>2. CASE g \notin S
    <3>1. status'[g] = status[g] /\ history'[g] = history[g]
      BY <2>2, RecordSpares
    <3> QED
      BY <3>1 DEF SeenInv, StatusIsPast, PastOf
  <2> QED
    BY <2>1, <2>2
<1>2. SeenIsPast'
  <2> SUFFICES ASSUME NEW y \in Sessions, NEW g \in Groups
               PROVE  /\ seen'[y][g].at <= Len(history'[g])
                      /\ g \in Loaded(y)' =>
                            /\ seen'[y][g].status \in PastOf(history'[g]) \cup {Absent}
                            /\ ~MovedSince(y, g)' => seen'[y][g].status = status'[g]
    BY DEF SeenIsPast
  <2>0. /\ Len(history'[g]) \in Nat /\ Len(history'[g]) >= Len(history[g])
        /\ g \in S => Len(history'[g]) > Len(history[g])
    <3>1. CASE g \in S
      BY <3>1, <1>0, LookTyped DEF Moved
    <3>2. CASE g \notin S
      <4>1. history'[g] = history[g]
        BY <3>2, RecordSpares
      <4> QED
        BY <3>2, <4>1, LookTyped
    <3> QED
      BY <3>1, <3>2
  <2>1. CASE y = x
    <3>1. seen'[y][g] = [status |-> Unread, run |-> NoRun, at |-> 0]
      BY <2>1, ReleaseEffect
    <3>2. seen'[y][g].status = Unread /\ seen'[y][g].at = 0
      BY <3>1
    <3> QED
      BY <2>0, <3>2 DEF Loaded
  <2>2. CASE y # x
    <3>1. seen'[y] = seen[y]
      BY <2>2, ReleaseEffect
    <3>2. Loaded(y)' = Loaded(y)
      BY <3>1 DEF Loaded
    <3>3. /\ seen[y][g].at \in Nat /\ seen[y][g].at <= Len(history[g]) /\ Len(history[g]) \in Nat
          /\ g \in Loaded(y) =>
                /\ seen[y][g].status \in PastOf(history[g]) \cup {Absent}
                /\ ~MovedSince(y, g) => seen[y][g].status = status[g]
      BY LookTyped DEF SeenInv, SeenIsPast
    <3>4. ~MovedSince(y, g)' => g \notin S /\ ~MovedSince(y, g)
      <4>1. CASE g \in S
        BY <4>1, <3>1, <3>3, <2>0 DEF MovedSince
      <4>2. CASE g \notin S
        <5>1. history'[g] = history[g]
          BY <4>2, RecordSpares
        <5> QED
          BY <4>2, <5>1, <3>1 DEF MovedSince
      <4> QED
        BY <4>1, <4>2
    <3>5. g \notin S => status'[g] = status[g]
      BY RecordSpares
    <3>6. PastOf(history[g]) \subseteq PastOf(history'[g])
      <4>1. CASE g \in S
        BY <4>1, <1>0 DEF Moved
      <4>2. CASE g \notin S
        BY <4>2, RecordSpares
      <4> QED
        BY <4>1, <4>2
    <3>7. seen'[y][g].at <= Len(history'[g])
      BY <3>1, <3>3, <2>0
    <3> QED
      BY <3>1, <3>2, <3>3, <3>4, <3>5, <3>6, <3>7
  <2> QED
    BY <2>1, <2>2
<1> QED
  BY <1>1, <1>2 DEF SeenInv

\* So does one that reads, or that ends without writing.
LEMMA QuietKeepsSeen ==
    ASSUME TypeOK, SeenInv, Quiet
    PROVE  SeenInv'
<1>1. status' = status /\ history' = history
  BY QuietLeaves
<1>2. StatusIsPast'
  BY <1>1 DEF SeenInv, StatusIsPast, PastOf
<1>3. \A y \in Sessions, g \in Groups :
         /\ seen[y][g].at \in Nat /\ seen[y][g].at <= Len(history[g]) /\ Len(history[g]) \in Nat
         /\ g \in Loaded(y) =>
               /\ seen[y][g].status \in PastOf(history[g]) \cup {Absent}
               /\ ~MovedSince(y, g) => seen[y][g].status = status[g]
  BY LookTyped DEF SeenInv, SeenIsPast
\* The view of y of g is honest if it is the old one, or just loaded, or blank.
<1>a. ASSUME NEW y \in Sessions, NEW g \in Groups,
             \/ seen'[y][g] = seen[y][g]
             \/ seen'[y][g].status = status[g] /\ seen'[y][g].at \in {seen[y][g].at, Len(history[g])}
             \/ seen'[y][g].status = Unread /\ seen'[y][g].at \in {0, Len(history[g])}
      PROVE  /\ seen'[y][g].at <= Len(history'[g])
             /\ g \in Loaded(y)' =>
                   /\ seen'[y][g].status \in PastOf(history'[g]) \cup {Absent}
                   /\ ~MovedSince(y, g)' => seen'[y][g].status = status'[g]
  <2>0. PastOf(history'[g]) = PastOf(history[g])
    BY <1>1 DEF PastOf
  <2>1. CASE seen'[y][g] = seen[y][g]
    BY <2>0, <2>1, <1>1, <1>3 DEF Loaded, MovedSince
  <2>2. CASE seen'[y][g].status = status[g] /\ seen'[y][g].at \in {seen[y][g].at, Len(history[g])}
    BY <2>0, <2>2, <1>1, <1>3 DEF SeenInv, StatusIsPast
  <2>3. CASE seen'[y][g].status = Unread /\ seen'[y][g].at \in {0, Len(history[g])}
    BY <2>3, <1>1, <1>3 DEF Loaded
  <2> QED
    BY <1>a, <2>1, <2>2, <2>3
<1>4. ASSUME NEW x \in Sessions, NEW h \in Groups, Load(x, h), NEW y \in Sessions, NEW g \in Groups
      PROVE  \/ seen'[y][g] = seen[y][g]
             \/ seen'[y][g].status = status[g] /\ seen'[y][g].at \in {seen[y][g].at, Len(history[g])}
  <2> DEFINE first == IF x \in Threads /\ due[x] # {} THEN seen[x][h].at ELSE Len(history[h])
             look == [status |-> status[h], run |-> lastSeen[h], at |-> first]
  <2>1. seen' = [seen EXCEPT ![x][h] = look]
    BY <1>4 DEF Load
  <2>2. look.status = status[h] /\ look.at = first
    OBVIOUS
  <2> HIDE DEF look
  <2>3. x = y /\ h = g => seen'[y][g] = look
    BY <2>1 DEF TypeOK
  <2>4. ~(x = y /\ h = g) => seen'[y][g] = seen[y][g]
    BY <2>1 DEF TypeOK
  <2> QED
    BY <2>2, <2>3, <2>4
<1>5. ASSUME NEW t \in Threads, FindExpired(t), NEW y \in Sessions, NEW g \in Groups
      PROVE  \/ seen'[y][g] = seen[y][g]
             \/ seen'[y][g].status = Unread /\ seen'[y][g].at \in {0, Len(history[g])}
  <2> DEFINE at(h) == IF \E e \in Expired : e.group = h THEN Len(history[h]) ELSE 0
             looks == [h \in Groups |-> [seen[t][h] EXCEPT !.at = at(h)]]
  <2>1. seen' = [seen EXCEPT ![t] = looks] /\ t \in Sessions
    BY <1>5 DEF FindExpired, Sessions
  <2>2. seen[t][g].status = Unread /\ seen[t][g] \in Look
    BY <1>5, <2>1, LookTyped DEF FindExpired, Loaded
  <2>3. looks[g].status = Unread /\ looks[g].at = at(g)
    BY <2>2 DEF Look
  <2>4. at(g) \in {0, Len(history[g])}
    OBVIOUS
  <2> HIDE DEF looks, at
  <2>5. y = t => seen'[y][g] = looks[g]
    BY <2>1 DEF TypeOK
  <2>6. y # t => seen'[y][g] = seen[y][g]
    BY <2>1 DEF TypeOK
  <2> QED
    BY <2>3, <2>4, <2>5, <2>6
<1>6. ASSUME NEW t \in Threads, Quit(t), NEW y \in Sessions, NEW g \in Groups
      PROVE  \/ seen'[y][g] = seen[y][g]
             \/ seen'[y][g].status = Unread /\ seen'[y][g].at \in {0, Len(history[g])}
  <2>1. t \in Sessions /\ Release(t)
    BY <1>6 DEF Quit, EndOf, Sessions
  <2>2. seen'[t][g].status = Unread /\ seen'[t][g].at = 0
    BY <2>1, ReleaseEffect
  <2> QED
    BY <2>1, <2>2, ReleaseEffect
<1>7. (\E r \in Runs : EnqueueScan(r) \/ FailScan(r)) \/ NextDay \/ UNCHANGED vars => seen' = seen
  BY DEF EnqueueScan, FailScan, NextDay, vars
<1>8. SeenIsPast'
  <2> SUFFICES ASSUME NEW y \in Sessions, NEW g \in Groups
               PROVE  \/ seen'[y][g] = seen[y][g]
                      \/ seen'[y][g].status = status[g] /\ seen'[y][g].at \in {seen[y][g].at, Len(history[g])}
                      \/ seen'[y][g].status = Unread /\ seen'[y][g].at \in {0, Len(history[g])}
    BY <1>a DEF SeenIsPast
  <2> QED
    BY <1>4, <1>5, <1>6, <1>7 DEF Quiet
<1> QED
  BY <1>2, <1>8 DEF SeenInv

\* Whatever overlaps, an open transaction knows of each group a status that it
\* has had, and the present one if nobody moved the group meanwhile.
LEMMA SeenStep ==
    ASSUME TypeOK, SeenInv, [Next]_vars
    PROVE  SeenInv'
<1>1. ASSUME NEW t \in Threads, NEW S \in SUBSET Groups, NEW to \in Status, NEW by \in Writers,
             Commit(t, S, to, by)
      PROVE  SeenInv'
  <2>1. t \in Sessions /\ Record(t, S, to, by) /\ Release(t) /\ S \in SUBSET Loaded(t)
    BY <1>1, CommitEffect
  <2> QED
    BY <2>1, RecordKeepsSeen
<1>2. ASSUME NEW r \in Runs, PersistScan(r)
      PROVE  SeenInv'
  BY <1>2, PersistEffect, StatusesAreTargets, RecordKeepsSeen
<1> QED
  BY <1>1, <1>2, Steps, QuietKeepsSeen

LEMMA WorkflowSeen == Spec => []SeenInv
<1>1. Init => SeenInv
  <2> SUFFICES ASSUME Init PROVE SeenInv
    OBVIOUS
  <2>1. \A g \in Groups : PastOf(history[g]) = {} /\ status[g] = Absent /\ Len(history[g]) = 0
    BY DEF Init, PastOf
  <2>2. \A x \in Sessions, g \in Groups : seen[x][g] = [status |-> Unread, run |-> NoRun, at |-> 0]
    BY DEF Init, NothingSeen
  <2>3. \A x \in Sessions, g \in Groups : seen[x][g].status = Unread /\ seen[x][g].at = 0
    BY <2>2
  <2> QED
    BY <2>1, <2>3 DEF SeenInv, StatusIsPast, SeenIsPast, Loaded
<1>2. TypeOK /\ SeenInv /\ [Next]_vars => SeenInv'
  BY SeenStep
<1> QED
  BY <1>1, <1>2, WorkflowTyped, PTL DEF Spec

-----------------------------------------------------------------------------
(* The refinement of the abstract lifecycle.                               *)

\* Groups that a session moves make the abstract move from the status it read.
LEMMA RecordImplements ==
    ASSUME TypeOK, TypeOK', SeenInv,
           NEW x \in Sessions, NEW S \in SUBSET Loaded(x), NEW to \in Status, NEW by \in Writers,
           Record(x, S, to, by),
           \A g \in S : /\ LegalMove(seen[x][g].status, to, by)
                        /\ seen[x][g].status = Absent => status[g] = Absent
    PROVE  Lifecycle!Next
<1>0. \A g \in S : g \in Groups /\ seen[x][g].status \in Status \cup {Absent}
  BY LookTyped DEF Loaded
<1>1. ASSUME NEW g \in S
      PROVE  Lifecycle!Move(g, seen[x][g].status, to, by)
  <2>0. g \in Groups /\ g \in Loaded(x)
    BY <1>0
  <2> DEFINE from == seen[x][g].status
  <2>1. Lifecycle!LegalMove(from, to, by)
    BY DEF LegalMove, Lifecycle!LegalMove, CanTransition, Lifecycle!CanTransition,
           ALLOWED_TRANSITIONS, Lifecycle!ALLOWED_TRANSITIONS, Absent, Lifecycle!Absent,
           ExceptionStatuses, Lifecycle!ExceptionStatuses
  <2>2. MovedSince(x, g) => g \in contested'
    BY <2>0 DEF Record
  <2>3. from # Absent => from \in PastOf(history[g]) /\ (~MovedSince(x, g) => from = status[g])
    BY <2>0, <1>0 DEF SeenInv, SeenIsPast
  <2>4. from = status[g] \/ (g \in contested' /\ from \in PastOf(history[g]))
    BY <2>2, <2>3
  <2>5. status'[g] = to /\ history'[g] = Append(history[g], Lifecycle!Row(from, to, by))
    BY <2>0 DEF Record, Row, Lifecycle!Row
  <2> QED
    BY <2>0, <2>1, <2>4, <2>5, PastIsPastOf DEF Lifecycle!Move
<1>2. ASSUME NEW g \in Groups \ S
      PROVE  status'[g] = status[g] /\ history'[g] = history[g] /\ (g \in contested' => g \in contested)
  BY DEF Record
<1>3. /\ status' \in [Groups -> Lifecycle!Status \cup {Lifecycle!Absent}]
      /\ history' \in [Groups -> Seq(Lifecycle!AuditRow)]
      /\ contested \subseteq contested' /\ contested' \subseteq Groups
  BY DEF TypeOK, Record, Status, Lifecycle!Status, Absent, Lifecycle!Absent,
         AuditRow, Lifecycle!AuditRow, Writers, Lifecycle!Writers
<1>4. /\ \A g \in S : seen[x][g].status \in Lifecycle!Status \cup {Lifecycle!Absent}
      /\ to \in Lifecycle!Status /\ by \in Lifecycle!Writers
  BY <1>0 DEF Status, Lifecycle!Status, Absent, Lifecycle!Absent, Writers, Lifecycle!Writers
<1>5. \A g \in Groups :
         \/ \E from \in Lifecycle!Status \cup {Lifecycle!Absent} : Lifecycle!Move(g, from, to, by)
         \/ status'[g] = status[g] /\ history'[g] = history[g] /\ (g \in contested' => g \in contested)
  BY <1>1, <1>2, <1>4
<1> QED
  BY <1>3, <1>4, <1>5 DEF Lifecycle!Next

\* FindingWorkflow implements the abstract lifecycle: however its transactions
\* overlap, each commit is a recorded move of some groups, legal from the status
\* that was read, or does not concern the lifecycle.
THEOREM WorkflowImplementsLifecycle == Spec => ImplementsLifecycle
<1>1. Init => Lifecycle!Init
  BY DEF Init, Lifecycle!Init, Absent, Lifecycle!Absent
<1>2. TypeOK /\ TypeOK' /\ SeenInv /\ [Next]_vars => [Lifecycle!Next]_(Lifecycle!vars)
  <2> SUFFICES ASSUME TypeOK, TypeOK', SeenInv, [Next]_vars
               PROVE  [Lifecycle!Next]_(Lifecycle!vars)
    OBVIOUS
  <2>1. ASSUME NEW t \in Threads, NEW S \in SUBSET Groups, NEW to \in Status, NEW by \in Writers,
               Commit(t, S, to, by)
        PROVE  Lifecycle!Next
    <3>1. t \in Sessions /\ Record(t, S, to, by) /\ S \in SUBSET Loaded(t)
      BY <2>1, CommitEffect
    <3>2. \A g \in S : seen[t][g].status \in Status /\ LegalMove(seen[t][g].status, to, by)
      BY <2>1 DEF Commit
    <3> QED
      BY <3>1, <3>2, StatusesAreTargets, RecordImplements
  <2>2. ASSUME NEW r \in Runs, PersistScan(r)
        PROVE  Lifecycle!Next
    <3>1. /\ r \in Sessions /\ Record(r, Reappeared(r), "open", "scan")
          /\ Reappeared(r) \in SUBSET Loaded(r)
          /\ \A g \in Reappeared(r) : seen[r][g].status = Absent => status[g] = Absent
      BY <2>2, PersistEffect
    <3>2. \A g \in Reappeared(r) : LegalMove(seen[r][g].status, "open", "scan")
      BY ReappearedLegal
    <3> QED
      BY <3>1, <3>2, StatusesAreTargets, RecordImplements
  <2>3. CASE Quiet
    BY <2>3, QuietLeaves DEF Lifecycle!vars
  <2> QED
    BY <2>1, <2>2, <2>3, Steps
<1> QED
  BY <1>1, <1>2, WorkflowTyped, WorkflowSeen, PTL DEF Spec, ImplementsLifecycle, Lifecycle!Spec

\* The audit trail of every group can be replayed to its present status: the
\* lifecycle's theorem, carried over by the refinement.
THEOREM WorkflowAuditReplays == Spec => []AuditReplays
<1>1. Lifecycle!Init => LifecycleThms!Init
  BY DEF Lifecycle!Init, LifecycleThms!Init, Lifecycle!Absent, LifecycleThms!Absent
<1>2. [Lifecycle!Next]_(Lifecycle!vars) => [LifecycleThms!Next]_(LifecycleThms!vars)
  BY DEF Lifecycle!Next, LifecycleThms!Next, Lifecycle!vars, LifecycleThms!vars,
         Lifecycle!Move, LifecycleThms!Move, Lifecycle!LegalMove, LifecycleThms!LegalMove,
         Lifecycle!Past, LifecycleThms!Past, Lifecycle!AuditRow, LifecycleThms!AuditRow,
         Lifecycle!CanTransition, LifecycleThms!CanTransition, Lifecycle!Row, LifecycleThms!Row,
         Lifecycle!ALLOWED_TRANSITIONS, LifecycleThms!ALLOWED_TRANSITIONS,
         Lifecycle!ExceptionStatuses, LifecycleThms!ExceptionStatuses,
         Lifecycle!Absent, LifecycleThms!Absent, Lifecycle!Status, LifecycleThms!Status,
         Lifecycle!Writers, LifecycleThms!Writers
<1>3. LifecycleThms!AuditReplays => Lifecycle!AuditReplays
  BY DEF Lifecycle!AuditReplays, LifecycleThms!AuditReplays,
         Lifecycle!Replays, LifecycleThms!Replays, Lifecycle!LegalMove, LifecycleThms!LegalMove,
         Lifecycle!CanTransition, LifecycleThms!CanTransition,
         Lifecycle!ALLOWED_TRANSITIONS, LifecycleThms!ALLOWED_TRANSITIONS,
         Lifecycle!ExceptionStatuses, LifecycleThms!ExceptionStatuses,
         Lifecycle!Absent, LifecycleThms!Absent
<1> QED
  BY <1>1, <1>2, <1>3, WorkflowImplementsLifecycle, LifecycleThms!LifecycleAuditReplays, PTL
     DEF ImplementsLifecycle, AuditReplays, Lifecycle!Spec, LifecycleThms!Spec

-----------------------------------------------------------------------------
(* The snapshots.                                                          *)

\* The snapshot in the run a group was last seen in, which has completed, tells
\* its status unless the group is torn.
Mirrored(g) ==
    IF status[g] = Absent
    THEN lastSeen[g] = NoRun
    ELSE /\ lastSeen[g] \in Runs
         /\ runs[lastSeen[g]] = "completed"
         /\ finding[g][lastSeen[g]] # Absent
         /\ g \notin torn => finding[g][lastSeen[g]] = status[g]

\* Only completed runs have snapshots, of statuses the group has had.
SnapshotsPast ==
    \A g \in Groups, r \in Runs :
        finding[g][r] # Absent => runs[r] = "completed" /\ finding[g][r] \in PastOf(history[g])

SnapshotInv == (\A g \in Groups : Mirrored(g)) /\ SnapshotsPast

LEMMA SnapshotInvMirrors == SnapshotInv => SnapshotMirrors
BY PastIsPastOf DEF SnapshotInv, Mirrored, SnapshotsPast, SnapshotMirrors

\* A session that has loaded a group with a status has loaded one that exists.
LEMMA SeenExists ==
    ASSUME SeenInv, NEW x \in Sessions, NEW g \in Loaded(x), seen[x][g].status # Absent
    PROVE  status[g] # Absent /\ seen[x][g].status \in PastOf(history[g])
BY DEF SeenInv, StatusIsPast, SeenIsPast, Loaded

\* Commits keep the snapshots in order.
LEMMA SnapshotCommit ==
    ASSUME TypeOK, SeenInv, SnapshotInv,
           NEW t \in Threads, NEW S \in SUBSET Groups, NEW to \in Status, NEW by \in Writers,
           Commit(t, S, to, by)
    PROVE  SnapshotInv'
<1>a. /\ t \in Sessions /\ Record(t, S, to, by) /\ S \in SUBSET Loaded(t)
      /\ CommitWrites(t, S, to, by)
  BY CommitEffect
<1>0. \A g \in S : Moved(g, to, by)
  BY <1>a, RecordMoves
<1>1. ASSUME NEW g \in Groups
      PROVE  /\ Mirrored(g)'
             /\ \A r \in Runs : finding'[g][r] # Absent =>
                   runs'[r] = "completed" /\ finding'[g][r] \in PastOf(history'[g])
  <2>1. CASE g \in S
    <3>1. /\ g \in Loaded(t) /\ t \in Sessions /\ seen[t][g].status \in Status
          /\ seen[t][g].run \in Runs \cup {NoRun}
      BY <2>1, <1>a, LookTyped DEF Commit
    <3>2. status[g] # Absent
      BY <3>1, SeenExists, StatusesAreTargets
    <3>3. /\ status'[g] = to /\ to # Absent /\ to \in PastOf(history'[g])
          /\ PastOf(history[g]) \subseteq PastOf(history'[g])
      BY <2>1, <1>0, StatusesAreTargets DEF Moved
    <3>4. /\ runs' = runs /\ lastSeen'[g] = lastSeen[g]
          /\ g \notin torn' => seen[t][g].run = lastSeen[g]
          /\ \A r \in Runs : finding'[g][r] = IF r = seen[t][g].run /\ finding[g][r] # Absent
                                              THEN to ELSE finding[g][r]
      BY <2>1, <1>a DEF CommitWrites, Overtaken
    <3>5. /\ lastSeen[g] \in Runs /\ runs[lastSeen[g]] = "completed"
          /\ finding[g][lastSeen[g]] # Absent
      BY <3>2 DEF SnapshotInv, Mirrored
    <3>6. Mirrored(g)'
      BY <3>3, <3>4, <3>5 DEF Mirrored
    <3>7. \A r \in Runs : finding'[g][r] # Absent =>
             runs'[r] = "completed" /\ finding'[g][r] \in PastOf(history'[g])
      BY <3>3, <3>4 DEF SnapshotInv, SnapshotsPast
    <3> QED
      BY <3>6, <3>7
  <2>2. CASE g \notin S
    <3>1. status'[g] = status[g] /\ history'[g] = history[g]
      BY <2>2, <1>a, RecordSpares
    <3>2. /\ runs' = runs /\ lastSeen'[g] = lastSeen[g] /\ (g \in torn' <=> g \in torn)
          /\ \A r \in Runs : finding'[g][r] = finding[g][r]
      BY <2>2, <1>a DEF CommitWrites
    <3> QED
      BY <3>1, <3>2 DEF SnapshotInv, Mirrored, SnapshotsPast
  <2> QED
    BY <2>1, <2>2
<1> QED
  BY <1>1 DEF SnapshotInv, SnapshotsPast

\* So do the ends of scans.
LEMMA SnapshotPersist ==
    ASSUME TypeOK, SeenInv, SnapshotInv, NEW r \in Runs, PersistScan(r)
    PROVE  SnapshotInv'
<1>0. \A g \in Reappeared(r) : Moved(g, "open", "scan")
  BY PersistEffect, RecordMoves, StatusesAreTargets
<1>1. ASSUME NEW g \in Groups
      PROVE  /\ Mirrored(g)'
             /\ \A q \in Runs : finding'[g][q] # Absent =>
                   runs'[q] = "completed" /\ finding'[g][q] \in PastOf(history'[g])
  <2>a. /\ r \in Sessions /\ \A q \in Runs : runs'[q] = IF q = r THEN "completed" ELSE runs[q]
        /\ runs[r] = "running"
    BY PersistEffect
  <2>1. CASE g \in Loaded(r)
    <3>1. /\ lastSeen'[g] = r /\ runs'[r] = "completed"
          /\ \A q \in Runs : finding'[g][q] = IF q = r
                                THEN IF g \in Reappeared(r) THEN "open" ELSE seen[r][g].status
                                ELSE finding[g][q]
      BY <2>1, PersistEffect
    <3>2. CASE g \in Reappeared(r)
      <4>1. /\ status'[g] = "open" /\ "open" # Absent /\ "open" \in PastOf(history'[g])
            /\ PastOf(history[g]) \subseteq PastOf(history'[g])
        BY <3>2, <1>0, StatusesAreTargets DEF Moved
      <4>2. Mirrored(g)'
        BY <4>1, <3>1, <3>2 DEF Mirrored
      <4>3. \A q \in Runs : finding'[g][q] # Absent =>
               runs'[q] = "completed" /\ finding'[g][q] \in PastOf(history'[g])
        BY <4>1, <3>1, <3>2, <2>a DEF SnapshotInv, SnapshotsPast
      <4> QED
        BY <4>2, <4>3
    <3>3. CASE g \notin Reappeared(r)
      <4>1. status'[g] = status[g] /\ history'[g] = history[g]
        BY <3>3, PersistEffect, RecordSpares
      <4>2. seen[r][g].status # Absent
        BY <3>3 DEF Reappeared
      <4>3. status[g] # Absent /\ seen[r][g].status \in PastOf(history[g])
        BY <2>1, <2>a, <4>2, SeenExists
      <4>4. g \notin torn' => seen[r][g].status = status[g]
        BY <2>1, <2>a, PersistEffect DEF Overtaken, SeenInv, SeenIsPast
      <4>5. Mirrored(g)'
        BY <4>1, <4>2, <4>3, <4>4, <3>1, <3>3 DEF Mirrored
      <4>6. \A q \in Runs : finding'[g][q] # Absent =>
               runs'[q] = "completed" /\ finding'[g][q] \in PastOf(history'[g])
        BY <4>1, <4>3, <3>1, <3>3, <2>a DEF SnapshotInv, SnapshotsPast
      <4> QED
        BY <4>5, <4>6
    <3> QED
      BY <3>2, <3>3
  <2>2. CASE g \notin Loaded(r)
    <3>1. g \notin Reappeared(r)
      BY <2>2, PersistEffect
    <3>2. status'[g] = status[g] /\ history'[g] = history[g]
      BY <3>1, PersistEffect, RecordSpares
    <3>3. /\ lastSeen'[g] = lastSeen[g] /\ (g \in torn' <=> g \in torn)
          /\ \A q \in Runs : finding'[g][q] = finding[g][q]
      BY <2>2, PersistEffect
    <3> QED
      BY <3>2, <3>3, <2>a DEF SnapshotInv, Mirrored, SnapshotsPast
  <2> QED
    BY <2>1, <2>2
<1> QED
  BY <1>1 DEF SnapshotInv, SnapshotsPast

\* No other step takes a run back that has completed.
LEMMA QuietKeepsRuns ==
    ASSUME TypeOK, Quiet, NEW r \in Runs, runs[r] = "completed"
    PROVE  runs'[r] = "completed"
BY DEF Quiet, Load, FindExpired, Quit, EnqueueScan, FailScan, NextDay, vars, TypeOK

LEMMA SnapshotStep ==
    ASSUME TypeOK, SeenInv, SnapshotInv, [Next]_vars
    PROVE  SnapshotInv'
<1>1. ASSUME Quiet PROVE SnapshotInv'
  <2>1. UNCHANGED <<status, lastSeen, history, finding, torn>>
    BY <1>1, QuietLeaves
  <2>2. \A r \in Runs : runs[r] = "completed" => runs'[r] = "completed"
    BY <1>1, QuietKeepsRuns
  <2> QED
    BY <2>1, <2>2 DEF SnapshotInv, Mirrored, SnapshotsPast, PastOf
<1> QED
  BY <1>1, Steps, SnapshotCommit, SnapshotPersist

LEMMA WorkflowSnapshots == Spec => []SnapshotInv
<1>1. Init => SnapshotInv
  BY DEF Init, SnapshotInv, Mirrored, SnapshotsPast
<1>2. TypeOK /\ SeenInv /\ SnapshotInv /\ [Next]_vars => SnapshotInv'
  BY SnapshotStep
<1> QED
  BY <1>1, <1>2, WorkflowTyped, WorkflowSeen, PTL DEF Spec

\* The snapshot of a group in the run it was last seen in carries the group's
\* status, however scans, moves and sweeps overlap, unless the group's newest
\* writer overlooked another; and no snapshot shows a status never held.
THEOREM WorkflowSnapshotMirrors == Spec => []SnapshotMirrors
BY WorkflowSnapshots, SnapshotInvMirrors, PTL

\* The snapshot of a run that is no longer a group's last one is rewritten only
\* by the request that the scan which re-dated the group overtook.
THEOREM WorkflowPastFrozen == Spec => PastSnapshotsFrozen
<1>1. TypeOK /\ SnapshotInv /\ [Next]_vars => PastFrozen
  <2> SUFFICES ASSUME TypeOK, SnapshotInv, [Next]_vars,
                      NEW g \in Groups, NEW r \in Runs,
                      finding[g][r] # Absent, r # lastSeen[g], g \notin torn'
               PROVE  finding'[g][r] = finding[g][r]
    BY DEF PastFrozen
  <2>1. ASSUME NEW t \in Threads, NEW S \in SUBSET Groups, NEW to \in Status, NEW by \in Writers,
               Commit(t, S, to, by)
        PROVE  finding'[g][r] = finding[g][r]
    <3>1. CommitWrites(t, S, to, by)
      BY <2>1, CommitEffect
    <3> QED
      BY <3>1 DEF CommitWrites, Overtaken
  <2>2. ASSUME NEW q \in Runs, PersistScan(q)
        PROVE  finding'[g][r] = finding[g][r]
    BY <2>2, PersistEffect DEF SnapshotInv, SnapshotsPast
  <2>3. CASE Quiet
    BY <2>3, QuietLeaves
  <2> QED
    BY <2>1, <2>2, <2>3, Steps
<1>2. TypeOK /\ SnapshotInv /\ [Next]_vars => [PastFrozen]_vars
  BY <1>1
<1> QED
  BY <1>2, WorkflowTyped, WorkflowSnapshots, PTL DEF Spec, PastSnapshotsFrozen

-----------------------------------------------------------------------------
(* Exceptions, when no request takes an irregular path.                    *)

\* A group has one exception while its status says so, and none otherwise.
Matched(g) ==
    IF status[g] \in ExceptionStatuses
    THEN \E e \in active : Explains(e, g) /\ ActiveOf(g) = {e}
    ELSE ActiveOf(g) = {}

\* An exception was written with an audit row that is there.
RowsPast == \A e \in active : e.at <= Len(history[e.group])

\* What a sweep has found had come to its date and was written before the sweep
\* looked; it is active still unless its group has moved.
DueFound ==
    \A t \in Threads : \A d \in due[t] :
        /\ d.at <= seen[t][d.group].at
        /\ d.expires # NoExpiry /\ d.expires <= day
        /\ d.group \notin contested /\ ~MovedSince(t, d.group) => d \in active

\* A sweep loads no group but those of the rows it has found.
SweepScope ==
    \A t \in Threads : due[t] # {} => \A g \in Loaded(t) : \E d \in due[t] : d.group = g

ExceptionInv ==
    RowsPast /\ DueFound /\ SweepScope /\ \A g \in Groups \ contested : Matched(g)

LEMMA ExceptionInvMatches == ExceptionInv => ExceptionMatchesStatus
BY DEF ExceptionInv, Matched, ExceptionMatchesStatus

\* A commit that moves S closes and adds rows of the groups it moves only, keeps
\* them matched, and reopens none on behalf of expiry before its date.
ExceptionsKept(S, by) ==
    /\ \A e \in active' \ active : e.group \in S /\ e.at <= Len(history'[e.group])
    /\ \A e \in active \ active' : e.group \in S \cup contested'
    /\ \A g \in S \ contested' : Matched(g)'
    /\ by = "expiry" =>
          \A g \in S \ contested' : \E e \in active : Explains(e, g) /\ e.expires \in 1 .. day

\* A group that a commit moves without contesting it has the status that was
\* read and the exceptions that belong to it.
LEMMA MovedUncontested ==
    ASSUME TypeOK, SeenInv, ExceptionInv,
           NEW t \in Threads, NEW S \in SUBSET Groups, NEW to \in Status, NEW by \in Writers,
           Commit(t, S, to, by), NEW g \in S, g \notin contested'
    PROVE  /\ g \in Groups /\ g \notin contested /\ ~MovedSince(t, g)
           /\ seen[t][g].status = status[g] /\ Matched(g)
           /\ status'[g] = to /\ Len(history'[g]) = Len(history[g]) + 1
<1>1. t \in Sessions /\ Record(t, S, to, by) /\ S \in SUBSET Loaded(t)
  BY CommitEffect
<1>2. Moved(g, to, by)
  BY <1>1, RecordMoves
<1>3. g \notin contested /\ ~MovedSince(t, g)
  BY <1>1 DEF Record
<1> QED
  BY <1>1, <1>2, <1>3 DEF Moved, SeenInv, SeenIsPast, ExceptionInv

\* A row that a sweep has found and that is active explains its group: the sweep
\* moves the group, unless it is contested.
LEMMA FoundIsSwept ==
    ASSUME TypeOK, SeenInv, ExceptionInv, NEW t \in Threads, NEW d \in due[t], AllRead(t),
           d \in active, d.group \notin contested
    PROVE  d.group \in Swept(t)
<1> DEFINE g == d.group
<1>1. g \in Groups /\ t \in Sessions /\ g \in Loaded(t) /\ d.at \in Nat
  BY DEF TypeOK, ExceptionRow, Sessions, AllRead
<1>2. Matched(g) /\ d \in ActiveOf(g)
  BY <1>1 DEF ExceptionInv, ActiveOf
<1>3. status[g] \in ExceptionStatuses /\ d.at = Len(history[g])
  BY <1>2 DEF Matched, Explains
<1>4. d.at <= seen[t][g].at
  BY DEF ExceptionInv, DueFound
<1>5. seen[t][g].at <= Len(history[g]) /\ (~MovedSince(t, g) => seen[t][g].status = status[g])
  BY <1>1 DEF SeenInv, SeenIsPast
<1>6. seen[t][g].at \in Nat /\ Len(history[g]) \in Nat
  BY <1>1, LookTyped
<1>7. ~MovedSince(t, g)
  BY <1>3, <1>4, <1>5, <1>6 DEF MovedSince
<1> QED
  BY <1>1, <1>3, <1>5, <1>7 DEF Swept

\* The five commits keep the exceptions.
LEMMA UserMoveKeeps ==
    ASSUME TypeOK, SeenInv, ExceptionInv,
           NEW t \in Threads, NEW S \in SUBSET Groups, NEW to \in Status \ ExceptionStatuses,
           Commit(t, S, to, "user"), active' = active,
           \A g \in S : seen[t][g].status \notin ExceptionStatuses
    PROVE  ExceptionsKept(S, "user")
<1>1. ASSUME NEW g \in S, g \notin contested' PROVE Matched(g)'
  <2>1. Matched(g) /\ seen[t][g].status = status[g] /\ status'[g] = to
    BY <1>1, MovedUncontested, StatusesAreTargets
  <2> QED
    BY <2>1 DEF Matched, ActiveOf
<1> QED
  BY <1>1 DEF ExceptionsKept

LEMMA RevokeKeeps ==
    ASSUME TypeOK, SeenInv, ExceptionInv, IrregularPaths = {},
           NEW t \in Threads, NEW g \in Groups, RevokeException(t, g)
    PROVE  ExceptionsKept({g}, "user")
<1>1. Commit(t, {g}, "open", "user") /\ active' \subseteq active /\ \A e \in active \ active' : e.group = g
  BY RevokeCommits
<1>2. ASSUME g \notin contested' PROVE Matched(g)'
  <2>1. Matched(g) /\ seen[t][g].status = status[g] /\ status'[g] = "open"
    BY <1>1, <1>2, MovedUncontested, StatusesAreTargets
  <2>2. seen[t][g].status \in ExceptionStatuses
    BY DEF RevokeException
  <2>3. \E e \in active : ActiveOf(g) = {e}
    BY <2>1, <2>2 DEF Matched
  <2>4. \E e \in ActiveOf(g) : active' = active \ {e}
    BY <2>3, <1>2 DEF RevokeException
  <2>5. ActiveOf(g)' = {}
    BY <2>3, <2>4 DEF ActiveOf
  <2>6. status'[g] \notin ExceptionStatuses
    BY <2>1 DEF ExceptionStatuses
  <2> QED
    BY <2>5, <2>6 DEF Matched
<1> QED
  BY <1>1, <1>2 DEF ExceptionsKept

LEMMA CreateKeeps ==
    ASSUME TypeOK, SeenInv, ExceptionInv,
           NEW t \in Threads, NEW kind \in ExceptionStatuses, NEW expires \in Days \cup {NoExpiry},
           CreateException(t, kind, expires)
    PROVE  ExceptionsKept(Movable(t, kind), "user")
<1> DEFINE S == Movable(t, kind)
           row(g) == [group |-> g, kind |-> kind, expires |-> expires, at |-> Len(history[g]) + 1]
<1>1. Commit(t, S, kind, "user") /\ S \in SUBSET Groups /\ kind \in Status
  BY CreateCommits, StatusesAreTargets
<1>2. active' = active \cup {row(g) : g \in S}
  BY CreateCommits
<1>3. \A g \in S : Len(history'[g]) = Len(history[g]) + 1 /\ Len(history[g]) \in Nat
  <2>1. t \in Sessions /\ Record(t, S, kind, "user") /\ S \in SUBSET Loaded(t)
    BY <1>1, CommitEffect, StatusesAreTargets
  <2>2. \A g \in S : Moved(g, kind, "user")
    BY <1>1, <2>1, RecordMoves, StatusesAreTargets
  <2> QED
    BY <1>1, <2>2 DEF Moved, TypeOK
<1>4. \A g \in S : row(g).group = g /\ row(g).kind = kind /\ row(g).at = Len(history[g]) + 1
  OBVIOUS
<1>5. \A e \in active' \ active : e.group \in S /\ e.at <= Len(history'[e.group])
  <2> SUFFICES ASSUME NEW e \in active' \ active PROVE e.group \in S /\ e.at <= Len(history'[e.group])
    OBVIOUS
  <2>1. PICK g \in S : e = row(g)
    BY <1>2
  <2> HIDE DEF row
  <2> QED
    BY <2>1, <1>3, <1>4
<1>6. ASSUME NEW g \in S, g \notin contested' PROVE Matched(g)'
  <2>1. Matched(g) /\ seen[t][g].status = status[g] /\ status'[g] = kind
    BY <1>1, <1>6, MovedUncontested, StatusesAreTargets
  <2>2. status[g] \notin ExceptionStatuses
    BY <2>1 DEF Movable, CanTransition, ALLOWED_TRANSITIONS, ExceptionStatuses
  <2>3. ActiveOf(g) = {}
    BY <2>1, <2>2 DEF Matched
  <2> HIDE DEF row, S
  <2>4. PICK e : e = row(g)
    OBVIOUS
  <2>5. ActiveOf(g)' = {e} /\ e \in active'
    BY <2>3, <2>4, <1>2, <1>4, <1>6 DEF ActiveOf
  <2>6. e.group = g /\ e.kind = status'[g] /\ e.at = Len(history'[g])
    BY <2>1, <2>4, <1>3, <1>4, <1>6
  <2> QED
    BY <2>1, <2>5, <2>6 DEF Matched, Explains
<1> HIDE DEF row, S
<1>7. \A e \in active \ active' : e.group \in S \cup contested'
  BY <1>2
<1> QED
  BY <1>5, <1>6, <1>7 DEF ExceptionsKept, S

LEMMA ExpireKeeps ==
    ASSUME TypeOK, SeenInv, ExceptionInv, NEW t \in Threads, ExpireExceptions(t)
    PROVE  ExceptionsKept(Swept(t), "expiry")
<1> DEFINE S == Swept(t)
<1>1. S \in SUBSET Groups /\ Commit(t, S, "open", "expiry") /\ active' = active \ due[t]
  BY ExpireCommits
<1>2. due[t] # {} /\ AllRead(t) /\ t \in Sessions
  BY DEF ExpireExceptions, Sessions
<1>3. contested \subseteq contested'
  BY <1>1, CommitEffect, StatusesAreTargets DEF Record
<1>4. \A e \in active \ active' : e.group \in S \cup contested'
  BY <1>1, <1>2, <1>3, FoundIsSwept
\* The exception of a group that the sweep moves is one it has found.
<1>5. ASSUME NEW g \in S, g \notin contested'
      PROVE  /\ status'[g] = "open"
             /\ \E d \in due[t] : d \in active /\ Explains(d, g) /\ ActiveOf(g) = {d}
  <2>1. /\ g \in Groups /\ g \notin contested /\ ~MovedSince(t, g) /\ Matched(g)
        /\ seen[t][g].status = status[g] /\ status'[g] = "open"
    BY <1>1, <1>5, MovedUncontested, StatusesAreTargets
  <2>2. g \in Loaded(t) /\ status[g] \in ExceptionStatuses
    BY <2>1, SweptLegal
  <2>3. PICK d \in due[t] : d.group = g
    BY <1>2, <2>2 DEF ExceptionInv, SweepScope
  <2>4. d \in active /\ d \in ActiveOf(g)
    BY <2>1, <2>3 DEF ExceptionInv, DueFound, ActiveOf
  <2>5. Explains(d, g) /\ ActiveOf(g) = {d}
    BY <2>1, <2>2, <2>4 DEF Matched
  <2> QED
    BY <2>1, <2>4, <2>5
<1> HIDE DEF S
<1>6. ASSUME NEW g \in S, g \notin contested' PROVE Matched(g)'
  <2>1. ActiveOf(g)' = {}
    BY <1>1, <1>5, <1>6 DEF ActiveOf
  <2>2. status'[g] \notin ExceptionStatuses
    BY <1>5, <1>6 DEF ExceptionStatuses
  <2> QED
    BY <2>1, <2>2 DEF Matched
<1>7. ASSUME NEW g \in S, g \notin contested'
      PROVE  \E e \in active : Explains(e, g) /\ e.expires \in 1 .. day
  <2>1. PICK d \in due[t] : d \in active /\ Explains(d, g)
    BY <1>5, <1>7
  <2>2. d.expires # NoExpiry /\ d.expires <= day
    BY DEF ExceptionInv, DueFound
  <2>3. d.expires \in Days \cup {NoExpiry} /\ day \in Nat
    BY DEF TypeOK, ExceptionRow
  <2>4. d.expires \in 1 .. day
    BY <2>2, <2>3, FindingWorkflowAssumption DEF Days, FindingWorkflowAssumption
  <2> QED
    BY <2>1, <2>4
<1>8. \A e \in active' : e \in active
  BY <1>1
<1> QED
  BY <1>4, <1>6, <1>7, <1>8 DEF ExceptionsKept, S

\* A step that takes no irregular path is a commit that keeps the exceptions, the
\* end of a scan, or quiet.
LEMMA RegularSteps ==
    ASSUME TypeOK, SeenInv, ExceptionInv, [Next]_vars, IrregularPaths = {}
    PROVE  \/ \E t \in Threads, S \in SUBSET Groups, to \in Status, by \in Writers :
                 Commit(t, S, to, by) /\ ExceptionsKept(S, by)
           \/ \E r \in Runs : PersistScan(r)
           \/ Quiet
<1> DEFINE Keeps == \E t \in Threads, S \in SUBSET Groups, to \in Status, by \in Writers :
                       Commit(t, S, to, by) /\ ExceptionsKept(S, by)
<1> USE StatusesAreTargets
<1>1. ASSUME NEW t \in Threads, NEW g \in Groups, NEW to \in Status, FindingTransition(t, g, to)
      PROVE  Keeps
  <2>1. Commit(t, {g}, to, "user") /\ {g} \in SUBSET Groups /\ active' = active
    BY <1>1, TransitionCommits
  <2>2. to \in Status \ ExceptionStatuses /\ seen[t][g].status \notin ExceptionStatuses
    BY <1>1 DEF FindingTransition
  <2> QED
    BY <2>1, <2>2, UserMoveKeeps
<1>2. ASSUME NEW t \in Threads, NEW g \in Groups, RevokeException(t, g)
      PROVE  Keeps
  <2>1. Commit(t, {g}, "open", "user") /\ {g} \in SUBSET Groups
    BY <1>2, RevokeCommits
  <2> QED
    BY <1>2, <2>1, RevokeKeeps
<1>3. ASSUME NEW t \in Threads, NEW kind \in ExceptionStatuses, NEW expires \in Days \cup {NoExpiry},
             CreateException(t, kind, expires)
      PROVE  Keeps
  BY <1>3, CreateCommits, CreateKeeps
<1>4. ASSUME NEW t \in Threads, NEW to \in Status, BulkTransition(t, to)
      PROVE  Keeps
  <2>1. /\ Movable(t, to) \in SUBSET Groups
        /\ Commit(t, Movable(t, to), to, "user") /\ active' = active
    BY <1>4, BulkCommits
  <2>2. /\ to \in Status \ ExceptionStatuses
        /\ \A g \in Movable(t, to) : seen[t][g].status \notin ExceptionStatuses
    BY <1>4 DEF BulkTransition
  <2> QED
    BY <2>1, <2>2, UserMoveKeeps
<1>5. ASSUME NEW t \in Threads, ExpireExceptions(t)
      PROVE  Keeps
  BY <1>5, ExpireCommits, ExpireKeeps
<1> QED
  BY <1>1, <1>2, <1>3, <1>4, <1>5 DEF Next, Quiet

\* What is found by a sweep that others overlap with stays found.
LEMMA DueKept ==
    ASSUME TypeOK, SeenInv, ExceptionInv,
           NEW t \in Threads, NEW S \in SUBSET Groups, NEW to \in Status, NEW by \in Writers,
           Commit(t, S, to, by), ExceptionsKept(S, by)
    PROVE  DueFound' /\ SweepScope'
<1>1. /\ t \in Sessions /\ Record(t, S, to, by) /\ Release(t) /\ S \in SUBSET Loaded(t)
      /\ CommitWrites(t, S, to, by)
  BY CommitEffect
<1>2. \A g \in S : Moved(g, to, by)
  BY <1>1, RecordMoves
<1>3. /\ day' = day /\ due'[t] = {} /\ contested \subseteq contested'
      /\ \A u \in Threads \ {t} : u \in Sessions /\ due'[u] = due[u] /\ seen'[u] = seen[u]
  BY <1>1, ReleaseEffect DEF CommitWrites, Record, Sessions
<1>4. ASSUME NEW u \in Threads, NEW d \in due'[u]
      PROVE  /\ d.at <= seen'[u][d.group].at
             /\ d.expires # NoExpiry /\ d.expires <= day'
             /\ d.group \notin contested' /\ ~MovedSince(u, d.group)' => d \in active'
  <2> DEFINE g == d.group
  <2>1. u # t /\ u \in Sessions /\ d \in due[u] /\ seen'[u] = seen[u]
    BY <1>3, <1>4
  <2>2. /\ d.at <= seen[u][g].at /\ d.expires # NoExpiry /\ d.expires <= day
        /\ g \notin contested /\ ~MovedSince(u, g) => d \in active
    BY <2>1 DEF ExceptionInv, DueFound
  <2>3. g \in Groups
    BY <2>1 DEF TypeOK, ExceptionRow
  <2>4. seen[u][g].at <= Len(history[g]) /\ seen[u][g].at \in Nat /\ Len(history[g]) \in Nat
    BY <2>1, <2>3, LookTyped DEF SeenInv, SeenIsPast
  <2>5. ASSUME g \notin contested', ~MovedSince(u, g)' PROVE d \in active'
    <3>1. seen[u][g].at = Len(history'[g])
      BY <2>1, <2>5 DEF MovedSince
    <3>2. g \notin S
      <4> SUFFICES ASSUME g \in S PROVE FALSE
        OBVIOUS
      <4>1. Len(history'[g]) = Len(history[g]) + 1
        BY <1>2 DEF Moved
      <4> QED
        BY <4>1, <2>4, <3>1
    <3>3. history'[g] = history[g]
      BY <3>2, <2>3, <1>1, RecordSpares
    <3>4. d \in active
      BY <3>1, <3>3, <2>2, <2>5, <1>3 DEF MovedSince
    <3> QED
      BY <3>2, <3>4, <2>5 DEF ExceptionsKept
  <2> QED
    BY <2>1, <2>2, <2>5, <1>3
<1>5. ASSUME NEW u \in Threads, due'[u] # {}, NEW g \in Loaded(u)'
      PROVE  \E d \in due'[u] : d.group = g
  <2>1. u # t /\ due'[u] = due[u] /\ seen'[u] = seen[u]
    BY <1>3, <1>5
  <2>2. g \in Loaded(u)
    BY <2>1 DEF Loaded
  <2> QED
    BY <2>1, <2>2, <1>5 DEF ExceptionInv, SweepScope
<1> QED
  BY <1>4, <1>5 DEF DueFound, SweepScope

LEMMA CommitExceptions ==
    ASSUME TypeOK, SeenInv, ExceptionInv,
           NEW t \in Threads, NEW S \in SUBSET Groups, NEW to \in Status, NEW by \in Writers,
           Commit(t, S, to, by), ExceptionsKept(S, by)
    PROVE  ExceptionInv'
<1>1. t \in Sessions /\ Record(t, S, to, by) /\ S \in SUBSET Loaded(t)
  BY CommitEffect
<1>2. \A g \in S : Moved(g, to, by)
  BY <1>1, RecordMoves
<1>3. RowsPast'
  <2> SUFFICES ASSUME NEW e \in active' PROVE e.at <= Len(history'[e.group])
    BY DEF RowsPast
  <2>1. CASE e \notin active
    BY <2>1 DEF ExceptionsKept
  <2>2. CASE e \in active
    <3>1. e.group \in Groups /\ e.at \in Nat /\ e.at <= Len(history[e.group])
      BY <2>2 DEF TypeOK, ExceptionRow, ExceptionInv, RowsPast
    <3>2. Len(history[e.group]) \in Nat
      BY <3>1 DEF TypeOK
    <3>3. e.group \in S => Len(history'[e.group]) = Len(history[e.group]) + 1
      BY <1>2 DEF Moved
    <3>4. e.group \notin S => history'[e.group] = history[e.group]
      BY <3>1, <1>1, RecordSpares
    <3> QED
      BY <3>1, <3>2, <3>3, <3>4
  <2> QED
    BY <2>1, <2>2
<1>4. ASSUME NEW g \in Groups, g \notin contested' PROVE Matched(g)'
  <2>1. CASE g \in S
    BY <2>1, <1>4 DEF ExceptionsKept
  <2>2. CASE g \notin S
    <3>1. status'[g] = status[g] /\ history'[g] = history[g] /\ g \notin contested
      BY <2>2, <1>1, <1>4, RecordSpares
    <3>2. ActiveOf(g)' = ActiveOf(g)
      BY <2>2, <1>4 DEF ActiveOf, ExceptionsKept
    <3>3. Matched(g)
      BY <3>1 DEF ExceptionInv
    <3> QED
      BY <3>1, <3>2, <3>3 DEF Matched, Explains, ActiveOf
  <2> QED
    BY <2>1, <2>2
<1> QED
  BY <1>3, <1>4, DueKept DEF ExceptionInv

\* The end of a scan keeps them too: it moves no group out of an exception.
LEMMA PersistExceptions ==
    ASSUME TypeOK, SeenInv, ExceptionInv, NEW r \in Runs, PersistScan(r)
    PROVE  ExceptionInv'
<1> DEFINE S == Reappeared(r)
<1>1. /\ r \in Sessions /\ Record(r, S, "open", "scan") /\ Release(r) /\ S \in SUBSET Loaded(r)
      /\ active' = active /\ due' = due /\ day' = day
  BY PersistEffect
<1>2. \A g \in S : Moved(g, "open", "scan")
  BY <1>1, RecordMoves, StatusesAreTargets
<1>3. \A g \in S : g \notin contested' => /\ g \notin contested /\ ~MovedSince(r, g)
                                          /\ seen[r][g].status = status[g]
                                          /\ status[g] \notin ExceptionStatuses
  <2> SUFFICES ASSUME NEW g \in S, g \notin contested'
               PROVE  /\ g \notin contested /\ ~MovedSince(r, g)
                      /\ seen[r][g].status = status[g] /\ status[g] \notin ExceptionStatuses
    OBVIOUS
  <2>1. g \notin contested /\ ~MovedSince(r, g)
    BY <1>1 DEF Record
  <2>2. seen[r][g].status = status[g]
    BY <2>1, <1>1, ReappearedLegal DEF SeenInv, SeenIsPast
  <2>3. seen[r][g].status \notin ExceptionStatuses
    BY DEF Reappeared, ExceptionStatuses, Absent
  <2> QED
    BY <2>1, <2>2, <2>3
<1>4. \A g \in Groups \ S : status'[g] = status[g] /\ history'[g] = history[g]
                            /\ (g \in contested' <=> g \in contested)
  BY <1>1, RecordSpares
<1>5. \A g \in Groups : /\ Len(history[g]) \in Nat
                        /\ g \in S => Len(history'[g]) = Len(history[g]) + 1
  BY <1>2 DEF Moved, TypeOK
<1> HIDE DEF S
<1>6. RowsPast'
  <2> SUFFICES ASSUME NEW e \in active PROVE e.at <= Len(history'[e.group])
    BY <1>1 DEF RowsPast
  <2>1. e.group \in Groups /\ e.at \in Nat /\ e.at <= Len(history[e.group])
    BY DEF TypeOK, ExceptionRow, ExceptionInv, RowsPast
  <2> QED
    BY <2>1, <1>4, <1>5
<1>7. ASSUME NEW g \in Groups, g \notin contested' PROVE Matched(g)'
  <2>1. CASE g \in S
    <3>1. Matched(g) /\ status[g] \notin ExceptionStatuses
      BY <2>1, <1>3, <1>7 DEF ExceptionInv
    <3>2. status'[g] \notin ExceptionStatuses
      BY <2>1, <1>2 DEF Moved, ExceptionStatuses
    <3> QED
      BY <3>1, <3>2, <1>1 DEF Matched, ActiveOf
  <2>2. CASE g \notin S
    BY <2>2, <1>1, <1>4, <1>7 DEF ExceptionInv, Matched, Explains, ActiveOf
  <2> QED
    BY <2>1, <2>2
<1>8. \A u \in Threads : u # r /\ u \in Sessions /\ seen'[u] = seen[u]
  BY <1>1, ReleaseEffect, FindingWorkflowAssumption DEF FindingWorkflowAssumption, Sessions
<1>9. DueFound'
  <2> SUFFICES ASSUME NEW u \in Threads, NEW d \in due[u]
               PROVE  /\ d.at <= seen[u][d.group].at
                      /\ d.expires # NoExpiry /\ d.expires <= day
                      /\ d.group \notin contested' /\ seen[u][d.group].at = Len(history'[d.group])
                            => d \in active
    BY <1>1, <1>8 DEF DueFound, MovedSince
  <2> DEFINE g == d.group
  <2>1. /\ d.at <= seen[u][g].at /\ d.expires # NoExpiry /\ d.expires <= day
        /\ g \notin contested /\ ~MovedSince(u, g) => d \in active
    BY DEF ExceptionInv, DueFound
  <2>2. g \in Groups
    BY DEF TypeOK, ExceptionRow
  <2>3. seen[u][g].at <= Len(history[g]) /\ seen[u][g].at \in Nat
    BY <1>8, <2>2, LookTyped DEF SeenInv, SeenIsPast
  <2>4. seen[u][g].at = Len(history'[g]) => g \notin S
    BY <2>2, <2>3, <1>5
  <2> QED
    BY <2>1, <2>2, <2>4, <1>4 DEF MovedSince
<1>10. SweepScope'
  <2> SUFFICES ASSUME NEW u \in Threads, due[u] # {}, NEW g \in Loaded(u)'
               PROVE  \E d \in due[u] : d.group = g
    BY <1>1 DEF SweepScope
  <2>1. g \in Loaded(u)
    BY <1>8 DEF Loaded
  <2> QED
    BY <2>1 DEF ExceptionInv, SweepScope
<1> QED
  BY <1>6, <1>7, <1>9, <1>10 DEF ExceptionInv

\* Reading changes nothing of this, and neither does the passing of a day.
LEMMA QuietExceptions ==
    ASSUME TypeOK, ExceptionInv, Quiet
    PROVE  ExceptionInv'
<1>1. status' = status /\ history' = history /\ active' = active /\ contested' = contested
  BY QuietLeaves
<1>2. RowsPast' /\ \A g \in Groups \ contested' : Matched(g)'
  BY <1>1 DEF ExceptionInv, RowsPast, Matched, ActiveOf, Explains
<1>3. day \in Nat /\ day' \in Nat /\ day <= day'
  BY DEF Quiet, Load, FindExpired, Quit, EnqueueScan, FailScan, NextDay, vars, TypeOK
\* It suffices that the sweep of each thread is as it was, or has just begun, or
\* is over, or has loaded one more group of its own.
<1>a. ASSUME NEW u \in Threads,
             \/ due'[u] = due[u] /\ seen'[u] = seen[u]
             \/ due'[u] = Expired /\ Loaded(u)' = {}
                /\ \A e \in Expired : seen'[u][e.group].at = Len(history[e.group])
             \/ due'[u] = {}
             \/ /\ due'[u] = due[u]
                /\ \A g \in Groups : seen'[u][g].at = seen[u][g].at
                /\ \A g \in Loaded(u)' : g \in Loaded(u) \/ \E d \in due[u] : d.group = g
      PROVE  /\ \A d \in due'[u] :
                   /\ d.at <= seen'[u][d.group].at
                   /\ d.expires # NoExpiry /\ d.expires <= day'
                   /\ d.group \notin contested' /\ ~MovedSince(u, d.group)' => d \in active'
             /\ due'[u] # {} => \A g \in Loaded(u)' : \E d \in due'[u] : d.group = g
  <2>0. \A d \in due[u] : d.group \in Groups /\ d.expires \in Nat
    BY FindingWorkflowAssumption DEF FindingWorkflowAssumption, TypeOK, ExceptionRow, Days, NoExpiry
  <2>1. CASE due'[u] = due[u] /\ seen'[u] = seen[u]
    BY <2>0, <2>1, <1>1, <1>3 DEF ExceptionInv, DueFound, SweepScope, MovedSince, Loaded
  <2>2. CASE due'[u] = Expired /\ Loaded(u)' = {}
             /\ \A e \in Expired : seen'[u][e.group].at = Len(history[e.group])
    <3>1. \A e \in Expired : e \in active /\ e.expires # NoExpiry /\ e.expires <= day /\ e.expires \in Nat
      BY FindingWorkflowAssumption
      DEF FindingWorkflowAssumption, Expired, TypeOK, ExceptionRow, Days, NoExpiry
    <3>2. \A e \in Expired : e.at <= Len(history[e.group])
      BY DEF Expired, ExceptionInv, RowsPast
    <3> QED
      BY <2>2, <3>1, <3>2, <1>1, <1>3
  <2>3. CASE due'[u] = {}
    BY <2>3
  <2>4. CASE /\ due'[u] = due[u]
             /\ \A g \in Groups : seen'[u][g].at = seen[u][g].at
             /\ \A g \in Loaded(u)' : g \in Loaded(u) \/ \E d \in due[u] : d.group = g
    BY <2>0, <2>4, <1>1, <1>3 DEF ExceptionInv, DueFound, SweepScope, MovedSince
  <2> QED
    BY <1>a, <2>1, <2>2, <2>3, <2>4
<1>4. ASSUME NEW x \in Sessions, NEW h \in Groups, Load(x, h), NEW u \in Threads
      PROVE  \/ due'[u] = due[u] /\ seen'[u] = seen[u]
             \/ due'[u] = {}
             \/ /\ due'[u] = due[u]
                /\ \A g \in Groups : seen'[u][g].at = seen[u][g].at
                /\ \A g \in Loaded(u)' : g \in Loaded(u) \/ \E d \in due[u] : d.group = g
  <2> DEFINE first == IF x \in Threads /\ due[x] # {} THEN seen[x][h].at ELSE Len(history[h])
             look == [status |-> status[h], run |-> lastSeen[h], at |-> first]
  <2>1. due' = due /\ seen' = [seen EXCEPT ![x][h] = look] /\ u \in Sessions
    BY <1>4 DEF Load, Sessions
  <2>2. look.at = first
    OBVIOUS
  <2> HIDE DEF look
  <2>3. u # x => seen'[u] = seen[u]
    BY <2>1 DEF TypeOK
  <2>4. CASE u = x /\ due[u] # {}
    <3>1. \E e \in due[u] : e.group = h
      BY <2>4, <1>4, FindingWorkflowAssumption DEF Load, FindingWorkflowAssumption
    <3>2. \A g \in Groups : seen'[u][g] = IF g = h THEN look ELSE seen[u][g]
      BY <2>1, <2>4 DEF TypeOK
    <3> QED
      BY <2>1, <2>2, <2>4, <3>1, <3>2 DEF Loaded
  <2> QED
    BY <2>1, <2>3, <2>4
<1>5. ASSUME NEW t \in Threads, FindExpired(t), NEW u \in Threads
      PROVE  \/ due'[u] = due[u] /\ seen'[u] = seen[u]
             \/ due'[u] = Expired /\ Loaded(u)' = {}
                /\ \A e \in Expired : seen'[u][e.group].at = Len(history[e.group])
  <2> DEFINE at(g) == IF \E e \in Expired : e.group = g THEN Len(history[g]) ELSE 0
             looks == [g \in Groups |-> [seen[t][g] EXCEPT !.at = at(g)]]
  <2>1. /\ due' = [due EXCEPT ![t] = Expired] /\ seen' = [seen EXCEPT ![t] = looks]
        /\ t \in Sessions /\ u \in Sessions /\ Loaded(t) = {}
    BY <1>5 DEF FindExpired, Sessions
  <2>2. \A g \in Groups : looks[g].status = Unread /\ looks[g].at = at(g)
    <3> SUFFICES ASSUME NEW g \in Groups PROVE looks[g].status = Unread /\ looks[g].at = at(g)
      OBVIOUS
    <3>1. seen[t][g].status = Unread /\ seen[t][g] \in Look
      BY <2>1, LookTyped DEF Loaded
    <3> QED
      BY <3>1 DEF Look
  <2>3. \A e \in Expired : e.group \in Groups /\ at(e.group) = Len(history[e.group])
    BY DEF Expired, TypeOK, ExceptionRow
  <2> HIDE DEF looks, at
  <2>4. u = t => due'[u] = Expired /\ seen'[u] = looks
    BY <2>1 DEF TypeOK
  <2>5. u # t => due'[u] = due[u] /\ seen'[u] = seen[u]
    BY <2>1 DEF TypeOK
  <2> QED
    BY <2>2, <2>3, <2>4, <2>5 DEF Loaded
<1>6. ASSUME NEW t \in Threads, Quit(t), NEW u \in Threads
      PROVE  due'[u] = {} \/ (due'[u] = due[u] /\ seen'[u] = seen[u])
  <2>1. t \in Sessions /\ u \in Sessions /\ Release(t) /\ due' = [due EXCEPT ![t] = {}]
    BY <1>6 DEF Quit, EndOf, Sessions
  <2> QED
    BY <2>1, ReleaseEffect DEF TypeOK
<1>7. (\E r \in Runs : EnqueueScan(r) \/ FailScan(r)) \/ NextDay \/ UNCHANGED vars
         => seen' = seen /\ due' = due
  BY DEF EnqueueScan, FailScan, NextDay, vars
<1>8. DueFound' /\ SweepScope'
  <2> SUFFICES ASSUME NEW u \in Threads
               PROVE  \/ due'[u] = due[u] /\ seen'[u] = seen[u]
                      \/ due'[u] = Expired /\ Loaded(u)' = {}
                         /\ \A e \in Expired : seen'[u][e.group].at = Len(history[e.group])
                      \/ due'[u] = {}
                      \/ /\ due'[u] = due[u]
                         /\ \A g \in Groups : seen'[u][g].at = seen[u][g].at
                         /\ \A g \in Loaded(u)' : g \in Loaded(u) \/ \E d \in due[u] : d.group = g
    BY <1>a DEF DueFound, SweepScope
  <2> QED
    BY <1>4, <1>5, <1>6, <1>7 DEF Quiet
<1> QED
  BY <1>2, <1>8 DEF ExceptionInv

LEMMA RegularExceptions ==
    ASSUME IrregularPaths = {}
    PROVE  Spec => []ExceptionInv
<1>1. Init => ExceptionInv
  BY DEF Init, ExceptionInv, RowsPast, DueFound, SweepScope, Matched, ActiveOf, ExceptionStatuses, Absent
<1>2. TypeOK /\ SeenInv /\ ExceptionInv /\ [Next]_vars => ExceptionInv'
  BY RegularSteps, CommitExceptions, PersistExceptions, QuietExceptions
<1> QED
  BY <1>1, <1>2, WorkflowTyped, WorkflowSeen, PTL DEF Spec

\* Where no irregular path is taken, a group is suppressed or accepted exactly
\* while one active exception explains it, whatever overlapped, unless one of
\* its writers overlooked another's move.
THEOREM RegularExceptionsMatch ==
    ASSUME IrregularPaths = {}
    PROVE  Spec => []ExceptionMatchesStatus
BY RegularExceptions, ExceptionInvMatches, PTL

\* And then only the exception that explains a group's present status reopens it,
\* on or after its date, although the sweep asked for its rows before.
THEOREM RegularNoForeignExpiry ==
    ASSUME IrregularPaths = {}
    PROVE  Spec => NoForeignExpiry
<1>1. TypeOK /\ SeenInv /\ ExceptionInv /\ [Next]_vars => ReopenedByOwnExpiry
  <2> SUFFICES ASSUME TypeOK, SeenInv, ExceptionInv, [Next]_vars,
                      NEW g \in Groups \ contested',
                      Len(history'[g]) > Len(history[g]),
                      history'[g][Len(history'[g])].by = "expiry"
               PROVE  \E e \in active : Explains(e, g) /\ e.expires \in 1 .. day
    BY DEF ReopenedByOwnExpiry
  <2>0. Len(history[g]) \in Nat
    BY DEF TypeOK
  <2>1. ASSUME NEW x \in Sessions, NEW S \in SUBSET Loaded(x), NEW to \in Status, NEW by \in Writers,
               Record(x, S, to, by)
        PROVE  g \in S /\ by = "expiry"
    <3>1. \A h \in S : Moved(h, to, by)
      BY <2>1, RecordMoves
    <3>2. g \notin S => history'[g] = history[g]
      BY <2>1, RecordSpares
    <3> QED
      BY <3>1, <3>2, <2>0 DEF Moved
  <2>2. ASSUME NEW t \in Threads, NEW S \in SUBSET Groups, NEW to \in Status, NEW by \in Writers,
               Commit(t, S, to, by), ExceptionsKept(S, by)
        PROVE  \E e \in active : Explains(e, g) /\ e.expires \in 1 .. day
    <3>1. t \in Sessions /\ Record(t, S, to, by) /\ S \in SUBSET Loaded(t)
      BY <2>2, CommitEffect
    <3>2. g \in S /\ by = "expiry"
      BY <3>1, <2>1
    <3> QED
      BY <2>2, <3>2 DEF ExceptionsKept
  <2>3. ASSUME NEW r \in Runs, PersistScan(r)
        PROVE  FALSE
    <3>1. /\ r \in Sessions /\ Record(r, Reappeared(r), "open", "scan")
          /\ Reappeared(r) \in SUBSET Loaded(r)
      BY <2>3, PersistEffect
    <3>2. "scan" = "expiry"
      BY <3>1, <2>1, StatusesAreTargets
    <3> QED
      BY <3>2
  <2>4. ~Quiet
    <3> SUFFICES ASSUME Quiet PROVE FALSE
      OBVIOUS
    <3>1. history' = history
      BY QuietLeaves
    <3> QED
      BY <3>1, <2>0
  <2> QED
    BY <2>2, <2>3, <2>4, RegularSteps
<1>2. TypeOK /\ SeenInv /\ ExceptionInv /\ [Next]_vars => [ReopenedByOwnExpiry]_vars
  BY <1>1
<1> QED
  BY <1>2, RegularExceptions, WorkflowTyped, WorkflowSeen, PTL DEF Spec, NoForeignExpiry

-----------------------------------------------------------------------------
(* The displayed run, when each scan waits for the one before.             *)

\* Runs are created in order, and a running one is the newest.
RunsInOrder ==
    /\ \A r \in Runs, q \in Runs : runs[r] = "none" /\ q > r => runs[q] = "none"
    /\ \A r \in Runs, q \in Runs : runs[r] = "running" /\ q > r => runs[q] = "none"

\* No group has a snapshot in a run newer than its last one.
LastSeenNewest ==
    \A g \in Groups, r \in Runs : finding[g][r] # Absent => r <= lastSeen[g]

SerialInv == SnapshotInv /\ RunsInOrder /\ LastSeenNewest

\* A run is created after every other, and when none is running.
LEMMA SerialEnqueue ==
    ASSUME TypeOK, SerialInv, MaxInFlight <= 1, NEW r \in Runs, EnqueueScan(r)
    PROVE  RunsInOrder' /\ LastSeenNewest'
<1> USE DEF SerialInv
<1>1. IsFiniteSet(Running)
  <2>1. IsFiniteSet(Runs)
    BY FS_Interval, FindingWorkflowAssumption DEF Runs, FindingWorkflowAssumption
  <2> QED
    BY <2>1, FS_Subset DEF Running
<1>2. Running = {}
  <2>1. Cardinality(Running) \in Nat /\ Cardinality(Running) < MaxInFlight
    BY <1>1, FS_CardinalityType DEF EnqueueScan
  <2>2. Cardinality(Running) = 0
    BY <2>1, FindingWorkflowAssumption DEF FindingWorkflowAssumption
  <2> QED
    BY <2>2, <1>1, FS_EmptySet
<1>3. /\ \A q \in Runs : runs'[q] = IF q = r THEN "running" ELSE runs[q]
      /\ runs[r] = "none"
  BY DEF EnqueueScan, TypeOK
<1>4. \A q \in Runs : q > r => runs[q] = "none"
  BY <1>3 DEF RunsInOrder
<1>5. \A q \in Runs : q < r => runs[q] # "none"
  <2> SUFFICES ASSUME NEW q \in Runs, q < r
               PROVE  runs[q] # "none"
    OBVIOUS
  <2>1. r - 1 \in Runs /\ (q = r - 1 \/ q < r - 1) /\ r # 1
    BY FindingWorkflowAssumption DEF Runs, FindingWorkflowAssumption
  <2>2. runs[r - 1] # "none"
    BY <2>1 DEF EnqueueScan
  <2>3. CASE q < r - 1
    <3>1. r - 1 > q
      BY <2>1, <2>3 DEF Runs
    <3> QED
      BY <2>1, <2>2, <3>1 DEF RunsInOrder
  <2> QED
    BY <2>1, <2>2, <2>3
<1>6. RunsInOrder'
  BY <1>2, <1>3, <1>4, <1>5 DEF RunsInOrder, Running, Runs
<1>7. LastSeenNewest'
  BY DEF EnqueueScan, LastSeenNewest
<1> QED
  BY <1>6, <1>7

\* One scan at a time leaves no group behind the newest run that has a row of it.
LEMMA SerialStep ==
    ASSUME TypeOK, SeenInv, SerialInv, [Next]_vars, MaxInFlight <= 1
    PROVE  SerialInv'
<1> USE DEF SerialInv
<1>0. SnapshotInv'
  BY SnapshotStep
<1>1. ASSUME NEW t \in Threads, NEW S \in SUBSET Groups, NEW to \in Status, NEW by \in Writers,
             Commit(t, S, to, by)
      PROVE  RunsInOrder' /\ LastSeenNewest'
  <2>1. CommitWrites(t, S, to, by)
    BY <1>1, CommitEffect
  <2>2. runs' = runs /\ lastSeen' = lastSeen
    BY <2>1 DEF CommitWrites
  <2>3. \A g \in Groups, r \in Runs : finding'[g][r] # Absent => finding[g][r] # Absent
    BY <2>1 DEF CommitWrites
  <2> QED
    BY <2>2, <2>3 DEF RunsInOrder, LastSeenNewest
<1>2. ASSUME NEW r \in Runs, PersistScan(r)
      PROVE  RunsInOrder' /\ LastSeenNewest'
  <2>1. /\ runs[r] = "running" /\ \A q \in Runs : runs'[q] = IF q = r THEN "completed" ELSE runs[q]
        /\ \A g \in Groups : lastSeen'[g] = IF g \in Loaded(r) THEN r ELSE lastSeen[g]
        /\ \A g \in Groups, q \in Runs :
              g \notin Loaded(r) \/ q # r => finding'[g][q] = finding[g][q]
    BY <1>2, PersistEffect
  <2>2. RunsInOrder'
    BY <2>1 DEF RunsInOrder
  <2>3. \A g \in Groups, q \in Runs : finding[g][q] # Absent => q <= r
    BY <2>1 DEF SnapshotInv, SnapshotsPast, RunsInOrder, Runs
  <2>4. r <= r
    BY DEF Runs
  <2>5. LastSeenNewest'
    BY <2>1, <2>3, <2>4 DEF LastSeenNewest
  <2> QED
    BY <2>2, <2>5
<1>3. ASSUME Quiet
      PROVE  RunsInOrder' /\ LastSeenNewest'
  <2>1. finding' = finding /\ lastSeen' = lastSeen
    BY <1>3, QuietLeaves
  <2>2. ASSUME NEW r \in Runs, FailScan(r)
        PROVE  RunsInOrder'
    BY <2>2 DEF FailScan, TypeOK, RunsInOrder
  <2>3. ASSUME runs' = runs
        PROVE  RunsInOrder'
    BY <2>3 DEF RunsInOrder
  <2>4. \/ \E r \in Runs : EnqueueScan(r) \/ FailScan(r)
        \/ runs' = runs
    BY <1>3 DEF Quiet, Load, FindExpired, Quit, NextDay, vars
  <2>5. LastSeenNewest'
    BY <2>1 DEF LastSeenNewest
  <2> QED
    BY <2>2, <2>3, <2>4, <2>5, SerialEnqueue
<1> QED
  BY <1>0, <1>1, <1>2, <1>3, Steps

\* When each scan waits for the one before, every row of the findings page
\* carries its group's present status, unless the group's newest writer
\* overlooked another.
THEOREM SerialDisplayedRowsMirror ==
    ASSUME MaxInFlight <= 1
    PROVE  Spec => []DisplayedRowsMirror
<1>1. Init => SerialInv
  BY DEF Init, SerialInv, SnapshotInv, Mirrored, SnapshotsPast, RunsInOrder, LastSeenNewest
<1>2. TypeOK /\ SeenInv /\ SerialInv /\ [Next]_vars => SerialInv'
  BY SerialStep
<1>3. TypeOK /\ SerialInv => DisplayedRowsMirror
  <2> SUFFICES ASSUME TypeOK, SerialInv, NEW r \in Runs, Displayed(r), NEW g \in Groups \ torn,
                      finding[g][r] # Absent
               PROVE  finding[g][r] = status[g]
    BY DEF DisplayedRowsMirror
  <2>1. r <= lastSeen[g]
    BY DEF SerialInv, LastSeenNewest
  <2>2. /\ lastSeen[g] \in Runs
        /\ runs[lastSeen[g]] = "completed"
        /\ finding[g][lastSeen[g]] = status[g]
    BY <2>1 DEF SerialInv, SnapshotInv, Mirrored, NoRun, Runs
  <2>3. lastSeen[g] <= r
    BY <2>2 DEF Displayed
  <2>4. r = lastSeen[g]
    BY <2>1, <2>2, <2>3 DEF Runs
  <2> QED
    BY <2>2, <2>4
<1> QED
  BY <1>1, <1>2, <1>3, WorkflowTyped, WorkflowSeen, PTL DEF Spec

-----------------------------------------------------------------------------
(* The pages.  The drawer of a finding opens on every finding a scan has   *)
(* detected, and what it shows is of one moment: that follows from the     *)
(* mirror of the group in its last run and from the replay of its trail.   *)

\* A group that has been detected has its drawer, filled from its last run.
LEMMA DrawerOfDetected ==
    ASSUME TypeOK, SnapshotMirrors, NEW g \in Groups, status[g] # Absent, NEW role
    PROVE  get_finding_detail(g, role) =
              [ status |-> status[g], row |-> finding[g][lastSeen[g]], history |-> history[g],
                exceptions |-> {e.kind : e \in ActiveOf(g)},
                actions |-> available_actions(status[g], role) ]
<1>1. lastSeen[g] \in Runs /\ finding[g][lastSeen[g]] # Absent
    BY DEF SnapshotMirrors
<1>2. lastSeen[g] # NoRun
    BY <1>1, FindingWorkflowAssumption DEF Runs, NoRun
<1>3. DetailRun(g) = lastSeen[g]
    BY <1>1, <1>2 DEF DetailRun
<1> QED
    BY <1>1, <1>2, <1>3 DEF get_finding_detail

\* The drawer never disagrees with its group: its row (unless the group's newest
\* writer overlooked another), the end of its history and the actions it offers
\* (finding_detail.get_finding_detail).
THEOREM ViewsDrawerTellsTheGroup == Spec => []DrawerTellsTheGroup
<1>1. ASSUME TypeOK, SnapshotMirrors, AuditReplays
      PROVE  DrawerTellsTheGroup
    <2> SUFFICES ASSUME NEW g \in Groups, NEW role \in ROLES
                 PROVE  LET d == get_finding_detail(g, role)
                        IN  IF status[g] = Absent THEN d = NoDrawer
                            ELSE /\ d # NoDrawer
                                 /\ d.status = status[g] /\ (g \notin torn => d.row = status[g])
                                 /\ d.history[Len(d.history)].to = d.status
                                 /\ \A to \in d.actions : CanTransition(d.status, to)
        BY DEF DrawerTellsTheGroup
    <2>1. CASE status[g] = Absent
        BY <2>1 DEF get_finding_detail
    <2>2. CASE status[g] # Absent
        <3>1. get_finding_detail(g, role).status # Absent
            BY <1>1, <2>2, DrawerOfDetected
        <3>2. get_finding_detail(g, role) # NoDrawer
            BY <3>1 DEF NoDrawer
        <3>3. history[g][Len(history[g])].to = status[g]
            BY <1>1, <2>2 DEF AuditReplays, Lifecycle!AuditReplays, Lifecycle!Replays,
                              Absent, Lifecycle!Absent
        <3>4. \A to \in available_actions(status[g], role) : CanTransition(status[g], to)
            BY DEF available_actions
        <3>5. g \notin torn => finding[g][lastSeen[g]] = status[g]
            BY <1>1, <2>2 DEF SnapshotMirrors
        <3> QED
            BY <1>1, <2>2, <3>2, <3>3, <3>4, <3>5, DrawerOfDetected
    <2> QED
        BY <2>1, <2>2
<1> QED
    BY <1>1, WorkflowTyped, WorkflowSnapshotMirrors, WorkflowAuditReplays, PTL

\* Where no irregular path is taken, the drawer of a group that nobody contested
\* shows an exception exactly while the status it shows is one (finding_detail's
\* active_exception).
THEOREM RegularDrawerShowsException ==
    ASSUME IrregularPaths = {}
    PROVE  Spec => []DrawerShowsException
<1>1. ASSUME TypeOK, SnapshotMirrors, ExceptionMatchesStatus
      PROVE  DrawerShowsException
    <2> SUFFICES ASSUME NEW g \in Groups \ contested, get_finding_detail(g, "read_only") # NoDrawer
                 PROVE  LET d == get_finding_detail(g, "read_only")
                        IN  d.exceptions = {d.status} \cap ExceptionStatuses
        BY DEF DrawerShowsException
    <2>1. status[g] # Absent
        BY DEF get_finding_detail
    <2>2. {e.kind : e \in ActiveOf(g)} = {status[g]} \cap ExceptionStatuses
        BY <1>1 DEF ExceptionMatchesStatus, Explains
    <2> QED
        BY <1>1, <2>1, <2>2, DrawerOfDetected
<1> QED
    BY <1>1, WorkflowTyped, WorkflowSnapshotMirrors, RegularExceptionsMatch, PTL

-----------------------------------------------------------------------------
(* The pages agree: the newest run is the greatest of finitely many, and   *)
(* the numbers of a page come from a division.                             *)

LEMMA NewestIsGreatest ==
    ASSUME NEW S \in SUBSET Runs, S # {}
    PROVE  Newest(S) \in S /\ \A q \in S : q <= Newest(S)
<1>1. S \in SUBSET Nat /\ MaxRuns \in Nat /\ \A q \in S : q <= MaxRuns
  BY FindingWorkflowAssumption DEF Runs
<1>2. \E n \in S : \A q \in S : q <= n
  BY <1>1, NatMax
<1> QED
  BY <1>2 DEF Newest

LEMMA NewestIsRun ==
    ASSUME NEW S \in SUBSET Runs
    PROVE  /\ Newest(S) \in Runs \cup {NoRun}
           /\ Newest(S) = NoRun <=> S = {}
<1>1. NoRun \notin Runs
  BY FindingWorkflowAssumption DEF Runs, NoRun
<1>2. CASE S = {}
  BY <1>2 DEF Newest
<1>3. CASE S # {}
  BY <1>1, <1>3, NewestIsGreatest
<1> QED
  BY <1>2, <1>3

LEMMA RunsFinite ==
    ASSUME NEW S \in SUBSET Runs
    PROVE  IsFiniteSet(S) /\ Cardinality(S) \in Nat /\ S \in SUBSET Nat
<1>1. IsFiniteSet(Runs) /\ Runs \subseteq Nat
  BY FS_Interval, FindingWorkflowAssumption DEF Runs
<1>2. IsFiniteSet(S)
  BY <1>1, FS_Subset
<1> QED
  BY <1>1, <1>2, FS_CardinalityType

LEMMA RowsFinite ==
    ASSUME NEW S \in SUBSET Groups
    PROVE  IsFiniteSet(S) /\ Cardinality(S) \in Nat /\ (Cardinality(S) = 0 <=> S = {})
  BY FindingViewsAssumption, FS_Subset, FS_CardinalityType, FS_EmptySet

\* The runs that fewer than n others come after are at most n.
LEMMA TrendIsCut ==
    ASSUME NEW n \in Nat
    PROVE  Cardinality(score_trend(n)) <= n
<1> DEFINE Later(r) == {q \in CompletedRuns : q > r}
<1> DEFINE S == score_trend(n)
<1>1. CompletedRuns \in SUBSET Runs /\ S \in SUBSET Runs /\ S \subseteq CompletedRuns
  BY DEF CompletedRuns, score_trend
<1>2. CASE S = {}
  BY <1>2, FS_EmptySet
<1>3. CASE S # {}
  <2>1. PICK m \in S : \A q \in S : m <= q
    <3> HIDE DEF S
    <3> QED
      BY <1>1, <1>3, RunsFinite, NatMin
  <2>2. Later(m) \in SUBSET Runs /\ Cardinality(Later(m)) < n
    BY <1>1, <2>1 DEF score_trend
  <2>3. S \ {m} \subseteq Later(m)
    <3>1. \A q \in S : q \in Nat
      BY <1>1, RunsFinite
    <3> QED
      BY <1>1, <2>1, <3>1
  <2> HIDE DEF S, Later
  <2>4. Cardinality(S \ {m}) <= Cardinality(Later(m))
    BY <2>2, <2>3, RunsFinite, FS_Subset
  <2>5. Cardinality(S \ {m}) = Cardinality(S) - 1
    BY <1>1, <2>1, RunsFinite, FS_RemoveElement
  <2>6. Cardinality(S) \in Nat /\ Cardinality(Later(m)) \in Nat
    BY <1>1, <2>2, RunsFinite
  <2> QED
    BY <2>2, <2>4, <2>5, <2>6 DEF S
<1> QED
  BY <1>2, <1>3

\* The two newest completed runs are the board that "compare" leads to, and
\* the end of the trend.
LEMMA CompareIsTheNewestTwo ==
    ASSUME default_diff_pair # NoBoard
    PROVE  LET board == runs_diff(NoRun, NoRun) IN
           /\ board[2] = current_completed_run_id /\ board[1] \in CompletedRuns
           /\ score_trend(2) = {board[1], current_completed_run_id}
<1> DEFINE C == CompletedRuns
<1> DEFINE b == latest_run
<1> DEFINE a == Newest(C \ {b})
<1> DEFINE Later(r) == {q \in C : q > r}
<1>1. C \in SUBSET Runs /\ C \ {b} \in SUBSET Runs /\ current_completed_run_id = b
  BY DEF CompletedRuns, current_completed_run_id, latest_run
<1>2. Cardinality(C) >= 2 /\ default_diff_pair = <<a, b>>
  BY <1>1, RunsFinite DEF default_diff_pair, NoBoard
<1>3. C # {}
  BY <1>2, FS_EmptySet
<1>4. b \in C /\ \A q \in C : q <= b
  BY <1>1, <1>3, NewestIsGreatest DEF latest_run
<1>5. C \ {b} # {}
  <2>1. Cardinality(C \ {b}) = Cardinality(C) - 1
    BY <1>1, <1>4, RunsFinite, FS_RemoveElement
  <2>2. Cardinality(C \ {b}) >= 1
    BY <1>1, <1>2, <2>1, RunsFinite
  <2> QED
    BY <2>2, FS_EmptySet
<1>6. a \in C /\ a # b /\ \A q \in C \ {b} : q <= a
  BY <1>1, <1>5, NewestIsGreatest
<1>7. a \in Nat /\ b \in Nat /\ a < b
  BY <1>1, <1>4, <1>6, RunsFinite
<1>8. runs_diff(NoRun, NoRun) = <<a, b>>
  <2>1. a \in list_runs /\ b \in list_runs
    BY <1>4, <1>6 DEF list_runs, CompletedRuns
  <2> HIDE DEF a, b
  <2> QED
    BY <1>2, <1>6, <2>1 DEF runs_diff
<1>9. score_trend(2) = {a, b}
  <2> HIDE DEF a, b
  <2>1. Later(b) = {} /\ Later(a) = {b}
    <3>1. ASSUME NEW q \in C
          PROVE  ~(q > b) /\ (q > a <=> q = b)
      <4>1. q \in Nat /\ q <= b /\ (q # b => q <= a)
        BY <1>1, <1>4, <1>6, RunsFinite
      <4> QED
        BY <1>7, <4>1
    <3> QED
      BY <1>4, <3>1
  <2>2. a \in score_trend(2) /\ b \in score_trend(2)
    <3>1. Cardinality(Later(b)) = 0 /\ Cardinality(Later(a)) = 1
      BY <2>1, FS_EmptySet, FS_Singleton
    <3> QED
      BY <1>4, <1>6, <3>1 DEF score_trend
  <2>3. ASSUME NEW x \in score_trend(2), x # a, x # b
        PROVE  FALSE
    <3>1. x \in C /\ Cardinality(Later(x)) < 2
      BY <2>3 DEF score_trend
    <3>2. x < a /\ x < b
      BY <1>1, <1>4, <1>6, <1>7, <2>3, <3>1, RunsFinite
    <3>3. {a, b} \subseteq Later(x)
      BY <1>4, <1>6, <3>2
    <3>4. Cardinality({a, b}) = 2
      <4>1. Cardinality({b}) = 1 /\ IsFiniteSet({b})
        BY FS_Singleton
      <4>2. a \notin {b} /\ {b} \cup {a} = {a, b}
        BY <1>6
      <4> QED
        BY <4>1, <4>2, FS_AddElement
    <3>5. Later(x) \in SUBSET Runs
      BY <1>1
    <3>6. Cardinality({a, b}) <= Cardinality(Later(x)) /\ Cardinality(Later(x)) \in Nat
      <4> HIDE DEF Later
      <4> QED
        BY <3>3, <3>5, RunsFinite, FS_Subset
    <3> QED
      BY <3>1, <3>4, <3>6
  <2> QED
    BY <2>2, <2>3
<1> HIDE DEF a, b
<1> QED
  BY <1>1, <1>6, <1>8, <1>9

\* Any two runs have a board, the same in either order.
LEMMA BoardOfTwo ==
    ASSUME NEW a \in list_runs, NEW b \in list_runs, a # b
    PROVE  runs_diff(a, b) # NoBoard /\ runs_diff(a, b) = runs_diff(b, a)
<1>1. a \in Nat /\ b \in Nat /\ a # NoRun /\ b # NoRun
  BY DEF list_runs, Runs, NoRun
<1>2. CASE a < b
  <2>1. Lesser(a, b) = a /\ Lesser(b, a) = a /\ a + b - a = b /\ b + a - a = b
    BY <1>1, <1>2 DEF Lesser
  <2>2. runs_diff(a, b) = <<a, b>> /\ runs_diff(b, a) = <<a, b>>
    BY <1>1, <1>2, <2>1 DEF runs_diff
  <2> QED
    BY <1>1, <2>2 DEF NoBoard
<1>3. CASE b < a
  <2>1. Lesser(a, b) = b /\ Lesser(b, a) = b /\ a + b - b = a /\ b + a - b = a
    BY <1>1, <1>3 DEF Lesser
  <2>2. runs_diff(a, b) = <<b, a>> /\ runs_diff(b, a) = <<b, a>>
    BY <1>1, <1>3, <2>1 DEF runs_diff
  <2> QED
    BY <1>1, <2>2 DEF NoBoard
<1> QED
  BY <1>1, <1>2, <1>3

\* The rows of a page, as its footer numbers them; every row has its page.
LEMMA FooterNumbers ==
    ASSUME NEW total \in Nat \ {0}, NEW n \in Nat \ {0}
    PROVE  /\ start_index(total, n) = OffsetOf(n) + 1
           /\ OffsetOf(n) \in Nat /\ end_index(total, n) \in Nat /\ end_index(total, n) <= total
           /\ end_index(total, n) = Lesser(OffsetOf(n) + PageSize, total)
<1>1. PageSize \in Nat \ {0} /\ n - 1 \in Nat
  BY FindingViewsAssumption
<1>2. PageSize * (n - 1) \in Nat /\ PageSize * ((n - 1) + 1) = PageSize * (n - 1) + PageSize
  BY <1>1, TimesMonotone
<1>3. (n - 1) * PageSize = PageSize * (n - 1) /\ n * PageSize = PageSize * (n - 1) + PageSize
  BY <1>1, <1>2
<1>4. end_index(total, n) = Lesser(PageSize * (n - 1) + PageSize, total)
  BY <1>3 DEF end_index
<1>5. start_index(total, n) = PageSize * (n - 1) + 1 /\ OffsetOf(n) = PageSize * (n - 1)
  BY <1>3 DEF start_index, OffsetOf
<1>6. \A x \in Nat : Lesser(x, total) \in Nat /\ Lesser(x, total) <= total
  BY DEF Lesser
<1>7. PageSize * (n - 1) + PageSize \in Nat
  BY <1>1, <1>2
<1> QED
  BY <1>2, <1>4, <1>5, <1>6, <1>7

LEMMA PageOfRow ==
    ASSUME NEW total \in Nat \ {0}, NEW i \in 1 .. total
    PROVE  \E n \in 1 .. pages(total) : i \in start_index(total, n) .. end_index(total, n)
<1> DEFINE P == PageSize
<1> DEFINE q == (i - 1) \div P
<1> DEFINE m == (total + P - 1) \div P
<1>1. P \in Nat \ {0} /\ i - 1 \in Nat /\ total + P - 1 \in Nat
  BY FindingViewsAssumption
<1> HIDE DEF P
<1>2. q \in Nat /\ P * q <= i - 1 /\ i - 1 < P * q + P
  BY <1>1, DivBounds
<1>3. m \in Nat /\ total + P - 1 < P * m + P
  BY <1>1, DivBounds
<1>4. pages(total) = m
  BY DEF pages, P
<1> HIDE DEF q, m
<1>5. q + 1 <= m
  <2>1. P * q \in Nat /\ P * m \in Nat /\ P * (m + 1) = P * m + P /\ P * (q + 1) = P * q + P
    BY <1>1, <1>2, <1>3, TimesMonotone
  <2>2. ~(P * (m + 1) <= P * (q + 1))
    BY <1>1, <1>2, <1>3, <2>1
  <2>3. ~(m + 1 <= q + 1)
    BY <1>1, <1>2, <1>3, <2>2, TimesMonotone
  <2> QED
    BY <1>2, <1>3, <2>3
<1>6. OffsetOf(q + 1) = P * q
  BY <1>1, <1>2 DEF OffsetOf, P
<1>7. i \in start_index(total, q + 1) .. end_index(total, q + 1)
  <2>1. q + 1 \in Nat \ {0}
    BY <1>2
  <2>2. /\ start_index(total, q + 1) = P * q + 1
        /\ end_index(total, q + 1) = Lesser(P * q + P, total)
    BY <1>6, <2>1, FooterNumbers DEF P
  <2>3. P * q \in Nat
    BY <1>1, <1>2, TimesMonotone
  <2>4. P * q + 1 <= i /\ i <= P * q + P
    BY <1>1, <1>2, <2>3
  <2>5. i <= Lesser(P * q + P, total) /\ Lesser(P * q + P, total) \in Int
    BY <1>1, <2>3, <2>4 DEF Lesser
  <2> QED
    BY <2>2, <2>3, <2>4, <2>5
<1>8. q + 1 \in 1 .. pages(total)
  BY <1>2, <1>3, <1>4, <1>5
<1> QED
  BY <1>7, <1>8

\* What a page shows is what its footer says.
ShowsRows(page, order, numbers) ==
    /\ \A k \in DOMAIN page : \E i \in numbers : page[k] = order[i]
    /\ \A i \in numbers : \E k \in DOMAIN page : page[k] = order[i]

LEMMA PageShowsItsRows ==
    ASSUME NEW S, NEW total \in Nat, NEW order \in [1 .. total -> S], NEW n \in Nat \ {0}
    PROVE  ShowsRows(query_findings(order, n), order,
                     (start_index(total, n) .. end_index(total, n)) \ {0})
<1> DEFINE off == OffsetOf(n)
<1> DEFINE last == Lesser(off + PageSize, total)
<1> DEFINE page == query_findings(order, n)
<1>1. order \in Seq(S) /\ Len(order) = total
  <2>1. order \in Seq(S)
    BY SeqDef
  <2> QED
    BY <2>1, LenProperties
<1>2. page = SubSeq(order, off + 1, last) /\ PageSize \in Nat \ {0}
  BY <1>1, FindingViewsAssumption DEF query_findings
<1>3. off \in Nat /\ last \in Nat /\ last <= total
  <2>1. off \in Nat
    BY <1>2 DEF OffsetOf
  <2> QED
    BY <1>2, <2>1 DEF Lesser
<1>4. (start_index(total, n) .. end_index(total, n)) \ {0} = (off + 1) .. last
  <2>1. CASE total = 0
    <3>1. start_index(total, n) = 0 /\ last = 0
      BY <1>3, <2>1 DEF start_index
    <3>2. end_index(total, n) = 0
      <4>1. n * PageSize \in Nat
        BY <1>2
      <4> QED
        BY <2>1, <4>1 DEF end_index, Lesser
    <3> QED
      BY <1>3, <3>1, <3>2
  <2>2. CASE total # 0
    <3>1. start_index(total, n) = off + 1 /\ end_index(total, n) = last
      BY <2>2, FooterNumbers
    <3> HIDE DEF off, last
    <3> QED
      BY <1>3, <3>1
  <2> QED
    BY <2>1, <2>2
<1> HIDE DEF off, last
<1>5. page = [k \in 1 .. (1 + last - (off + 1)) |-> order[k + (off + 1) - 1]]
  BY <1>1, <1>2, <1>3
<1>6. /\ \A k \in DOMAIN page : \E i \in (off + 1) .. last : page[k] = order[i]
      /\ \A i \in (off + 1) .. last : \E k \in DOMAIN page : page[k] = order[i]
  <2>1. DOMAIN page = 1 .. last - off
    BY <1>3, <1>5
  <2>2. \A k \in 1 .. last - off : page[k] = order[k + off] /\ k + off \in (off + 1) .. last
    BY <1>3, <1>5
  <2>3. \A i \in (off + 1) .. last : i - off \in 1 .. last - off /\ page[i - off] = order[i]
    BY <1>3, <2>2
  <2> HIDE DEF page
  <2> QED
    BY <2>1, <2>2, <2>3
<1> QED
  BY <1>4, <1>6 DEF ShowsRows

LEMMA EveryRowHasItsPage == EveryRowIsOnAPage
<1> DEFINE rows == Rows(latest_run)
<1> DEFINE total == Cardinality(rows)
<1> DEFINE numbers == 1 .. pages(total)
<1> DEFINE footer == [n \in numbers |-> start_index(total, n) .. end_index(total, n)]
<1>1. rows \in SUBSET Groups
  BY DEF Rows
<1>2. total \in Nat
  BY <1>1, RowsFinite
<1>3. numbers \subseteq Nat \ {0}
  OBVIOUS
<1>4. ASSUME total > 0
      PROVE  UNION {footer[n] : n \in numbers} = 1 .. total
  <2> HIDE DEF total, numbers
  <2>1. ASSUME NEW n \in numbers
        PROVE  footer[n] \subseteq 1 .. total
    <3>1. n \in Nat \ {0} /\ total \in Nat \ {0}
      BY <1>2, <1>3, <1>4
    <3>2. /\ start_index(total, n) = OffsetOf(n) + 1 /\ OffsetOf(n) \in Nat
          /\ end_index(total, n) \in Nat /\ end_index(total, n) <= total
      BY <3>1, FooterNumbers
    <3>3. footer[n] = (OffsetOf(n) + 1) .. end_index(total, n)
      BY <3>2
    <3> QED
      BY <1>2, <3>2, <3>3
  <2>2. ASSUME NEW i \in 1 .. total
        PROVE  \E n \in numbers : i \in footer[n]
    <3>1. total \in Nat \ {0}
      BY <1>2, <1>4
    <3> QED
      BY <3>1, PageOfRow DEF numbers
  <2> QED
    BY <2>1, <2>2
<1>5. ASSUME NEW order \in Orders(rows)
      PROVE  /\ _render_findings(order, 0) = _render_findings(order, 1)
             /\ \A n \in numbers : LET page == _render_findings(order, n) IN
                   {page[k] : k \in DOMAIN page} = {order[i] : i \in footer[n] \ {0}}
  <2>1. order \in [1 .. total -> rows]
    BY DEF Orders
  <2>2. _render_findings(order, 0) = _render_findings(order, 1)
    BY DEF _render_findings, _page_arg
  <2>3. ASSUME NEW n \in numbers
        PROVE  LET page == _render_findings(order, n) IN
               {page[k] : k \in DOMAIN page} = {order[i] : i \in footer[n] \ {0}}
    <3>1. n \in Nat \ {0} /\ _render_findings(order, n) = query_findings(order, n)
      BY <1>3, <2>3 DEF _render_findings, _page_arg
    <3>2. footer[n] = start_index(total, n) .. end_index(total, n)
      OBVIOUS
    <3> DEFINE page == query_findings(order, n)
    <3> DEFINE shown == (start_index(total, n) .. end_index(total, n)) \ {0}
    <3>3. ShowsRows(page, order, shown)
      <4>1. n \in Nat \ {0}
        BY <3>1
      <4> HIDE DEF total, rows, footer, numbers
      <4> QED
        BY ONLY <1>2, <2>1, <4>1, PageShowsItsRows DEF page, shown
    <3> HIDE DEF total, rows, page, shown
    <3>4. {page[k] : k \in DOMAIN page} = {order[i] : i \in shown}
      BY <3>3 DEF ShowsRows
    <3> QED
      BY <3>1, <3>2, <3>4 DEF page, shown
  <2> QED
    BY <2>2, <2>3
<1> QED
  BY <1>4, <1>5 DEF EveryRowIsOnAPage

\* What the catalog counts under a check, and what the table shows of it.
LEMMA ActiveRows ==
    ASSUME NEW r
    PROVE  LET active_rows == [status |-> {"open", "investigating"}, check |-> {}] IN
           /\ build_dashboard(r) = ApplyFilters(r, active_rows)
           /\ \A c \in Checks :
                 _active_finding_counts(r)[c]
                    = Cardinality(ApplyFilters(r, [active_rows EXCEPT !.check = {c}]))
<1> DEFINE active_rows == [status |-> {"open", "investigating"}, check |-> {}]
<1>1. build_dashboard(r) = ApplyFilters(r, active_rows)
  BY DEF build_dashboard, ApplyFilters, ActiveOnDashboard
<1>2. ASSUME NEW c \in Checks
      PROVE  _active_finding_counts(r)[c]
                = Cardinality(ApplyFilters(r, [active_rows EXCEPT !.check = {c}]))
  <2> DEFINE counted == {g \in Rows(r) : finding[g][r] \in ActiveInCatalog}
  <2>1. [active_rows EXCEPT !.check = {c}] = [status |-> {"open", "investigating"}, check |-> {c}]
    OBVIOUS
  <2>2. ApplyFilters(r, [active_rows EXCEPT !.check = {c}]) = {g \in counted : CheckOf[g] = c}
    BY <2>1 DEF ApplyFilters, ActiveInCatalog
  <2> QED
    BY <1>2, <2>2 DEF _active_finding_counts
<1> QED
  BY <1>1, <1>2

\* A control passes when the catalog has no number beside any of its checks.
LEMMA ControlsFollowTheCatalog ==
    ASSUME NEW r, NEW k \in Controls
    PROVE  LET shown == compliance_summary(r)[k] IN
           /\ shown.passing <=> \A c \in Checks : k \in ControlsOf[c] => _active_finding_counts(r)[c] = 0
           /\ shown.passing <=> shown.count = 0
<1> DEFINE counted == {g \in Rows(r) : finding[g][r] \in ActiveInCatalog}
<1> DEFINE failing == FailingChecks(r)
<1> DEFINE against == {g \in Rows(r) : /\ k \in ControlsOf[CheckOf[g]]
                                       /\ finding[g][r] \in ActiveForCompliance}
<1> DEFINE shown == compliance_summary(r)[k]
<1>1. shown.passing = (\A c \in failing : k \notin ControlsOf[c]) /\ shown.count = Cardinality(against)
  BY DEF compliance_summary
<1>2. failing = {CheckOf[g] : g \in counted}
  BY DEF FailingChecks, ActiveForCompliance, ActiveInCatalog
<1>3. counted \subseteq Groups /\ against \in SUBSET Groups
  BY DEF Rows
<1>4. \A g \in counted : CheckOf[g] \in Checks
  BY <1>3, FindingViewsAssumption DEF Checks
<1>5. \A c \in Checks : _active_finding_counts(r)[c] = 0 <=> ~(\E g \in counted : CheckOf[g] = c)
  <2> SUFFICES ASSUME NEW c \in Checks
               PROVE  _active_finding_counts(r)[c] = 0 <=> ~(\E g \in counted : CheckOf[g] = c)
    OBVIOUS
  <2>1. _active_finding_counts(r)[c] = Cardinality({g \in counted : CheckOf[g] = c})
    BY DEF _active_finding_counts
  <2>2. {g \in counted : CheckOf[g] = c} \in SUBSET Groups
    BY <1>3
  <2> QED
    BY <2>1, <2>2, RowsFinite
<1>6. Cardinality(against) = 0 <=> ~(\E g \in counted : k \in ControlsOf[CheckOf[g]])
  <2>1. Cardinality(against) = 0 <=> against = {}
    BY <1>3, RowsFinite
  <2> QED
    BY <2>1 DEF ActiveForCompliance, ActiveInCatalog
<1> HIDE DEF counted, against, failing, shown
<1>7. shown.passing <=> ~(\E g \in counted : k \in ControlsOf[CheckOf[g]])
  BY <1>1, <1>2
<1>8. shown.passing <=> \A c \in Checks : k \in ControlsOf[c] => _active_finding_counts(r)[c] = 0
  BY <1>4, <1>5, <1>7
<1> QED
  BY <1>1, <1>6, <1>7, <1>8 DEF shown

\* The front page is of the newest completed run.
LEMMA FrontPage ==
    ASSUME index # NoPage
    PROVE  /\ latest_run # NoRun
           /\ index.run = latest_run /\ index.active = build_dashboard(latest_run)
           /\ index.trend = score_trend(TrendLength)
           /\ index.frameworks = compliance_summary(latest_run)
  BY DEF index, NoPage, latest_run, current_completed_run_id, CompletedRuns

LEMMA PagesDoAgree == PagesAgree
<1> DEFINE active_rows == [status |-> {"open", "investigating"}, check |-> {}]
<1>1. current_completed_run_id = latest_run
  BY DEF current_completed_run_id, latest_run, CompletedRuns
<1>2. FacetsSayWhatIsLeft
  <2>1. ASSUME NEW r, NEW st
        PROVE  FacetCount(r, st) = Cardinality(ApplyFilters(r, [status |-> {st}, check |-> {}]))
    <3>1. ApplyFilters(r, [status |-> {st}, check |-> {}]) = {g \in Rows(r) : finding[g][r] = st}
      BY DEF ApplyFilters
    <3> QED
      BY <3>1 DEF FacetCount
  <2> QED
    BY <2>1 DEF FacetsSayWhatIsLeft
<1>3. index = NoPage <=> latest_run = NoRun
  <2>1. CASE latest_run = NoRun
    BY <1>1, <2>1 DEF index
  <2>2. CASE latest_run # NoRun
    <3>1. index.run = latest_run
      BY <1>1, <2>2 DEF index
    <3>2. NoPage.run = NoRun
      BY DEF NoPage
    <3> QED
      BY <2>2, <3>1, <3>2
  <2> QED
    BY <2>1, <2>2
<1>4. ASSUME index # NoPage
      PROVE  /\ index.run = latest_run
             /\ index.active = ApplyFilters(latest_run, active_rows)
             /\ index.run \in index.trend /\ Cardinality(index.trend) <= TrendLength
             /\ \A k \in Controls : LET shown == index.frameworks[k] IN
                   /\ shown.passing <=> \A c \in Checks : k \in ControlsOf[c]
                                            => _active_finding_counts(current_completed_run_id)[c] = 0
                   /\ shown.passing <=> shown.count = 0
  <2>1. latest_run \in score_trend(TrendLength)
    <3>1. CompletedRuns \in SUBSET Runs /\ CompletedRuns # {}
      BY <1>4, FrontPage DEF CompletedRuns, latest_run, Newest
    <3>2. latest_run \in CompletedRuns /\ \A q \in CompletedRuns : q <= latest_run
      BY <3>1, NewestIsGreatest DEF latest_run
    <3>3. {q \in CompletedRuns : q > latest_run} = {}
      <4>1. ASSUME NEW q \in CompletedRuns
            PROVE  ~(q > latest_run)
        <5>1. q \in Nat /\ latest_run \in Nat
          BY <3>1, <3>2, RunsFinite
        <5> QED
          BY <3>2, <5>1
      <4> QED
        BY <4>1
    <3>4. Cardinality({q \in CompletedRuns : q > latest_run}) = 0
      BY <3>3, FS_EmptySet
    <3> QED
      BY <3>2, <3>4, FindingViewsAssumption DEF score_trend
  <2>2. Cardinality(score_trend(TrendLength)) <= TrendLength
    BY TrendIsCut, FindingViewsAssumption
  <2>3. build_dashboard(latest_run) = ApplyFilters(latest_run, active_rows)
    BY ActiveRows
  <2> QED
    BY <1>1, <1>4, <2>1, <2>2, <2>3, FrontPage, ControlsFollowTheCatalog
<1>5. \A c \in Checks :
         _active_finding_counts(current_completed_run_id)[c]
            = Cardinality(ApplyFilters(latest_run, [active_rows EXCEPT !.check = {c}]))
  BY <1>1, ActiveRows
<1>6. runs_page.can_compare =>
         LET board == runs_diff(NoRun, NoRun) IN
         /\ board[2] = runs_page.current /\ board[1] \in CompletedRuns
         /\ score_trend(2) = {board[1], current_completed_run_id}
  BY CompareIsTheNewestTwo DEF runs_page
<1>7. \A a, b \in runs_page.rows :
         a # b => runs_diff(a, b) # NoBoard /\ runs_diff(a, b) = runs_diff(b, a)
  BY BoardOfTwo DEF runs_page
<1> QED
  BY <1>2, <1>3, <1>4, <1>5, <1>6, <1>7, EveryRowHasItsPage DEF PagesAgree

\* Whatever has happened, the pages agree about the current run and about what
\* is active in it, and the table leaves nothing of it out (dashboard.py,
\* compliance_view.py, checks_catalog.py, finding_query.py, run_query.py).
THEOREM ViewsPagesAgree == Spec => []PagesAgree
  BY PagesDoAgree, PTL
=============================================================================
