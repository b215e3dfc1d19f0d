----------------------- MODULE FindingLifecycleProofs -----------------------
(***************************************************************************)
(* The abstract lifecycle keeps its audit trails replayable, for any set   *)
(* of groups and trails of any length.                                     *)
(***************************************************************************)
EXTENDS FindingLifecycle, TLAPS

\* The variables of the lifecycle keep their types: a group has a status or is
\* absent, and its trail is a sequence of audit rows.
LEMMA LifecycleTyped == Spec => []TypeOK
<1>1. Init => TypeOK
  BY DEF Init, TypeOK
<1>2. TypeOK /\ [Next]_vars => TypeOK'
  BY DEF Next, vars, TypeOK
<1> QED
  BY <1>1, <1>2, PTL DEF Spec

-----------------------------------------------------------------------------
\* What AuditReplays says of one group.
Sound(g) ==
    /\ Replays(g)
    /\ \A i \in 1 .. Len(history[g]) :
          LegalMove(history[g][i].from, history[g][i].to, history[g][i].by)

\* Appending the row of a move to a sound trail leaves it sound.
LEMMA AppendKeepsSound ==
    ASSUME TypeOK, NEW g \in Groups, Sound(g), contested \subseteq contested',
           NEW from \in Status \cup {Absent}, NEW to \in Status, NEW by \in Writers,
           Move(g, from, to, by)
    PROVE  Sound(g)'
<1> DEFINE h == history[g]
           n == Len(h)
           row == Row(from, to, by)
<1>1. h \in Seq(AuditRow) /\ n \in Nat /\ row \in AuditRow
  <2>1. row \in AuditRow
    BY DEF Row, AuditRow
  <2> QED
    BY <2>1 DEF TypeOK
<1>2. row.from = from /\ row.to = to /\ row.by = by /\ LegalMove(from, to, by)
  BY DEF Row, Move
<1>3. history'[g] \in Seq(AuditRow) /\ Len(history'[g]) = n + 1 /\ history'[g][n + 1] = row
  BY <1>1 DEF Move
<1>4. \A i \in 1 .. n : history'[g][i] = h[i]
  BY <1>1 DEF Move
<1>5. n = 0 <=> h = <<>>
  BY <1>1
<1>6. status'[g] = to /\ to # Absent
  BY DEF Status, Absent, Move
<1>7. history'[g][1].from = Absent
  <2>1. CASE n = 0
    <3>1. status[g] = Absent /\ Past(g) = {}
      BY <2>1, <1>5 DEF Sound, Replays, Past
    <3>2. from = Absent
      BY <3>1 DEF Move
    <3> QED
      BY <2>1, <3>2, <1>2, <1>3
  <2>2. CASE n > 0
    BY <2>2, <1>1, <1>4, <1>5 DEF Sound, Replays
  <2> QED
    BY <2>1, <2>2, <1>1
<1>8. ASSUME NEW i \in 2 .. n + 1
      PROVE  /\ \E j \in 1 .. i - 1 : history'[g][i].from = history'[g][j].to
             /\ g \notin contested' => history'[g][i].from = history'[g][i - 1].to
  <2>1. CASE i \in 2 .. n
    <3>1. PICK j \in 1 .. i - 1 : h[i].from = h[j].to
      BY <2>1 DEF Sound, Replays
    <3>2. g \notin contested' => h[i].from = h[i - 1].to
      BY <2>1 DEF Sound, Replays
    <3>3. i \in 1 .. n /\ j \in 1 .. n /\ i - 1 \in 1 .. n
      BY <2>1, <3>1, <1>1
    <3> QED
      BY <3>1, <3>2, <3>3, <1>4
  <2>2. CASE i = n + 1
    <3>1. n \in 1 .. n /\ h # <<>>
      BY <2>2, <1>1, <1>5
    <3>2. h[n].to = status[g] /\ history'[g][n].to = status[g]
      BY <3>1, <1>4 DEF Sound, Replays
    <3>3. CASE from = status[g]
      BY <2>2, <3>1, <3>2, <3>3, <1>1, <1>2, <1>3
    <3>4. CASE g \in contested' /\ from \in Past(g)
      <4>1. PICK j \in 1 .. n : from = h[j].to
        BY <3>4 DEF Past
      <4> QED
        BY <2>2, <3>4, <4>1, <1>1, <1>2, <1>3, <1>4
    <3> QED
      BY <3>3, <3>4 DEF Move
  <2> QED
    BY <2>1, <2>2, <1>1
<1>9. ASSUME NEW i \in 1 .. n + 1
      PROVE  LegalMove(history'[g][i].from, history'[g][i].to, history'[g][i].by)
  <2>1. CASE i = n + 1
    BY <2>1, <1>2, <1>3
  <2>2. CASE i \in 1 .. n
    <3>1. LegalMove(h[i].from, h[i].to, h[i].by) /\ history'[g][i] = h[i]
      BY <2>2, <1>4 DEF Sound
    <3> QED
      BY <3>1
  <2> QED
    BY <2>1, <2>2, <1>1
<1>10. history'[g] # <<>>
  BY <1>1, <1>3
<1> QED
  BY <1>1, <1>2, <1>3, <1>6, <1>7, <1>8, <1>9, <1>10 DEF Sound, Replays

\* Every trail can be replayed to the present status by legal moves only, each
\* from a status the group has had, and in one chain while it is not contested.
THEOREM LifecycleAuditReplays == Spec => []AuditReplays
<1>1. Init => AuditReplays
  BY DEF Init, AuditReplays, Replays
<1>2. TypeOK /\ AuditReplays /\ [Next]_vars => AuditReplays'
  <2> SUFFICES ASSUME TypeOK, AuditReplays, [Next]_vars
               PROVE  AuditReplays'
    OBVIOUS
  <2>1. \A g \in Groups : Sound(g)
    BY DEF AuditReplays, Sound
  <2>2. ASSUME NEW g \in Groups
        PROVE  Sound(g)'
    <3>0. contested \subseteq contested'
      BY DEF Next, vars
    <3>1. CASE UNCHANGED <<status[g], history[g]>>
      BY <3>1, <3>0, <2>1 DEF Sound, Replays
    <3>2. CASE Next /\ ~UNCHANGED <<status[g], history[g]>>
      <4>1. PICK to \in Status, by \in Writers, from \in Status \cup {Absent} : Move(g, from, to, by)
        BY <3>2 DEF Next
      <4> QED
        BY <4>1, <3>0, <2>1, AppendKeepsSound
    <3> QED
      BY <3>1, <3>2 DEF vars
  <2> QED
    BY <2>2 DEF AuditReplays, Sound
<1> QED
  BY <1>1, <1>2, LifecycleTyped, PTL DEF Spec
=============================================================================
