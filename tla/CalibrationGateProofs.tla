------------------------ MODULE CalibrationGateProofs ------------------------
(***************************************************************************)
(* Proofs about CalibrationGate, for any runs, gates and sessions.         *)
(***************************************************************************)
EXTENDS CalibrationGate, TLAPS

(* Every variable stays in its type, and whatif runs stay unpublished.     *)
THEOREM TypeCorrect == Spec => []TypeOK
<1> USE DEF TypeOK, RunKind, Active, Scheduled
<1>1. Init => TypeOK
  BY DEF Init
<1>2. TypeOK /\ [Next]_vars => TypeOK'
  <2> SUFFICES ASSUME TypeOK, [Next]_vars PROVE TypeOK'
    OBVIOUS
  <2>1. ASSUME NEW r \in Runs, NEW k \in RunKind, WriteForecast(r, k) PROVE TypeOK'
    BY <2>1 DEF WriteForecast
  <2>2. ASSUME NEW s \in Sessions, NEW F \in SUBSET Gates, Judge(s, F) PROVE TypeOK'
    BY <2>2 DEF Judge, db, Committed
  <2>3. ASSUME NEW s \in Sessions,
               NoSuchRun(s) \/ ReadState(s) \/ ReadRecorded(s) \/ Publish(s) \/ Abort(s)
        PROVE  TypeOK'
    BY <2>3 DEF NoSuchRun, ReadState, ReadRecorded, Publish, Abort, db
  <2>4. ASSUME NEW s \in Sessions, InsertFailures(s) PROVE TypeOK'
    BY <2>4 DEF InsertFailures, db
  <2>5. ASSUME NEW s \in Sessions, Commit(s) PROVE TypeOK'
    BY <2>5 DEF Commit, Updated
  <2>6. CASE UNCHANGED vars
    BY <2>6 DEF vars, db
  <2>7. QED
    BY <2>1, <2>2, <2>3, <2>4, <2>5, <2>6 DEF Next, Session
<1>3. QED
  BY <1>1, <1>2, PTL DEF Spec

-----------------------------------------------------------------------------
(* What no step changes: the runs the sessions were called with, the kind  *)
(* of a run that exists, the verdict of a session that has judged, a       *)
(* session that has ended, a row and a publication once they are there.    *)
Kept ==
  /\ run' = run
  /\ \A r \in Runs : kind[r] # "absent" => kind'[r] = kind[r]
  /\ \A s \in Sessions : pc[s] # "start" => failed'[s] = failed[s] /\ before'[s] = before[s]
  /\ \A s \in Sessions : pc[s] = "committed" => pc'[s] = "committed" /\ insert'[s] = insert[s]
  /\ failures \subseteq failures' /\ published \subseteq published'

LEMMA History ==
  ASSUME TypeOK, [Next]_vars
  PROVE  Kept
<1> USE DEF TypeOK, Active, Kept
<1>1. ASSUME NEW r \in Runs, NEW k \in RunKind, WriteForecast(r, k) PROVE Kept
  BY <1>1 DEF WriteForecast
<1>2. ASSUME NEW s \in Sessions, Session(s) PROVE Kept
  BY <1>2 DEF Session, Judge, NoSuchRun, ReadState, ReadRecorded, InsertFailures, Publish,
              Commit, Abort, db
<1>3. CASE UNCHANGED vars
  BY <1>3 DEF vars, db
<1>4. QED
  BY <1>1, <1>2, <1>3 DEF Next

(* A gate is recorded for a run when some row says so.                     *)
Has(r, g) == \E row \in failures : row.run = r /\ row.gate = g

LEMMA RecordedHas == \A r, g : g \in Recorded(r) <=> Has(r, g)
BY DEF Recorded, Has

-----------------------------------------------------------------------------
(* What a session may rely on where it is: its run exists, a publishing    *)
(* session passed every gate and a recording one did not, what it inserts  *)
(* it failed, and when it is ready to commit its verdict is recorded or    *)
(* about to be.                                                            *)
Sound(s) ==
  /\ pc[s] \in Active \cup {"committed"} => kind[run[s]] # "absent"
  /\ pc[s] \in {"passing", "updated"} => failed[s] = {}
  /\ pc[s] \in {"unrecorded", "failing"} => failed[s] # {}
  /\ insert[s] \subseteq failed[s]
  /\ pc[s] \notin {"ready", "committed", "aborted"} => insert[s] = {}
  /\ before[s] \subseteq Committed
  /\ pc[s] = "ready" => \A g \in failed[s] : g \in insert[s] \/ Has(run[s], g)
  /\ pc[s] = "ready" /\ failed[s] = {} => run[s] \in published

LEMMA SoundHolds == Spec => [](\A s \in Sessions : Sound(s))
<1> DEFINE Inv == \A s \in Sessions : Sound(s)
<1>1. Init => Inv
  BY DEF Init, Sound, Active
<1>2. TypeOK /\ Inv /\ [Next]_vars => Inv'
  <2> SUFFICES ASSUME TypeOK, Inv, [Next]_vars, NEW t \in Sessions PROVE Sound(t)'
    OBVIOUS
  <2> USE DEF TypeOK, Sound, Active
  <2>1. Kept
    BY History
  <2>2. \A g : Has(run[t], g) => Has(run[t], g)'
    BY <2>1 DEF Kept, Has
  <2>3. Committed \subseteq Committed'
    BY <2>1 DEF Kept, Committed
  <2>0. \A g : g \in Recorded(run[t]) <=> Has(run[t], g)
    BY RecordedHas
  <2> USE <2>1, <2>2, <2>3 DEF Kept
  <2>4. ASSUME pc'[t] = pc[t], failed'[t] = failed[t], insert'[t] = insert[t], before'[t] = before[t]
        PROVE  Sound(t)'
    BY <2>4
  <2>5. ASSUME NEW F \in SUBSET Gates, Judge(t, F) PROVE Sound(t)'
    BY <2>5 DEF Judge, db
  <2>6. CASE NoSuchRun(t) \/ Abort(t)
    BY <2>6 DEF NoSuchRun, Abort, db
  <2>7. CASE ReadState(t)
    BY <2>7 DEF ReadState, db
  <2>8. CASE ReadRecorded(t)
    BY <2>8, <2>0 DEF ReadRecorded, db
  <2>9. CASE InsertFailures(t)
    BY <2>9, <2>0 DEF InsertFailures, db
  <2>10. CASE Publish(t) \/ Commit(t)
    BY <2>10 DEF Publish, Commit
  <2>11. QED
    <3>1. ASSUME NEW s \in Sessions, s # t, Session(s)
          PROVE  pc'[t] = pc[t] /\ failed'[t] = failed[t] /\ insert'[t] = insert[t] /\ before'[t] = before[t]
      BY <3>1 DEF Session, Judge, NoSuchRun, ReadState, ReadRecorded, InsertFailures, Publish,
                  Commit, Abort
    <3>2. ASSUME UNCHANGED <<pc, failed, insert, before>> PROVE Sound(t)'
      BY <2>4, <3>2
    <3>3. QED
      BY <2>4, <2>5, <2>6, <2>7, <2>8, <2>9, <2>10, <3>1, <3>2
      DEF Next, Session, WriteForecast, vars
<1>3. QED
  BY <1>1, <1>2, TypeCorrect, PTL DEF Spec

-----------------------------------------------------------------------------
(* No run is published but by a session that found it good on every gate.  *)
THEOREM OnlyPassedRunsArePublished == Spec => []PublishedWasPassed
<1> USE DEF PublishedWasPassed, Committed
<1>1. Init => PublishedWasPassed
  BY DEF Init
<1>2. TypeOK /\ (\A s \in Sessions : Sound(s)) /\ PublishedWasPassed /\ [Next]_vars
      => PublishedWasPassed'
  <2> SUFFICES ASSUME TypeOK, \A s \in Sessions : Sound(s), PublishedWasPassed, [Next]_vars
               PROVE  PublishedWasPassed'
    OBVIOUS
  <2>1. Kept
    BY History
  <2>2. ASSUME NEW s \in Sessions, Commit(s) PROVE PublishedWasPassed'
    <3>1. ASSUME NEW r \in published' PROVE \E t \in Sessions : pc'[t] = "committed" /\ run'[t] = r /\ failed'[t] = {}
      <4>1. CASE r \in published
        BY <2>1, <4>1 DEF Kept, TypeOK
      <4>2. CASE r \notin published
        <5>1. pc[s] = "updated" /\ r = run[s]
          BY <2>2, <3>1, <4>2 DEF Commit, Updated
        <5>2. QED
          BY <2>1, <2>2, <5>1 DEF Commit, Sound, TypeOK, Kept
      <4>3. QED
        BY <4>1, <4>2
    <3>2. QED
      BY <3>1
  <2>3. ASSUME published' = published PROVE PublishedWasPassed'
    <3>1. \A t \in Sessions : pc[t] = "committed" /\ failed[t] = {}
                              => pc'[t] = "committed" /\ failed'[t] = {}
      BY <2>1 DEF Kept
    <3>2. QED
      BY <2>1, <2>3, <3>1 DEF Kept
  <2>4. QED
    BY <2>2, <2>3 DEF Next, Session, WriteForecast, Judge, NoSuchRun, ReadState, ReadRecorded,
                      InsertFailures, Publish, Abort, db, vars
<1>3. QED
  BY <1>1, <1>2, TypeCorrect, SoundHolds, PTL DEF Spec

-----------------------------------------------------------------------------
(* Every committed failing verdict is in the table in full, and the table  *)
(* holds nothing else.                                                     *)
THEOREM VerdictsStayRecorded == Spec => []VerdictsAreRecorded
<1> DEFINE Rows == \A row \in failures :
                     pc[row.by] = "committed" /\ run[row.by] = row.run /\ row.gate \in failed[row.by]
           Full == \A s \in Sessions : pc[s] = "committed" => \A g \in failed[s] : Has(run[s], g)
           Inv == Rows /\ Full
<1>1. TypeOK => (VerdictsAreRecorded <=> Inv)
  <2> SUFFICES ASSUME TypeOK PROVE VerdictsAreRecorded <=> Inv
    OBVIOUS
  <2>1. \A row \in failures : row.by \in Sessions
    BY DEF TypeOK
  <2>2. \A s \in Sessions : failed[s] \subseteq Recorded(run[s]) <=> \A g \in failed[s] : Has(run[s], g)
    BY RecordedHas
  <2>3. QED
    BY <2>1, <2>2 DEF VerdictsAreRecorded, Committed
<1>2. Init => Inv
  BY DEF Init
<1>3. TypeOK /\ (\A s \in Sessions : Sound(s)) /\ Inv /\ [Next]_vars => Inv'
  <2> SUFFICES ASSUME TypeOK, \A s \in Sessions : Sound(s), Inv, [Next]_vars PROVE Inv'
    OBVIOUS
  <2>1. Kept
    BY History
  <2>2. ASSUME NEW s \in Sessions, Commit(s) PROVE Inv'
    <3>1. /\ failures' = failures \cup [run : {run[s]}, gate : insert[s], by : {s}]
          /\ pc' = [pc EXCEPT ![s] = "committed"] /\ run' = run /\ failed' = failed
          /\ pc[s] \in {"updated", "ready"}
      BY <2>2 DEF Commit
    <3>2. ASSUME NEW row \in failures'
          PROVE  pc'[row.by] = "committed" /\ run'[row.by] = row.run /\ row.gate \in failed'[row.by]
      <4>1. CASE row \in failures
        BY <2>1, <3>1, <4>1 DEF Kept, TypeOK
      <4>2. CASE row \in [run : {run[s]}, gate : insert[s], by : {s}]
        BY <3>1, <4>2 DEF TypeOK, Sound
      <4>3. QED
        BY <3>1, <4>1, <4>2
    <3>3. ASSUME NEW t \in Sessions, pc'[t] = "committed", NEW g \in failed[t]
          PROVE  \E row \in failures' : row.run = run[t] /\ row.gate = g
      <4>1. CASE Has(run[t], g)
        BY <2>1, <4>1 DEF Kept, Has
      <4>2. CASE ~Has(run[t], g)
        <5>1. t = s /\ g \in insert[s]
          BY <3>1, <3>3, <4>2 DEF TypeOK, Sound
        <5>2. [run |-> run[s], gate |-> g, by |-> s] \in failures'
          BY <3>1, <5>1
        <5>3. QED
          BY <5>1, <5>2
      <4>3. QED
        BY <4>1, <4>2
    <3>4. QED
      BY <3>1, <3>2, <3>3 DEF Has
  <2>3. ASSUME failures' = failures, \A s \in Sessions : pc'[s] = "committed" => pc[s] = "committed"
        PROVE  Inv'
    <3>1. \A row \in failures : row.by \in Sessions
      BY DEF TypeOK
    <3>2. \A s \in Sessions : pc[s] = "committed" => pc'[s] = "committed" /\ failed'[s] = failed[s]
      BY <2>1 DEF Kept
    <3>3. QED
      BY <2>1, <2>3, <3>1, <3>2 DEF Kept, Has
  <2>4. QED
    <3>1. ASSUME NEW s \in Sessions, Session(s), ~Commit(s)
          PROVE  failures' = failures /\ \A t \in Sessions : pc'[t] = "committed" => pc[t] = "committed"
      BY <3>1 DEF TypeOK, Session, Judge, NoSuchRun, ReadState, ReadRecorded, InsertFailures, Publish,
                  Abort, db
    <3>2. QED
      BY <2>2, <2>3, <3>1 DEF Next, WriteForecast, vars, db
<1>4. Spec => []Inv
  BY <1>2, <1>3, TypeCorrect, SoundHolds, PTL DEF Spec
<1>5. QED
  BY <1>1, <1>4, TypeCorrect, PTL

-----------------------------------------------------------------------------
(* A session inserts nothing that a predecessor of its has recorded.       *)
Fresh == \A s \in Sessions, row \in failures :
           row.by \in before[s] /\ row.run = run[s] => row.gate \notin insert[s]

(* Sessions that follow one another record a failure once.                 *)
THEOREM SuccessorsStayDistinct == Spec => []SuccessorsAddNoDuplicate
<1> DEFINE Inv == Fresh /\ SuccessorsAddNoDuplicate
<1>1. Init => Inv
  BY DEF Init, Fresh, SuccessorsAddNoDuplicate
<1>2. /\ TypeOK /\ VerdictsAreRecorded /\ (\A s \in Sessions : Sound(s)) /\ Inv
      /\ [Next]_vars
      => Inv'
  <2> SUFFICES ASSUME TypeOK, VerdictsAreRecorded, \A s \in Sessions : Sound(s), Inv, [Next]_vars
               PROVE  Inv'
    OBVIOUS
  <2>1. Kept
    BY History
  <2>2. \A row \in failures : row.by \in Sessions /\ pc[row.by] = "committed" /\ row.gate \in failed[row.by]
    BY DEF VerdictsAreRecorded, Committed
  <2>3. \A s \in Sessions : pc[s] # "start" => before'[s] = before[s]
    BY <2>1 DEF Kept
  <2>4. \A s \in Sessions : \A t \in before[s] : t \in Sessions /\ pc[t] = "committed"
    BY DEF Sound, Committed
  <2>5. ASSUME NEW s \in Sessions, NEW F \in SUBSET Gates, Judge(s, F) PROVE Inv'
    <3>1. /\ failures' = failures /\ run' = run /\ insert' = insert
          /\ pc[s] = "start" /\ insert[s] = {}
          /\ \A t \in Sessions : t # s => before'[t] = before[t]
      BY <2>5 DEF Judge, db, Sound
    <3>2. Fresh'
      BY <3>1 DEF Fresh
    <3>3. SuccessorsAddNoDuplicate'
      BY <2>2, <3>1 DEF SuccessorsAddNoDuplicate
    <3>4. QED
      BY <3>2, <3>3
  <2>6. ASSUME NEW s \in Sessions, InsertFailures(s) PROVE Inv'
    <3>1. /\ failures' = failures /\ run' = run /\ before' = before
          /\ \A t \in Sessions : insert'[t] = IF t = s THEN failed[s] \ Recorded(run[s]) ELSE insert[t]
      BY <2>6 DEF InsertFailures, db, TypeOK
    <3>2. \A row \in failures : row.run = run[s] => row.gate \in Recorded(run[s])
      BY RecordedHas DEF Has
    <3>3. QED
      BY <3>1, <3>2 DEF Fresh, SuccessorsAddNoDuplicate
  <2>7. ASSUME NEW s \in Sessions, Commit(s) PROVE Inv'
    <3>1. /\ failures' = failures \cup [run : {run[s]}, gate : insert[s], by : {s}]
          /\ run' = run /\ before' = before /\ insert' = insert /\ pc[s] # "committed"
      BY <2>7 DEF Commit
    <3>2. \A row \in failures' : row \in failures \/ (row.run = run[s] /\ row.gate \in insert[s] /\ row.by = s)
      BY <3>1
    <3>3. \A t \in Sessions : s \notin before[t]
      BY <2>4, <3>1
    <3>4. Fresh'
      BY <3>1, <3>2, <3>3 DEF Fresh
    <3>5. ASSUME NEW x \in failures', NEW y \in failures', x.run = y.run, x.gate = y.gate, x.by # y.by
          PROVE  x.by \notin before'[y.by]
      <4>1. CASE x \in failures /\ y \in failures
        BY <3>1, <3>5, <4>1 DEF SuccessorsAddNoDuplicate
      <4>2. CASE x \in failures /\ y \notin failures
        BY <3>1, <3>2, <3>5, <4>2 DEF Fresh
      <4>3. CASE x \notin failures
        <5>1. x.by = s /\ y \in failures
          BY <3>2, <3>5, <4>3
        <5>2. QED
          BY <2>2, <3>1, <3>3, <5>1
      <4>4. QED
        BY <4>1, <4>2, <4>3
    <3>6. QED
      BY <3>4, <3>5 DEF SuccessorsAddNoDuplicate
  <2>8. CASE UNCHANGED <<failures, run, before, insert>>
    BY <2>8 DEF Fresh, SuccessorsAddNoDuplicate
  <2>9. QED
    BY <2>5, <2>6, <2>7, <2>8
    DEF Next, Session, WriteForecast, NoSuchRun, ReadState, ReadRecorded, Publish, Abort, db, vars
<1>3. QED
  BY <1>1, <1>2, TypeCorrect, SoundHolds, VerdictsStayRecorded, PTL DEF Spec

-----------------------------------------------------------------------------
(* A verdict that passes holds its run published from then on, and a       *)
(* session that repeats an earlier verdict has no row to insert.           *)
Settled ==
  /\ \A s \in Sessions : pc[s] = "committed" /\ failed[s] = {} /\ kind[run[s]] = "scheduled"
                         => run[s] \in published
  /\ \A s \in Sessions : Repeats(s) => insert[s] = {}

LEMMA SettledHolds == Spec => []Settled
<1>1. Init => Settled
  BY DEF Init, Settled, Repeats
<1>2. /\ TypeOK /\ VerdictsAreRecorded /\ (\A s \in Sessions : Sound(s)) /\ Settled
      /\ [Next]_vars
      => Settled'
  <2> SUFFICES ASSUME TypeOK, VerdictsAreRecorded, \A s \in Sessions : Sound(s), Settled, [Next]_vars
               PROVE  Settled'
    OBVIOUS
  <2> DEFINE Out == \A s \in Sessions : pc[s] = "committed" /\ failed[s] = {} /\ kind[run[s]] = "scheduled"
                                        => run[s] \in published
             Still == \A s \in Sessions : Repeats(s) => insert[s] = {}
  <2>1. Kept
    BY History
  <2>2. \A s \in Sessions : run[s] \in Runs /\ run'[s] = run[s]
    BY <2>1 DEF Kept, TypeOK
  <2>3. \A s \in Sessions : pc[s] = "committed" => kind'[run[s]] = kind[run[s]] /\ failed'[s] = failed[s]
    BY <2>1, <2>2 DEF Kept, Sound
  <2>4. ASSUME NEW s \in Sessions, Commit(s) PROVE Out'
    <3>1. /\ kind' = kind /\ failed' = failed /\ run' = run
          /\ published' = published \cup Updated(s)
          /\ \A t \in Sessions : pc'[t] = IF t = s THEN "committed" ELSE pc[t]
          /\ pc[s] \in {"updated", "ready"}
      BY <2>4 DEF Commit, TypeOK
    <3>2. failed[s] = {} /\ kind[run[s]] = "scheduled" => run[s] \in published'
      BY <2>2, <3>1 DEF Updated, Scheduled, Sound
    <3>3. QED
      BY <3>1, <3>2 DEF Settled
  <2>5. ASSUME \A s \in Sessions : pc'[s] = "committed" => pc[s] = "committed" PROVE Out'
    BY <2>1, <2>2, <2>3, <2>5 DEF Kept, Settled
  <2>6. Out'
    <3>1. ASSUME NEW s \in Sessions, Session(s), ~Commit(s)
          PROVE  \A t \in Sessions : pc'[t] = "committed" => pc[t] = "committed"
      BY <3>1 DEF TypeOK, Session, Judge, NoSuchRun, ReadState, ReadRecorded, InsertFailures,
                  Publish, Abort
    <3>2. QED
      BY <2>4, <2>5, <3>1 DEF Next, WriteForecast, vars
  <2>7. ASSUME NEW s \in Sessions, Repeats(s)' PROVE insert'[s] = {}
    <3>1. PICK t \in before'[s] : run'[t] = run'[s] /\ failed'[t] = failed'[s]
      BY <2>7 DEF Repeats
    <3>2. CASE insert'[s] = insert[s] /\ pc[s] = "start"
      BY <3>2 DEF Sound
    <3>3. CASE insert'[s] = insert[s] /\ pc[s] # "start"
      <4>1. t \in before[s] /\ t \in Sessions /\ pc[t] = "committed" /\ failed'[s] = failed[s]
        BY <2>1, <3>1, <3>3 DEF Kept, Sound, Committed
      <4>2. Repeats(s)
        BY <2>2, <2>3, <3>1, <4>1 DEF Repeats
      <4>3. QED
        BY <3>3, <4>2 DEF Settled
    <3>4. CASE InsertFailures(s)
      <4>1. t \in Sessions /\ pc[t] = "committed" /\ before' = before /\ failed' = failed
        BY <3>1, <3>4 DEF InsertFailures, Sound, Committed
      <4>2. failed[t] \subseteq Recorded(run[t])
        BY <4>1 DEF VerdictsAreRecorded, Committed
      <4>3. insert'[s] = failed[s] \ Recorded(run[s])
        BY <3>4 DEF InsertFailures, TypeOK
      <4>4. QED
        BY <2>2, <3>1, <4>1, <4>2, <4>3
    <3>5. QED
      <4>1. ASSUME NEW r \in Sessions, Session(r), ~InsertFailures(s) PROVE insert'[s] = insert[s]
        BY <4>1 DEF TypeOK, Session, Judge, NoSuchRun, ReadState, ReadRecorded, InsertFailures,
                    Publish, Commit, Abort
      <4>2. QED
        BY <3>2, <3>3, <3>4, <4>1 DEF Next, WriteForecast, vars
  <2>8. QED
    BY <2>6, <2>7 DEF Settled
<1>3. QED
  BY <1>1, <1>2, TypeCorrect, SoundHolds, VerdictsStayRecorded, PTL DEF Spec

(* Committed failures are recorded, and once unless evaluations overlap.   *)
THEOREM RecordsStayExact == Spec => []RecordsAreExact
<1>1. VerdictsAreRecorded /\ SuccessorsAddNoDuplicate => RecordsAreExact
  BY DEF RecordsAreExact
<1>2. QED
  BY <1>1, VerdictsStayRecorded, SuccessorsStayDistinct, PTL

(* Re-running on a run that already reflects the result is a no-op.        *)
THEOREM RerunChangesNothing == Spec => RerunIsNoOp
<1>1. TypeOK /\ (\A s \in Sessions : Sound(s)) /\ Settled /\ [Next]_vars
      => [\A s \in Sessions : (Repeats(s) /\ pc'[s] # pc[s]) => UNCHANGED <<published, failures>>]_vars
  <2> SUFFICES ASSUME TypeOK, \A s \in Sessions : Sound(s), Settled, Next,
                      NEW s \in Sessions, Repeats(s), pc'[s] # pc[s]
               PROVE  UNCHANGED <<published, failures>>
    BY DEF vars, db
  <2>1. CASE Commit(s)
    <3>1. PICK t \in before[s] : run[t] = run[s] /\ failed[t] = failed[s]
      BY DEF Repeats
    <3>2. t \in Sessions /\ pc[t] = "committed" /\ insert[s] = {}
      BY <3>1 DEF Sound, Committed, Settled
    <3>3. Updated(s) \subseteq published
      BY <3>1, <3>2 DEF Updated, Scheduled, Sound, Settled
    <3>4. QED
      BY <2>1, <3>2, <3>3 DEF Commit
  <2>2. CASE ~Commit(s)
    <3>1. ASSUME NEW t \in Sessions, Commit(t) PROVE t = s
      BY <3>1 DEF Commit, TypeOK
    <3>2. QED
      BY <2>2, <3>1 DEF Next, Session, WriteForecast, Judge, NoSuchRun, ReadState, ReadRecorded,
                        InsertFailures, Publish, Abort, db
  <2>3. QED
    BY <2>1, <2>2
<1>2. QED
  BY <1>1, TypeCorrect, SoundHolds, SettledHolds, PTL DEF Spec, RerunIsNoOp
=============================================================================
