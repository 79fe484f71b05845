--------------------------- MODULE CalibrationGate ---------------------------
(***************************************************************************)
(* The calibration gate that publishes forecasts: calibrate.py, one        *)
(* database session per evaluation of a run, several of them at a time.    *)
(*                                                                         *)
(* A session judges a run (its backtest is a new MCMC fit every time, so   *)
(* two sessions may disagree), asks the database whether its verdict is    *)
(* there already, and if not publishes the run or records the gates that   *)
(* failed.  Every statement reads what is committed when it runs (READ     *)
(* COMMITTED); what a session writes is seen by the others when it commits.*)
(***************************************************************************)

CONSTANTS
  Runs,      \* forecast runs
  Gates,     \* calibration gates, C1 to C6
  Sessions   \* evaluations in the history of the system

VARIABLES
  kind,       \* forecasts.run_kind, or "absent"
  published,  \* runs with forecasts.is_published
  failures,   \* rows of calibration_failures
  pc,         \* progress of each session
  run,        \* the run it was called with (--run-id)
  failed,     \* the gates the run fails, in its evaluation
  insert,     \* the rows it has inserted and not committed, as gates
  before      \* history: sessions committed when it began

db == <<kind, published, failures>>
vars == <<db, pc, run, failed, insert, before>>

RunKind == {"scheduled", "whatif"}
Active == {"judged", "unrecorded", "failing", "passing", "updated", "ready"}

Committed == {s \in Sessions : pc[s] = "committed"}
Scheduled == {r \in Runs : kind[r] = "scheduled"}

(* _fetch_recorded_failure_gates, on what is committed. *)
Recorded(r) == {row.gate : row \in {x \in failures : x.run = r}}

-----------------------------------------------------------------------------
(* predict.py commits a run, not published.                                *)
WriteForecast(r, k) ==
  /\ kind[r] = "absent"
  /\ kind' = [kind EXCEPT ![r] = k]
  /\ UNCHANGED <<published, failures, pc, run, failed, insert, before>>

(* evaluate_and_apply_gates: the payload is loaded and judged.             *)
Judge(s, F) ==
  /\ pc[s] = "start"
  /\ kind[run[s]] # "absent"
  /\ pc' = [pc EXCEPT ![s] = "judged"]
  /\ failed' = [failed EXCEPT ![s] = F]
  /\ before' = [before EXCEPT ![s] = Committed]
  /\ UNCHANGED <<db, run, insert>>

(* load_payload finds no row and raises KeyError. *)
NoSuchRun(s) ==
  /\ pc[s] = "start"
  /\ kind[run[s]] = "absent"
  /\ pc' = [pc EXCEPT ![s] = "aborted"]
  /\ UNCHANGED <<db, run, failed, insert, before>>

(* Mutant of ReadState: one gate that passes is enough.                    *)
AnyGatePasses(s) ==
  /\ pc[s] = "judged"
  /\ pc' = [pc EXCEPT ![s] =
              IF failed[s] # Gates THEN IF run[s] \in published THEN "ready" ELSE "passing"
              ELSE IF run[s] \in published THEN "failing" ELSE "unrecorded"]
  /\ UNCHANGED <<db, run, failed, insert, before>>

(* _is_idempotent_noop, first read: is the run published?  A pass has      *)
(* nothing to do on a published run; a failure has, whatever is recorded.  *)
ReadState(s) ==
  /\ pc[s] = "judged"
  /\ pc' = [pc EXCEPT ![s] =
              IF failed[s] = {} THEN IF run[s] \in published THEN "ready" ELSE "passing"
              ELSE IF run[s] \in published THEN "failing" ELSE "unrecorded"]
  /\ UNCHANGED <<db, run, failed, insert, before>>

(* Mutant of ReadRecorded: one recorded gate is enough.                    *)
AnyRecorded(s) ==
  /\ pc[s] = "unrecorded"
  /\ pc' = [pc EXCEPT ![s] =
              IF failed[s] \cap Recorded(run[s]) # {} THEN "ready" ELSE "failing"]
  /\ UNCHANGED <<db, run, failed, insert, before>>

(* _is_idempotent_noop, second read: is every failed gate recorded?        *)
ReadRecorded(s) ==
  /\ pc[s] = "unrecorded"
  /\ pc' = [pc EXCEPT ![s] = IF failed[s] \subseteq Recorded(run[s]) THEN "ready" ELSE "failing"]
  /\ UNCHANGED <<db, run, failed, insert, before>>

(* Mutant of InsertFailures: nothing is skipped.                           *)
InsertAll(s) ==
  /\ pc[s] = "failing"
  /\ pc' = [pc EXCEPT ![s] = "ready"]
  /\ insert' = [insert EXCEPT ![s] = failed[s]]
  /\ UNCHANGED <<db, run, failed, before>>

(* apply_calibration_result, some gate failed: the recorded gates are read *)
(* again and one row is inserted for each of the others.                   *)
InsertFailures(s) ==
  /\ pc[s] = "failing"
  /\ pc' = [pc EXCEPT ![s] = "ready"]
  /\ insert' = [insert EXCEPT ![s] = failed[s] \ Recorded(run[s])]
  /\ UNCHANGED <<db, run, failed, before>>

(* Mutant of Updated: the UPDATE without its run_kind condition.           *)
UpdatedAny(s) == IF pc[s] = "updated" THEN {run[s]} ELSE {}

(* The rows that the UPDATE changes: never those of a whatif run. *)
Updated(s) == IF pc[s] = "updated" THEN {run[s]} \cap Scheduled ELSE {}

(* apply_calibration_result, all gates passed: the UPDATE takes the row's  *)
(* lock, which another session may hold until it ends.                     *)
Publish(s) ==
  /\ pc[s] = "passing"
  /\ \A t \in Sessions : run[s] \notin Updated(t)
  /\ pc' = [pc EXCEPT ![s] = "updated"]
  /\ UNCHANGED <<db, run, failed, insert, before>>

(* The caller commits. *)
Commit(s) ==
  /\ pc[s] \in {"updated", "ready"}
  /\ published' = published \cup Updated(s)
  /\ failures' = failures \cup [run : {run[s]}, gate : insert[s], by : {s}]
  /\ pc' = [pc EXCEPT ![s] = "committed"]
  /\ UNCHANGED <<kind, run, failed, insert, before>>

(* A statement fails, or the process dies: the transaction is rolled back. *)
Abort(s) ==
  /\ pc[s] \in Active
  /\ pc' = [pc EXCEPT ![s] = "aborted"]
  /\ UNCHANGED <<db, run, failed, insert, before>>

-----------------------------------------------------------------------------
Init ==
  /\ kind = [r \in Runs |-> "absent"]
  /\ published = {}
  /\ failures = {}
  /\ pc = [s \in Sessions |-> "start"]
  /\ run \in [Sessions -> Runs]
  /\ failed = [s \in Sessions |-> {}]
  /\ insert = [s \in Sessions |-> {}]
  /\ before = [s \in Sessions |-> {}]

Session(s) ==
  \/ \E F \in SUBSET Gates : Judge(s, F)
  \/ NoSuchRun(s)
  \/ ReadState(s)
  \/ ReadRecorded(s)
  \/ InsertFailures(s)
  \/ Publish(s)
  \/ Commit(s)
  \/ Abort(s)

Next ==
  \/ \E r \in Runs, k \in RunKind : WriteForecast(r, k)
  \/ \E s \in Sessions : Session(s)

Spec == Init /\ [][Next]_vars

-----------------------------------------------------------------------------
(* Besides the types: only rows of scheduled runs are ever published.      *)
TypeOK ==
  /\ kind \in [Runs -> RunKind \cup {"absent"}]
  /\ published \in SUBSET Scheduled
  /\ failures \in SUBSET [run : Runs, gate : Gates, by : Sessions]
  /\ pc \in [Sessions -> Active \cup {"start", "committed", "aborted"}]
  /\ run \in [Sessions -> Runs]
  /\ failed \in [Sessions -> SUBSET Gates]
  /\ insert \in [Sessions -> SUBSET Gates]
  /\ before \in [Sessions -> SUBSET Sessions]

(* A published run was passed on every gate by a session that committed.   *)
PublishedWasPassed ==
  \A r \in published : \E s \in Committed : run[s] = r /\ failed[s] = {}

(* The verdicts that count are recorded in full: once a session that found *)
(* failures has committed, each gate it failed has a row, its own or one   *)
(* that was there; and every row is of a session that committed and failed *)
(* that gate.                                                              *)
VerdictsAreRecorded ==
  /\ \A s \in Committed : failed[s] \subseteq Recorded(run[s])
  /\ \A row \in failures :
       row.by \in Committed /\ run[row.by] = row.run /\ row.gate \in failed[row.by]

(* A failure is not recorded twice by sessions that follow one another,    *)
(* whatever ran, failed or was cut short besides.                          *)
SuccessorsAddNoDuplicate ==
  \A x, y \in failures :
    (x.run = y.run /\ x.gate = y.gate /\ x.by # y.by) => x.by \notin before[y.by]

(* The failures of committed verdicts are on record, and twice only where  *)
(* evaluations overlapped: the check for recorded gates takes no lock.     *)
RecordsAreExact == VerdictsAreRecorded /\ SuccessorsAddNoDuplicate

(* Re-running on a run that already reflects the result is a no-op: a      *)
(* session that repeats the verdict of an earlier one changes nothing.     *)
Repeats(s) == \E t \in before[s] : run[t] = run[s] /\ failed[t] = failed[s]
RerunIsNoOp ==
  [][\A s \in Sessions :
       (Repeats(s) /\ pc'[s] # pc[s]) => UNCHANGED <<published, failures>>]_vars

=============================================================================
