-------------------------- MODULE ForecastProduction --------------------------
(***************************************************************************)
(* How a forecast comes about: operators insert interventions              *)
(* (intervene.py), runs fit a posterior, load the interventions that are   *)
(* active, apply them and write the payload (predict.py), which the gates  *)
(* of calibrate.py judge.                                                  *)
(*                                                                         *)
(* Any step of a run may be its last: a crash or an error leaves nothing,  *)
(* since the payload is written and committed at the end.  What the gates  *)
(* say is a function of payload and backtest; the sessions that act on it  *)
(* are the subject of CalibrationGate.                                     *)
(***************************************************************************)
EXTENDS Posterior

CONSTANTS
  MaxRows,     \* calls of intervene.py that insert a row
  Runs,        \* calls of produce_forecast
  Requests,    \* what operators ask for: [targetKind, target, kind, p]
  Inputs,      \* inputs of the combiner: [polls, fund]
  Backtests,   \* what the gates' holdout refits may yield
  MaxTime

ASSUME ProductionAssumption ==
  /\ NCandidates \in Nat
  /\ One \in Nat \ {0}
  /\ MaxTime \in Nat /\ MaxRows \in Nat
  /\ IsFiniteSet(Draws)
  /\ \A q \in Requests : q.kind = "manual_probability" =>
       q.p[1] \in Nat /\ q.p[2] \in Nat /\ q.p[1] <= q.p[2] /\ q.p[2] > 0
  /\ \A b \in Backtests :
       /\ b.entries \in Seq(Seqs!ToSet(b.entries))
       /\ \A k \in DOMAIN b.entries : IsEntry(b.entries[k])

Never == MaxTime + 1   \* an expires_at that is NULL
Times == 0..MaxTime

VARIABLES
  now,
  input,      \* what the models are fitted on
  table,      \* interventions, as committed
  pc,         \* progress of each run
  gen,        \* its generated_at
  applied,    \* the interventions it has loaded
  latest,     \* the row written last: its run, sample_array and pair per draw
  earlier     \* history: runs committed when it took its timestamp

runVars == <<pc, gen, applied, latest, earlier>>
vars == <<now, input, table, runVars>>

Intervention(id, q, from, until) ==
  [id |-> id, targetKind |-> q.targetKind, target |-> q.target, kind |-> q.kind,
   p |-> q.p, from |-> from, until |-> until]

Committed == {r \in Runs : pc[r] = "committed"}
NoForecast == [run |-> "none"]
Written == {f \in {latest} : f # NoForecast}
PayloadOf(f) == Payload(f.samples, f.top)

-----------------------------------------------------------------------------
(* intervene.py.                                                           *)

(* Mutant of Intervene: the CHECK on the window is missing.                *)
InterveneUnchecked(id, q, from, until) ==
  /\ \A i \in table : i.id # id
  /\ table' = table \cup {Intervention(id, q, from, until)}
  /\ UNCHANGED <<now, input, runVars>>

(* A row is committed.  Its id was drawn when it was inserted, so rows may *)
(* appear in another order than that of their ids.  What the parser or a   *)
(* CHECK refuses leaves no row: an override without a probability, a       *)
(* window that ends before it begins.                                      *)
Intervene(id, q, from, until) ==
  /\ \A i \in table : i.id # id
  /\ from < until
  /\ table' = table \cup {Intervention(id, q, from, until)}
  /\ UNCHANGED <<now, input, runVars>>

-----------------------------------------------------------------------------
(* predict.py.                                                             *)

(* The models are fitted, which the inputs must allow, and produce_forecast *)
(* takes its timestamp.  The posterior is the run's own: Commit chooses it. *)
Begin(r) ==
  /\ pc[r] = "start" /\ CanFit(input)
  /\ pc' = [pc EXCEPT ![r] = "begun"]
  /\ gen' = [gen EXCEPT ![r] = now]
  /\ earlier' = [earlier EXCEPT ![r] = Committed]
  /\ UNCHANGED <<now, input, table, applied, latest>>

Active(i, at) == i.from <= at /\ at < i.until

(* Mutant of Load: only what no earlier run has applied.                   *)
LoadNew(r) ==
  /\ pc[r] = "begun"
  /\ pc' = [pc EXCEPT ![r] = "loaded"]
  /\ applied' = [applied EXCEPT ![r] =
       {i \in table : Active(i, gen[r]) /\ \A e \in earlier[r] : i \notin applied[e]}]
  /\ UNCHANGED <<now, input, table, gen, latest, earlier>>

(* load_active_interventions(at=generated_at), on what is committed now.   *)
Load(r) ==
  /\ pc[r] = "begun"
  /\ pc' = [pc EXCEPT ![r] = "loaded"]
  /\ applied' = [applied EXCEPT ![r] = {i \in table : Active(i, gen[r])}]
  /\ UNCHANGED <<now, input, table, gen, latest, earlier>>

(* The interventions are applied, the payload built and written, and the   *)
(* caller commits.                                                         *)
Commit(r, x, t) ==
  /\ pc[r] = "loaded"
  /\ pc' = [pc EXCEPT ![r] = "committed"]
  /\ latest' = [run |-> r, samples |-> x, top |-> t]
  /\ UNCHANGED <<now, input, table, gen, applied, earlier>>

Tick ==
  /\ now < MaxTime
  /\ now' = now + 1
  /\ UNCHANGED <<input, table, runVars>>

-----------------------------------------------------------------------------
Init ==
  /\ now = 0
  /\ input \in Inputs
  /\ table = {}
  /\ pc = [r \in Runs |-> "start"]
  /\ gen = [r \in Runs |-> 0]
  /\ applied = [r \in Runs |-> {}]
  /\ latest = NoForecast
  /\ earlier = [r \in Runs |-> {}]

(* What comes after every run has loaded its interventions, none reads.    *)
Unread == \E r \in Runs : pc[r] \in {"start", "begun"}

Operator ==
  Unread /\ \E id \in 1..MaxRows, q \in Requests, from \in Times, until \in Times \cup {Never} :
    Intervene(id, q, from, until)

Tops(x) == {t \in [Draws -> Pairs] : \A d \in Draws : t[d] \in TopTwos(x[d])}

Run(r) ==
  \/ Begin(r)
  \/ Load(r)
  \/ /\ pc[r] = "loaded"
     /\ \E m \in FirstRoundSamples(input) :
          LET x == Rows(m, applied[r]) IN \E t \in Tops(x) : Commit(r, x, t)

Next ==
  \/ Operator
  \/ \E r \in Runs : Run(r)
  \/ Unread /\ Tick

Spec == Init /\ [][Next]_vars

-----------------------------------------------------------------------------
Window == [id : 1..MaxRows, from : Times, until : 1..Never]

TypeOK ==
  /\ now \in Times
  /\ input \in Inputs
  /\ \A i \in table : [id |-> i.id, from |-> i.from, until |-> i.until] \in Window
  /\ pc \in [Runs -> {"start", "begun", "loaded", "committed"}]
  /\ gen \in [Runs -> Times]
  /\ applied \in [Runs -> SUBSET table]
  /\ \A f \in Written : f.run \in Committed /\ f.top \in [Draws -> Pairs]
  /\ earlier \in [Runs -> SUBSET Runs]

(* apply_interventions_to_samples: each draw that interventions touched    *)
(* sums to one, except where there is nothing to share the rest: everyone  *)
(* is removed or overridden, or an override leaves only its own target.    *)
MassIsConserved ==
  \A f \in Written : applied[f.run] # {} =>
    \A d \in Draws :
      LET x == f.samples[d]
      IN \/ Total(x.share) = x.one
         \/ /\ Total(x.share) < x.one
            /\ \E i \in applied[f.run] : i.kind = "manual_probability" /\ Alive(x) \subseteq Affected(i)
         \/ /\ Alive(x) = {}
            /\ Candidates = UNION {Affected(i) : i \in applied[f.run]}

(* A candidate whose last intervention is a removal has no share in any    *)
(* draw, however earlier and later interventions on others move the mass,  *)
(* and is a finalist only where fewer than two candidates have any.        *)
Removed(r, c) ==
  /\ \E i \in applied[r] : c \in Affected(i) /\ i.kind # "manual_probability"
  /\ \A i \in applied[r] :
       (c \in Affected(i) /\ i.kind = "manual_probability") =>
         \E k \in applied[r] :
            k.id > i.id /\ c \in Affected(k) /\ k.kind # "manual_probability"
RemovedStayOut ==
  \A f \in Written, c \in Candidates : Removed(f.run, c) =>
    \A d \in Draws :
      LET x == f.samples[d]
      IN /\ x.share[c] = 0
         /\ c \in {f.top[d][1], f.top[d][2]} => Cardinality(Alive(x)) < 2

(* What one forecast applied, the runs that start after it apply as well,  *)
(* until it expires: the latest forecast never forgets an intervention,    *)
(* whatever the order of ids.  (Runs that overlap may.)                      *)
SuccessorsKeepInterventions ==
  \A r \in Committed : \A e \in earlier[r] : \A i \in applied[e] :
    gen[r] < i.until => i \in applied[r]

(* The two halves of a payload agree: candidates qualify as often as the   *)
(* runoff matrix pairs them, and every draw is in the matrix once.         *)
PayloadIsCoherent ==
  \A f \in Written :
    LET p == PayloadOf(f)
        qualifies(c) == {x \in DOMAIN p.matrix : c \in {x[1], x[2]}}
    IN /\ Total(p.matrix) = Cardinality(Draws)
       /\ \A c \in Candidates :
            /\ p.candidates[c].qualifies = SumOver(p.matrix, qualifies(c))
            /\ p.candidates[c].outright <= p.candidates[c].qualifies

(* ADR-013: what a pass of all gates promises.  Few holdouts lie outside   *)
(* their intervals, at least half of the judged errors are within five     *)
(* points, and nobody in the payload is without a chance.                  *)
PassMeansCalibrated ==
  \A f \in Written, b \in Backtests : FailedGates(PayloadOf(f), b) = {} =>
    LET outside(lo, hi) == {k \in DOMAIN b.entries : ~Covers(b.entries[k], lo, hi)}
        near == {k \in Judged(b.entries) : AbsError(b.entries[k]) <= 5}
    IN /\ 5 * Cardinality(outside("p10", "p90")) <= Len(b.entries)
       /\ 20 * Cardinality(outside("p05", "p95")) <= Len(b.entries)
       /\ near # {} /\ 2 * Cardinality(near) >= Cardinality(Judged(b.entries))
       /\ \A c \in Candidates : \E d \in Draws : f.samples[d].share[c] > 0

-----------------------------------------------------------------------------
(* What a document says and the code does not do.                          *)

(* ADR-019: "A disqualification at noon becomes a published-forecast       *)
(* change at the next scheduled run": a removal alone makes no gate fail.  *)
RemovalCanBePublished ==
  \A f \in Written, b \in Backtests :
    (\E c \in Candidates : Removed(f.run, c)) => "C4" \notin FailedGates(PayloadOf(f), b)

=============================================================================
