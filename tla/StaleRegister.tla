---------------------------- MODULE StaleRegister ----------------------------
(***************************************************************************)
(* What the forecast API promises its clients, with no database rows,      *)
(* cache, listener or requests in flight: publications accumulate, and     *)
(* every answer carries a published run (0: none yet) that was the latest  *)
(* one at most Bound ticks ago.  ForecastServing implements this module.   *)
(***************************************************************************)
EXTENDS Integers

CONSTANTS
  Clients,   \* who receives answers
  MaxRuns,   \* runs, numbered by generated_at
  Bound,     \* the most ticks an answer may lag behind
  LagCap     \* where lags stop counting, above Bound

VARIABLES
  published,  \* the runs published so far
  answer,     \* the last answer of each client, with its lag when sent
  lag         \* ticks since each run was superseded

rvars == <<published, answer, lag>>

Outrun(v) == \E r \in published : r > v

Publish(r) ==
  /\ published' = published \cup {r}
  /\ UNCHANGED <<answer, lag>>

(* Every outrun version ages by one tick. *)
Elapse ==
  /\ lag' = [v \in 0..MaxRuns |-> IF Outrun(v) /\ lag[v] < LagCap THEN lag[v] + 1 ELSE lag[v]]
  /\ UNCHANGED <<published, answer>>

Serve(c, v) ==
  /\ v \in published \cup {0}
  /\ lag[v] <= Bound
  /\ answer' = [answer EXCEPT
                  ![c] = [status |-> IF v = 0 THEN 404 ELSE 200, run |-> v, lag |-> lag[v]]]
  /\ UNCHANGED <<published, lag>>

Fail(c) ==
  /\ answer' = [answer EXCEPT ![c] = [status |-> 500, run |-> 0, lag |-> 0]]
  /\ UNCHANGED <<published, lag>>

Init ==
  /\ published = {}
  /\ answer = [c \in Clients |-> [status |-> 0, run |-> 0, lag |-> 0]]
  /\ lag = [v \in 0..MaxRuns |-> 0]

Next ==
  \/ \E r \in 1..MaxRuns : Publish(r)
  \/ Elapse
  \/ \E c \in Clients : (\E v \in 0..MaxRuns : Serve(c, v)) \/ Fail(c)

Spec == Init /\ [][Next]_rvars
=============================================================================
