----------------------------- MODULE BatchScrape -----------------------------
(***************************************************************************)
(* The Python scrapers that write each run in one transaction:             *)
(*                                                                         *)
(*   pytrends_scraper  asks for one query after another, waiting between   *)
(*                     requests and retrying once after a 429;             *)
(*   telegram_scraper  asks for one channel after another, waiting;        *)
(*   bluesky_scraper   follows a stream of events.                         *)
(*                                                                         *)
(* A run inserts what it parses with ON CONFLICT DO NOTHING, commits, and  *)
(* stamps scrape_runs in a second transaction; a failing run rolls back    *)
(* and stamps the failure.  Runs of one scraper may overlap (the timer's   *)
(* and an operator's); runs of different scrapers share no rows, so a      *)
(* behaviour is of one scraper.  PostgreSQL is external: an INSERT waits   *)
(* for the transaction that has inserted the same key, and a cycle of      *)
(* such waits is broken by aborting one.                                   *)
(***************************************************************************)
EXTENDS Integers, Sequences

CONSTANTS
  Runs,      \* runs of the scraper
  Items,     \* keys of the rows: URLs, or query, day and place
  Nobody,    \* no run has stamped
  MaxCalls,  \* queries, channels or events of a run, at most
  MaxBatch,  \* rows of one answer, at most
  MinGap,    \* ticks of min_seconds_between_calls
  Backoff    \* ticks of throttle_backoff_seconds

ASSUME ScrapeAssumption ==
  /\ MaxCalls \in Nat /\ MaxBatch \in Nat
  /\ MinGap \in Nat /\ Backoff \in Nat /\ MinGap <= Backoff
  /\ Nobody \notin Runs

VARIABLES
  source,     \* the scraper
  rows,       \* keys of the committed rows
  stamp,      \* the row of scrape_runs, and who wrote it
  phase,      \* where each run is
  calls,      \* answers or events each run has handled
  todo,       \* parsed rows each run has still to insert
  wrote,      \* rows of each run's open transaction
  last,       \* ticks since last_call_at, capped; -1 for None
  idle,       \* history: ticks since the run's last answer, capped
  took,       \* history: everything the run has parsed
  committed   \* history: the runs whose rows were committed

database == <<rows, stamp, committed>>
clocks == <<last, idle>>
vars == <<source, database, phase, calls, todo, wrote, clocks, took>>

Sources == {"pytrends", "telegram", "bluesky"}
Phases == {"new", "open", "calling", "backoff", "retrying", "failing",
           "stamping", "stampingFailure", "done", "dead"}
Batches == UNION {[1..n -> Items] : n \in 0..MaxBatch}
Contents(s) == {s[i] : i \in 1..Len(s)}
Stamp(by, success) == [by |-> by, success |-> success]

Goes(r, p) == phase' = [phase EXCEPT ![r] = p]
Resting(r) == phase[r] = "open" /\ todo[r] = <<>>

-----------------------------------------------------------------------------
Start(r) ==
  /\ phase[r] = "new"
  /\ Goes(r, "open")
  /\ UNCHANGED <<source, database, calls, todo, wrote, clocks, took>>

(* The next query, when min_seconds_between_calls have passed.             *)
CallTrends(r) ==
  /\ source = "pytrends" /\ Resting(r) /\ calls[r] < MaxCalls
  /\ last[r] = -1 \/ last[r] >= MinGap
  /\ Goes(r, "calling")
  /\ UNCHANGED <<source, database, calls, todo, wrote, clocks, took>>

(* Mutant of RateLimited: the retry is retried.                            *)
RateLimitedAgain(r) ==
  /\ source = "pytrends" /\ phase[r] \in {"calling", "retrying"}
  /\ Goes(r, "backoff")
  /\ idle' = [idle EXCEPT ![r] = 0]
  /\ UNCHANGED <<source, database, calls, todo, wrote, last, took>>

(* A 429: last_call_at stays what it was, and the run sleeps.              *)
RateLimited(r) ==
  /\ source = "pytrends" /\ phase[r] = "calling"
  /\ Goes(r, "backoff")
  /\ idle' = [idle EXCEPT ![r] = 0]
  /\ UNCHANGED <<source, database, calls, todo, wrote, last, took>>

(* Mutant of Retry: no sleep.                                              *)
RetryAtOnce(r) ==
  /\ phase[r] = "backoff"
  /\ Goes(r, "retrying")
  /\ UNCHANGED <<source, database, calls, todo, wrote, clocks, took>>

(* The same query once more, after throttle_backoff_seconds.               *)
Retry(r) ==
  /\ phase[r] = "backoff" /\ idle[r] >= Backoff
  /\ Goes(r, "retrying")
  /\ UNCHANGED <<source, database, calls, todo, wrote, clocks, took>>

Parsed(r, batch) ==
  /\ calls' = [calls EXCEPT ![r] = @ + 1]
  /\ todo' = [todo EXCEPT ![r] = batch]
  /\ took' = [took EXCEPT ![r] = @ \cup Contents(batch)]

Answered(r) ==
  /\ last' = [last EXCEPT ![r] = 0]
  /\ idle' = [idle EXCEPT ![r] = 0]

(* An answer that parse_response accepts.                                  *)
TrendsAnswer(r) ==
  /\ source = "pytrends" /\ phase[r] \in {"calling", "retrying"}
  /\ \E batch \in Batches : Parsed(r, batch)
  /\ Answered(r)
  /\ Goes(r, "open")
  /\ UNCHANGED <<source, database, wrote>>

(* The next channel.                                                       *)
CallTelegram(r) ==
  /\ source = "telegram" /\ Resting(r) /\ calls[r] < MaxCalls
  /\ last[r] = -1 \/ last[r] >= MinGap
  /\ Goes(r, "calling")
  /\ UNCHANGED <<source, database, calls, todo, wrote, clocks, took>>

(* Its messages, those without text dropped.                               *)
Messages(r) ==
  /\ source = "telegram" /\ phase[r] = "calling"
  /\ \E batch \in Batches : Parsed(r, batch)
  /\ Answered(r)
  /\ Goes(r, "open")
  /\ UNCHANGED <<source, database, wrote>>

(* Mutant of NextEvent: max_events is looked at too late.                  *)
NextEventLate(r) ==
  /\ source = "bluesky" /\ Resting(r) /\ calls[r] <= MaxCalls
  /\ \/ Parsed(r, <<>>)
     \/ \E item \in Items : Parsed(r, <<item>>)
  /\ UNCHANGED <<source, database, phase, wrote, clocks>>

(* An event of the firehose: filter_event drops it, or it is parsed.       *)
NextEvent(r) ==
  /\ source = "bluesky" /\ Resting(r) /\ calls[r] < MaxCalls
  /\ \/ Parsed(r, <<>>)
     \/ \E item \in Items : Parsed(r, <<item>>)
  /\ UNCHANGED <<source, database, phase, wrote, clocks>>

(* The request or the parser raises; a second 429 is one of the ways.      *)
CallFails(r) ==
  /\ \/ phase[r] \in {"calling", "retrying"}
     \/ source = "bluesky" /\ Resting(r) /\ calls[r] < MaxCalls
  /\ Goes(r, "failing")
  /\ UNCHANGED <<source, database, calls, todo, wrote, clocks, took>>

-----------------------------------------------------------------------------
(* The database.                                                           *)

(* Mutant of WaitsFor: a row that is not committed yet is one that exists. *)
WaitsForNone(r, q) == r # r

(* External: r's next INSERT meets a row of q's open transaction.          *)
WaitsFor(r, q) ==
  /\ phase[r] = "open" /\ todo[r] # <<>> /\ q # r
  /\ Head(todo[r]) \in wrote[q]

(* INSERT ... ON CONFLICT DO NOTHING; a key that is there is skipped.      *)
Insert(r) ==
  /\ phase[r] = "open" /\ todo[r] # <<>>
  /\ \A q \in Runs : ~WaitsFor(r, q)
  /\ LET item == Head(todo[r]) IN
       wrote' = IF item \in rows \/ \E q \in Runs : item \in wrote[q]
                THEN wrote
                ELSE [wrote EXCEPT ![r] = @ \cup {item}]
  /\ todo' = [todo EXCEPT ![r] = Tail(@)]
  /\ UNCHANGED <<source, database, phase, calls, clocks, took>>

(* The transaction is aborted, and the exception caught.                   *)
Aborted(r) ==
  /\ Goes(r, "failing")
  /\ wrote' = [wrote EXCEPT ![r] = {}]
  /\ UNCHANGED <<source, database, calls, todo, clocks, took>>

(* External: an INSERT raises.                                             *)
InsertFails(r) == phase[r] = "open" /\ todo[r] # <<>> /\ Aborted(r)

(* External: PostgreSQL finds r in a cycle of waits.                       *)
Deadlocked(r) ==
  \E C \in SUBSET Runs :
    /\ r \in C
    /\ \A p \in C : (\E q \in C : WaitsFor(p, q)) /\ (\E q \in C : WaitsFor(q, p))

DeadlockVictim(r) == Deadlocked(r) /\ Aborted(r)

-----------------------------------------------------------------------------
(* The list, the stream or max_events is at its end.                       *)
Commit(r) ==
  /\ Resting(r)
  /\ rows' = rows \cup wrote[r]
  /\ committed' = committed \cup {r}
  /\ wrote' = [wrote EXCEPT ![r] = {}]
  /\ Goes(r, "stamping")
  /\ UNCHANGED <<source, stamp, calls, todo, clocks, took>>

(* commit() raises outside the try block: no stamp follows.  The server    *)
(* may have committed or not.                                              *)
CommitLost(r) ==
  /\ Resting(r)
  /\ \/ rows' = rows \cup wrote[r] /\ committed' = committed \cup {r}
     \/ UNCHANGED <<rows, committed>>
  /\ wrote' = [wrote EXCEPT ![r] = {}]
  /\ Goes(r, "dead")
  /\ UNCHANGED <<source, stamp, calls, todo, clocks, took>>

(* Mutant of Rollback: there is none.                                      *)
NoRollback(r) ==
  /\ phase[r] = "failing"
  /\ Goes(r, "stampingFailure")
  /\ UNCHANGED <<source, database, calls, todo, wrote, clocks, took>>

Rollback(r) ==
  /\ phase[r] = "failing"
  /\ wrote' = [wrote EXCEPT ![r] = {}]
  /\ Goes(r, "stampingFailure")
  /\ UNCHANGED <<source, database, calls, todo, clocks, took>>

(* stamp_scrape_run and commit(), which commits whatever is pending.       *)
StampRun(r, success) ==
  /\ stamp' = Stamp(r, success)
  /\ rows' = rows \cup wrote[r]
  /\ wrote' = [wrote EXCEPT ![r] = {}]
  /\ Goes(r, "done")
  /\ UNCHANGED <<source, committed, calls, todo, clocks, took>>

StampSuccess(r) == phase[r] = "stamping" /\ StampRun(r, TRUE)

(* _safe_stamp. *)
StampFailure(r) == phase[r] = "stampingFailure" /\ StampRun(r, FALSE)

Active(r) == phase[r] \notin {"new", "done", "dead"}

(* External: the process or its connection is gone, or the stamp raises.   *)
Die(r) ==
  /\ Active(r)
  /\ wrote' = [wrote EXCEPT ![r] = {}]
  /\ Goes(r, "dead")
  /\ UNCHANGED <<source, database, calls, todo, clocks, took>>

Aged(t, cap) == IF t \in 0..(cap - 1) THEN t + 1 ELSE t

Tick ==
  /\ \E r \in Runs : Active(r)
  /\ last' = [r \in Runs |-> IF Active(r) THEN Aged(last[r], MinGap) ELSE last[r]]
  /\ idle' = [r \in Runs |-> IF Active(r) THEN Aged(idle[r], Backoff) ELSE idle[r]]
  /\ UNCHANGED <<source, database, phase, calls, todo, wrote, took>>

-----------------------------------------------------------------------------
Init ==
  /\ source \in Sources
  /\ rows = {} /\ stamp = Stamp(Nobody, FALSE) /\ committed = {}
  /\ phase = [r \in Runs |-> "new"]
  /\ calls = [r \in Runs |-> 0]
  /\ todo = [r \in Runs |-> <<>>]
  /\ wrote = [r \in Runs |-> {}]
  /\ last = [r \in Runs |-> -1]
  /\ idle = [r \in Runs |-> Backoff]
  /\ took = [r \in Runs |-> {}]

(* What a run does by itself, given answers from outside.                  *)
Step(r) ==
  \/ CallTrends(r) \/ RateLimited(r) \/ Retry(r) \/ TrendsAnswer(r)
  \/ CallTelegram(r) \/ Messages(r)
  \/ NextEvent(r)
  \/ CallFails(r)
  \/ Insert(r) \/ InsertFails(r) \/ DeadlockVictim(r)
  \/ Commit(r) \/ Rollback(r) \/ StampSuccess(r) \/ StampFailure(r)

Next ==
  \/ \E r \in Runs : Start(r) \/ Step(r) \/ CommitLost(r) \/ Die(r)
  \/ Tick

Spec == Init /\ [][Next]_vars

(* A started run goes on, its requests return or time out, the server      *)
(* looks for deadlocks, and time passes.                                   *)
Fairness == (\A r \in Runs : WF_vars(Step(r))) /\ WF_vars(Tick)

FairSpec == Spec /\ Fairness

-----------------------------------------------------------------------------
TypeOK ==
  /\ source \in Sources
  /\ rows \subseteq Items
  /\ stamp \in [by : Runs \cup {Nobody}, success : BOOLEAN]
  /\ phase \in [Runs -> Phases]
  /\ calls \in [Runs -> 0..MaxCalls]
  /\ todo \in [Runs -> Seq(Items)]
  /\ wrote \in [Runs -> SUBSET Items]
  /\ last \in [Runs -> -1..MinGap]
  /\ idle \in [Runs -> 0..Backoff]
  /\ took \in [Runs -> SUBSET Items]
  /\ committed \subseteq Runs

(* All or nothing, although runs that overlap skip one another's rows: all *)
(* a committed run has parsed is stored, and nothing is stored but that.   *)
AllOrNothing == rows = UNION {took[r] : r \in committed}

(* The stamp tells the truth of the run that wrote it: after a success all *)
(* its rows are there, after a failure it has added none.                  *)
StampIsTrue ==
  stamp.by # Nobody =>
    IF stamp.success THEN took[stamp.by] \subseteq rows ELSE stamp.by \notin committed

(* Requests of a run are min_seconds_between_calls apart, the retry after  *)
(* a 429, which last_call_at knows nothing of, included.                   *)
Requesting(r) == phase[r] \in {"calling", "retrying"}
RequestsAreSpaced ==
  [][\A r \in Runs : ~Requesting(r) /\ Requesting(r)' => idle[r] >= MinGap]_vars

(* Every run ends, though runs wait for one another's rows.                *)
RunsEnd == \A r \in Runs : Active(r) ~> ~Active(r)

=============================================================================
