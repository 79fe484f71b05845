--------------------------- MODULE ForecastServing ---------------------------
(***************************************************************************)
(* How a presidential forecast travels from the forecasts table to a       *)
(* client of the Go API.                                                   *)
(*                                                                         *)
(*   predict.py    inserts an unpublished row and queues a NOTIFY in the   *)
(*                 same transaction;                                       *)
(*   calibrate.py  flips is_published on a scheduled row, without NOTIFY;  *)
(*   listener      holds a LISTEN connection and clears the cache on every *)
(*                 notification, and loses what arrives while it is down;  *)
(*   forecastcache holds one entry for the race type; on a miss it reads   *)
(*                 the database outside its mutex and stores the result,   *)
(*                 whatever happened in between;                           *)
(*   handlers      answer 200, 404 or 500.                                 *)
(*                                                                         *)
(* Runs are numbered by generated_at, so "latest" is "largest"; they may   *)
(* be committed and published in any order.  0 stands for "no published    *)
(* row", which the cache stores as well.  Time is counted in ticks, and an *)
(* entry holds the ticks it has left instead of an absolute expiry.        *)
(***************************************************************************)
EXTENDS Integers

CONSTANTS
  Handlers,      \* concurrent request goroutines of the API
  MaxRuns,       \* forecast runs in the history of the system
  TTL,           \* ticks a cache entry lives (five minutes in production)
  MaxFillDelay   \* ticks between a database snapshot and the cache fill

ASSUME ServingAssumption ==
  /\ MaxRuns \in Nat
  /\ TTL \in Nat \ {0}
  /\ MaxFillDelay \in Nat

VARIABLES
  rows,      \* the forecasts table: state of each run's row
  listener,  \* where the listener goroutine is
  notes,     \* notifications queued on its connection
  entry,     \* the cache entry of race type "presidential"
  req,       \* one record per handler: the request it is executing
  answer,    \* the last answer each handler sent
  lag        \* history: ticks since a run was superseded, capped

vars == <<rows, listener, notes, entry, req, answer, lag>>

Runs == 1..MaxRuns
Versions == 0..MaxRuns
LagCap == TTL + MaxFillDelay

RowState == {"absent", "whatif", "held", "published"}
Entry(run, left, read) == [run |-> run, left |-> left, read |-> read]
NoEntry == Entry(0, 0, "after")
Idle == [phase |-> "idle", run |-> 0, age |-> 0, read |-> "after"]
Reading == [phase |-> "reading", run |-> 0, age |-> 0, read |-> "after"]
Fetched(run, age, read) == [phase |-> "fetched", run |-> run, age |-> age, read |-> read]
NoAnswer == [status |-> 0, run |-> 0, lag |-> 0]

(* The read field of an entry or a pending fill is a history variable: was *)
(* its row read before or after the last Clear of the cache?               *)
ReadWhen == {"before", "after"}

-----------------------------------------------------------------------------
(* The store's query: the published row with the largest generated_at.     *)

Published == {r \in Runs : rows[r] = "published"}
Superseded(v) == \E r \in Published : r > v

(* Mutant of IsLatest: the WHERE without is_published.                     *)
IsLatestRow(v) ==
  LET Rows == {r \in Runs : rows[r] # "absent"} \cup {0}
  IN  v \in Rows /\ \A r \in Rows : r <= v

IsLatest(v) == v \in Published \cup {0} /\ ~Superseded(v)

(* predict.py commits: row and notification become visible together.  A    *)
(* notification reaches only a session that is listening.                  *)
PredictCommit(r, kind) ==
  /\ rows[r] = "absent"
  /\ rows' = [rows EXCEPT ![r] = IF kind = "scheduled" THEN "held" ELSE "whatif"]
  /\ notes' = IF listener = "listening" THEN notes + 1 ELSE notes
  /\ UNCHANGED <<listener, entry, req, answer, lag>>

(* calibrate.py commits an all-pass result: UPDATE ... WHERE run_kind =    *)
(* 'scheduled', so a whatif row stays as it is.  Nobody is notified.       *)
CalibratePass(r) ==
  /\ rows[r] = "held"
  /\ rows' = [rows EXCEPT ![r] = "published"]
  /\ UNCHANGED <<listener, notes, entry, req, answer, lag>>

-----------------------------------------------------------------------------
(* The listener goroutine: Run, and listenOnce inside it.                  *)

Connect ==
  /\ listener = "connecting"
  /\ listener' = "listening"
  /\ UNCHANGED <<rows, notes, entry, req, answer, lag>>

ConnectFails ==
  /\ listener = "connecting"
  /\ listener' = "backoff"
  /\ UNCHANGED <<rows, notes, entry, req, answer, lag>>

(* Mutant of NotifyClear: the loop clears without waiting.                 *)
ClearWithoutWait ==
  /\ listener = "listening"
  /\ notes' = notes - 1
  /\ entry' = NoEntry
  /\ UNCHANGED <<rows, listener, req, answer, lag>>

(* WaitForNotification returns a notification and the cache is cleared.    *)
(* Fills in flight are not told.                                           *)
NotifyClear ==
  /\ listener = "listening" /\ notes > 0
  /\ notes' = notes - 1
  /\ entry' = NoEntry
  /\ req' = [h \in Handlers |->
               IF req[h].phase = "fetched" THEN Fetched(req[h].run, req[h].age, "before") ELSE req[h]]
  /\ UNCHANGED <<rows, listener, answer, lag>>

(* WaitForNotification returns an error: what was queued is lost with the  *)
(* connection, and the cache is left as it is.                             *)
ConnectionDrops ==
  /\ listener = "listening"
  /\ listener' = "backoff"
  /\ notes' = 0
  /\ UNCHANGED <<rows, entry, req, answer, lag>>

BackoffElapses ==
  /\ listener = "backoff"
  /\ listener' = "connecting"
  /\ UNCHANGED <<rows, notes, entry, req, answer, lag>>

-----------------------------------------------------------------------------
(* A request: NewPresidentialForecast -> Cache.LatestPublishedPresidential. *)

(* An entry get() returns: one whose expiry has come is a miss.  An entry  *)
(* without life left and no entry are the same thing to every reader.      *)
Live == entry.left > 0

(* 200 with the row's payload, or 404 when no row is published. *)
Answer(h, v) ==
  answer' = [answer EXCEPT
               ![h] = [status |-> IF v = 0 THEN 404 ELSE 200, run |-> v, lag |-> lag[v]]]

(* Mutant of LookupHit: a hit renews the entry's life. *)
LookupHitRenews(h) ==
  /\ req[h].phase = "idle"
  /\ Live
  /\ entry' = Entry(entry.run, TTL, entry.read)
  /\ Answer(h, entry.run)
  /\ UNCHANGED <<rows, listener, notes, req, lag>>

(* get() finds an entry that has not expired. *)
LookupHit(h) ==
  /\ req[h].phase = "idle"
  /\ Live
  /\ Answer(h, entry.run)
  /\ UNCHANGED <<rows, listener, notes, entry, req, lag>>

(* get() finds nothing, or an expired entry, which it deletes. *)
LookupMiss(h) ==
  /\ req[h].phase = "idle"
  /\ ~Live
  /\ entry' = NoEntry
  /\ req' = [req EXCEPT ![h] = Reading]
  /\ UNCHANGED <<rows, listener, notes, answer, lag>>

(* The upstream query takes its snapshot; the mutex is not held. *)
UpstreamRead(h, v) ==
  /\ req[h].phase = "reading"
  /\ IsLatest(v)
  /\ req' = [req EXCEPT ![h] = Fetched(v, 0, "after")]
  /\ UNCHANGED <<rows, listener, notes, entry, answer, lag>>

(* The upstream read fails (connection lost, client gone): nothing cached. *)
UpstreamError(h) ==
  /\ req[h].phase \in {"reading", "fetched"}
  /\ req' = [req EXCEPT ![h] = Idle]
  /\ answer' = [answer EXCEPT ![h] = [status |-> 500, run |-> 0, lag |-> 0]]
  /\ UNCHANGED <<rows, listener, notes, entry, lag>>

(* set() stores what was read, nil included, for a full TTL; the handler   *)
(* answers with it.                                                        *)
Fill(h) ==
  /\ req[h].phase = "fetched"
  /\ entry' = Entry(req[h].run, TTL, req[h].read)
  /\ Answer(h, req[h].run)
  /\ req' = [req EXCEPT ![h] = Idle]
  /\ UNCHANGED <<rows, listener, notes, lag>>

-----------------------------------------------------------------------------
(* The process dies or is restarted: the cache, the requests and the       *)
(* listener's connection go with it.                                       *)
Restart ==
  /\ listener' = "connecting"
  /\ notes' = 0
  /\ entry' = NoEntry
  /\ req' = [h \in Handlers |-> Idle]
  /\ UNCHANGED <<rows, answer, lag>>

(* Time passes.  The guard bounds how long a fill may be held up between   *)
(* its snapshot and set(); the lag is capped at the first value no answer  *)
(* may have.                                                               *)
Tick ==
  /\ \A h \in Handlers : req[h].phase = "fetched" => req[h].age < MaxFillDelay
  /\ entry' = IF Live THEN Entry(entry.run, entry.left - 1, entry.read) ELSE entry
  /\ req' = [h \in Handlers |->
               IF req[h].phase = "fetched" THEN Fetched(req[h].run, req[h].age + 1, req[h].read) ELSE req[h]]
  /\ lag' = [v \in Versions |->
               IF Superseded(v) /\ lag[v] < LagCap THEN lag[v] + 1 ELSE lag[v]]
  /\ UNCHANGED <<rows, listener, notes, answer>>

-----------------------------------------------------------------------------
Init ==
  /\ rows = [r \in Runs |-> "absent"]
  /\ listener = "connecting"
  /\ notes = 0
  /\ entry = NoEntry
  /\ req = [h \in Handlers |-> Idle]
  /\ answer = [h \in Handlers |-> NoAnswer]
  /\ lag = [v \in Versions |-> 0]

Database ==
  \E r \in Runs :
    \/ \E kind \in {"scheduled", "whatif"} : PredictCommit(r, kind)
    \/ CalibratePass(r)

Listener ==
  Connect \/ ConnectFails \/ NotifyClear \/ ConnectionDrops \/ BackoffElapses

Request(h) ==
  \/ LookupHit(h)
  \/ LookupMiss(h)
  \/ \E v \in Versions : UpstreamRead(h, v)
  \/ UpstreamError(h)
  \/ Fill(h)

Next == Database \/ Listener \/ (\E h \in Handlers : Request(h)) \/ Restart \/ Tick

Spec == Init /\ [][Next]_vars

(* Time passes, and a handler that has its row goes on to store it (a      *)
(* goroutine is always scheduled again).  Nothing obliges a client to call, *)
(* a job to run, or the database to accept the listener's connection.      *)
Fairness ==
  /\ WF_vars(Tick)
  /\ \A h \in Handlers : WF_vars(Fill(h))

FairSpec == Spec /\ Fairness

-----------------------------------------------------------------------------
TypeOK ==
  /\ rows \in [Runs -> RowState]
  /\ listener \in {"connecting", "listening", "backoff"}
  /\ notes \in Nat
  /\ entry \in [run : Versions, left : 0..TTL, read : ReadWhen]
  /\ req \in [Handlers -> [phase : {"idle", "reading", "fetched"}, run : Versions,
                           age : 0..MaxFillDelay, read : ReadWhen]]
  /\ answer \in [Handlers -> [status : {0, 200, 404, 500}, run : Versions, lag : 0..LagCap]]
  /\ lag \in [Versions -> 0..LagCap]

(* The API never serves, caches or is about to cache a run that the gate   *)
(* has not published: a held or whatif run appears in no answer, however   *)
(* predictions, calibrations, fills and restarts interleave.               *)
OnlyPublished ==
  LET Known == Published \cup {0} IN
  /\ entry.run \in Known
  /\ \A h \in Handlers : req[h].run \in Known /\ answer[h].run \in Known

(* ADR-006's staleness promise: an answer carries the latest published     *)
(* forecast, or one superseded for less than the TTL plus the time a fill  *)
(* can be held up, even when every notification is lost and a stale fill   *)
(* lands after the cache was cleared.                                      *)
BoundedStaleness ==
  \A h \in Handlers : answer[h].lag <= TTL + MaxFillDelay - 1

(* What makes the bound inductive: a run that is not superseded has no lag, *)
(* the age of a pending fill covers the lag of its run, and the lag and     *)
(* the remaining life of a live entry are bounded together.                 *)
LagCovered ==
  /\ \A v \in Versions : lag[v] > 0 => Superseded(v)
  /\ \A h \in Handlers : req[h].phase = "fetched" => lag[req[h].run] <= req[h].age
  /\ Live => lag[entry.run] + entry.left <= TTL + MaxFillDelay

(* Once a run is published, the cache eventually serves it or a newer one, *)
(* for good: an older fill cannot come back, whatever the listener misses. *)
Outdated(r) ==
  \/ Live /\ entry.run < r
  \/ \E h \in Handlers : req[h].phase = "fetched" /\ req[h].run < r

EventuallyCurrent ==
  \A r \in Runs : rows[r] = "published" ~> []~Outdated(r)

(* The promise to clients, with everything above hidden: see StaleRegister. *)
Promise == INSTANCE StaleRegister
  WITH Clients <- Handlers, Bound <- TTL + MaxFillDelay - 1, published <- Published

ImplementsPromise == Promise!Spec

(* ADR-006: LISTEN/NOTIFY means "fresh forecast available, invalidate      *)
(* caches".  With the listener connected, every notification handled, no   *)
(* fill in flight and an entry no Clear has raced with, the cache does not *)
(* hold a superseded forecast.                                             *)
NotifiedCacheIsCurrent ==
  (/\ listener = "listening" /\ notes = 0
   /\ \A h \in Handlers : req[h].phase = "idle"
   /\ Live /\ entry.read = "after") => IsLatest(entry.run)
=============================================================================
