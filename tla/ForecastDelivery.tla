--------------------------- MODULE ForecastDelivery ---------------------------
(***************************************************************************)
(* A forecast request through the API's middleware, and the HTTP cache in  *)
(* front of the API that its headers are written for.                      *)
(*                                                                         *)
(*   middleware.Blackout       answers 503 in the silence, undecorated;    *)
(*   handlers                  200, 404, 500, or 503 without a database;   *)
(*   middleware.ForecastCache  tags a 200, gives it a max-age that depends *)
(*                             on ELECTION_WEEK, and answers 304 when      *)
(*                             If-None-Match lists its tag;                *)
(*   the HTTP cache            (external) keeps one copy, serves it while  *)
(*                             fresh and revalidates it afterwards.        *)
(*                                                                         *)
(* The silence may begin between any two steps of a request: the gate is   *)
(* not looked at again.  Bodies are numbered and stand for their tags; 0   *)
(* is no body.                                                             *)
(***************************************************************************)
EXTENDS Integers

CONSTANTS
  Requests,    \* requests under way at once
  MaxRuns,     \* forecasts in the history
  DefaultAge,  \* ticks of cacheControlDefault
  WeekAge,     \* ticks of cacheControlElectionWeek
  MaxDelay     \* ticks between a request's passing the gate and its answer

ASSUME DeliveryAssumption ==
  /\ MaxRuns \in Nat /\ MaxDelay \in Nat
  /\ WeekAge \in Nat \ {0} /\ DefaultAge \in Nat
  /\ WeekAge <= DefaultAge

VARIABLES
  silence,  \* is the blackout in force?
  week,     \* ticks the API has run with ELECTION_WEEK, capped; -1 without
  body,     \* the forecast the reader returns
  req,      \* the request in each slot
  copy,     \* the copy of the HTTP cache
  gone,     \* history: ticks since the reader returned each forecast, capped
  quiet     \* history: ticks since the silence began, capped

apiVars == <<silence, week, body>>
history == <<gone, quiet>>
vars == <<apiVars, req, copy, history>>

Runs == 1..MaxRuns
Bodies == 0..MaxRuns
Cap == DefaultAge + MaxDelay
Statuses == {200, 304, 404, 500, 503}
Flying == {"gated", "captured", "answered"}

Req(phase, offered, status, run, maxAge, age) ==
  [phase |-> phase, offered |-> offered, status |-> status, run |-> run,
   maxAge |-> maxAge, age |-> age]
Idle == Req("idle", {}, 0, 0, 0, 0)
Copy(run, left) == [run |-> run, left |-> left]
Fresh == copy.left > 0

-----------------------------------------------------------------------------
(* The HTTP cache (external).  While its copy is fresh it serves that,     *)
(* which changes nothing here: see Receivable.                             *)

(* Without a fresh copy the request is forwarded; the tag of a stale copy  *)
(* may be offered in If-None-Match.                                        *)
Forward(r) ==
  /\ req[r].phase = "idle" /\ ~Fresh
  /\ \E offered \in SUBSET ({copy.run} \ {0}) :
       req' = [req EXCEPT ![r] = Req("sent", offered, 0, 0, 0, 0)]
  /\ UNCHANGED <<apiVars, copy, history>>

(* A 200 is stored, a 304 freshens the copy whose tag it carries, and no   *)
(* other answer has a max-age.  Freshness counts from the arrival.         *)
Deliver(r) ==
  /\ req[r].phase = "answered"
  /\ copy' = IF req[r].maxAge > 0 THEN Copy(req[r].run, req[r].maxAge) ELSE copy
  /\ req' = [req EXCEPT ![r] = Idle]
  /\ UNCHANGED <<apiVars, history>>

-----------------------------------------------------------------------------
(* The API: Blackout(ForecastCache(forecastMux)).                          *)

Answered(r, status, run, maxAge) ==
  req' = [req EXCEPT ![r] = Req("answered", req[r].offered, status, run, maxAge, req[r].age)]

(* middleware.Blackout. *)
Silenced(r) ==
  /\ req[r].phase = "sent" /\ silence
  /\ Answered(r, 503, 0, 0)
  /\ UNCHANGED <<apiVars, copy, history>>

(* Mutant of PassGate: the silence is not asked about.                     *)
PassUnasked(r) ==
  /\ req[r].phase = "sent"
  /\ req' = [req EXCEPT ![r] = Req("gated", req[r].offered, 0, 0, 0, 0)]
  /\ UNCHANGED <<apiVars, copy, history>>

PassGate(r) ==
  /\ req[r].phase = "sent" /\ ~silence
  /\ req' = [req EXCEPT ![r] = Req("gated", req[r].offered, 0, 0, 0, 0)]
  /\ UNCHANGED <<apiVars, copy, history>>

(* The handler writes into the capture: the forecast, 404 without one, 500 *)
(* when the read fails, 503 when there is no database.                     *)
Capture(r) ==
  /\ req[r].phase = "gated"
  /\ \E status \in {IF body = 0 THEN 404 ELSE 200, 500, 503} :
       req' = [req EXCEPT ![r] = Req("captured", req[r].offered, status,
                                     IF status = 200 THEN body ELSE 0, 0, req[r].age)]
  /\ UNCHANGED <<apiVars, copy, history>>

(* Mutant of EtagMatches: any tag will do.                                 *)
AnyTagMatches(offered, run) == offered # {}

EtagMatches(offered, run) == run \in offered

(* Mutant of CacheControlValue: minutes for seconds.                       *)
InMinutes == 60 * (IF week >= 0 THEN WeekAge ELSE DefaultAge)

(* ELECTION_WEEK in the environment, read for each response. *)
CacheControlValue == IF week >= 0 THEN WeekAge ELSE DefaultAge

(* finalize: anything but a 200 passes through without headers. *)
PassThrough(r) ==
  /\ req[r].phase = "captured" /\ req[r].status # 200
  /\ Answered(r, req[r].status, 0, 0)
  /\ UNCHANGED <<apiVars, copy, history>>

(* finalize: a 200 is tagged, and cut to a 304 when its tag was offered.   *)
(* The 304 has the same headers; its receiver uses the copy it offered.    *)
Finalize(r) ==
  /\ req[r].phase = "captured" /\ req[r].status = 200
  /\ IF EtagMatches(req[r].offered, req[r].run)
     THEN Answered(r, 304, CHOOSE v \in req[r].offered : TRUE, CacheControlValue)
     ELSE Answered(r, 200, req[r].run, CacheControlValue)
  /\ UNCHANGED <<apiVars, copy, history>>

(* External: systemd restarts the API with or without ELECTION_WEEK.       *)
(* Answers on the wire arrive, other requests end without one.             *)
RestartWith(on) ==
  /\ week' = IF ~on THEN -1 ELSE IF week = -1 THEN 0 ELSE week
  /\ req' = [r \in Requests |-> IF req[r].phase = "answered" THEN req[r] ELSE Idle]
  /\ UNCHANGED <<silence, body, copy, history>>

-----------------------------------------------------------------------------
(* The world.                                                              *)

(* The reader's answer changes; a late fill may bring an older one back,   *)
(* or none.                                                                *)
ReaderReturns(v) ==
  /\ body # v
  /\ body' = v
  /\ gone' = [gone EXCEPT ![v] = 0]
  /\ UNCHANGED <<silence, week, req, copy, quiet>>

Flip ==
  /\ silence' = ~silence
  /\ quiet' = 0
  /\ UNCHANGED <<week, body, req, copy, gone>>

Tick ==
  /\ \A r \in Requests : req[r].phase \in Flying => req[r].age < MaxDelay
  /\ req' = [r \in Requests |->
               IF req[r].phase \in Flying
               THEN Req(req[r].phase, req[r].offered, req[r].status, req[r].run,
                        req[r].maxAge, req[r].age + 1)
               ELSE req[r]]
  /\ copy' = IF Fresh THEN Copy(copy.run, copy.left - 1) ELSE copy
  /\ week' = IF week \in 0..(Cap - 1) THEN week + 1 ELSE week
  /\ gone' = [v \in Bodies |-> IF v # body /\ gone[v] < Cap THEN gone[v] + 1 ELSE gone[v]]
  /\ quiet' = IF silence /\ quiet < Cap THEN quiet + 1 ELSE quiet
  /\ UNCHANGED <<silence, body>>

-----------------------------------------------------------------------------
Init ==
  /\ silence \in BOOLEAN
  /\ week = -1
  /\ body = 0
  /\ req = [r \in Requests |-> Idle]
  /\ copy = Copy(0, 0)
  /\ gone = [v \in Bodies |-> 0]
  /\ quiet = 0

Request(r) ==
  \/ Forward(r)
  \/ Silenced(r)
  \/ PassGate(r)
  \/ Capture(r)
  \/ PassThrough(r)
  \/ Finalize(r)
  \/ Deliver(r)

Next ==
  \/ \E r \in Requests : Request(r)
  \/ \E on \in BOOLEAN : RestartWith(on)
  \/ \E v \in Bodies : ReaderReturns(v)
  \/ Flip
  \/ Tick

Spec == Init /\ [][Next]_vars

-----------------------------------------------------------------------------
TypeOK ==
  /\ silence \in BOOLEAN
  /\ week \in -1..Cap
  /\ body \in Bodies
  /\ req \in [Requests -> [phase : Flying \cup {"idle", "sent"}, offered : SUBSET Runs,
                           status : Statuses \cup {0}, run : Bodies,
                           maxAge : 0..DefaultAge, age : 0..MaxDelay]]
  /\ copy \in [run : Bodies, left : 0..DefaultAge]
  /\ gone \in [Bodies -> 0..Cap]
  /\ quiet \in 0..Cap

(* The forecasts somebody can receive now: from the HTTP cache, or in an   *)
(* answer that is on the wire.                                             *)
Receivable ==
  ((IF Fresh THEN {copy.run} ELSE {}) \cup
   {req[r].run : r \in {q \in Requests : req[q].phase = "answered"}}) \ {0}

(* Ticks a forecast may be behind: in an election week the shorter ones    *)
(* count as soon as the answers given before it have expired.              *)
Bound == (IF week = Cap THEN WeekAge ELSE DefaultAge) + MaxDelay

(* The silence reaches everybody: no forecast is received, from the API or *)
(* from a cache that obeys its headers, once the silence has lasted the    *)
(* max-age and the time a request may be under way, although requests past *)
(* the gate finish, store and revalidate copies after it has begun.        *)
SilenceReachesAll == silence /\ Receivable # {} => quiet < Bound

(* A received forecast is what the API served at most that long ago,       *)
(* however often copies are revalidated while others are fetched.          *)
CopiesAreRecent == \A v \in Receivable : gone[v] < Bound

=============================================================================
