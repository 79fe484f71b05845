------------------------ MODULE ForecastServingProofs ------------------------
(***************************************************************************)
(* Proofs about ForecastServing, for any handlers, runs, TTL and delay.    *)
(***************************************************************************)
EXTENDS ForecastServing, TLAPS

USE ServingAssumption

(* Every variable stays in its type: in particular no notification count,  *)
(* entry life or fill age leaves its range.                                *)
THEOREM TypeCorrect == Spec => []TypeOK
<1> USE DEF Runs, Versions, LagCap, Entry, Fetched, NoEntry, Idle, Reading
<1>1. Init => TypeOK
  BY DEF Init, TypeOK, RowState, NoAnswer, ReadWhen
<1>2. TypeOK /\ [Next]_vars => TypeOK'
  <2> SUFFICES ASSUME TypeOK, [Next]_vars PROVE TypeOK'
    OBVIOUS
  <2>1. ASSUME NEW r \in Runs, NEW kind \in {"scheduled", "whatif"}, PredictCommit(r, kind)
        PROVE  TypeOK'
    BY <2>1 DEF TypeOK, RowState, PredictCommit
  <2>2. ASSUME NEW r \in Runs, CalibratePass(r) PROVE TypeOK'
    BY <2>2 DEF TypeOK, RowState, CalibratePass
  <2>3. CASE Connect \/ ConnectFails \/ ConnectionDrops \/ BackoffElapses
    BY <2>3 DEF TypeOK, Connect, ConnectFails, ConnectionDrops, BackoffElapses
  <2>4. CASE NotifyClear
    BY <2>4 DEF TypeOK, NotifyClear, ReadWhen
  <2>5. ASSUME NEW h \in Handlers, LookupHit(h) PROVE TypeOK'
    BY <2>5 DEF TypeOK, LookupHit, Answer
  <2>6. ASSUME NEW h \in Handlers, LookupMiss(h) PROVE TypeOK'
    BY <2>6 DEF TypeOK, LookupMiss, ReadWhen
  <2>7. ASSUME NEW h \in Handlers, NEW v \in Versions, UpstreamRead(h, v) PROVE TypeOK'
    BY <2>7 DEF TypeOK, UpstreamRead, ReadWhen
  <2>8. ASSUME NEW h \in Handlers, UpstreamError(h) PROVE TypeOK'
    BY <2>8 DEF TypeOK, UpstreamError, ReadWhen
  <2>9. ASSUME NEW h \in Handlers, Fill(h) PROVE TypeOK'
    BY <2>9 DEF TypeOK, Fill, Answer, ReadWhen
  <2>10. CASE Restart
    BY <2>10 DEF TypeOK, Restart, ReadWhen
  <2>11. CASE Tick
    <3>1. entry' \in [run : Versions, left : 0..TTL, read : ReadWhen]
      BY <2>11 DEF TypeOK, Tick, Live
    <3>2. req' \in [Handlers -> [phase : {"idle", "reading", "fetched"}, run : Versions,
                                 age : 0..MaxFillDelay, read : ReadWhen]]
      BY <2>11 DEF TypeOK, Tick
    <3>3. lag' \in [Versions -> 0..LagCap]
      BY <2>11 DEF TypeOK, Tick
    <3>4. QED
      BY <2>11, <3>1, <3>2, <3>3 DEF TypeOK, Tick
  <2>12. CASE UNCHANGED vars
    BY <2>12 DEF TypeOK, vars
  <2>13. QED
    BY <2>1, <2>2, <2>3, <2>4, <2>5, <2>6, <2>7, <2>8, <2>9, <2>10, <2>11, <2>12
    DEF Next, Database, Listener, Request
<1>3. QED
  BY <1>1, <1>2, PTL DEF Spec

-----------------------------------------------------------------------------
(* No step takes a run out of the published ones, and only a calibration   *)
(* adds one.                                                               *)
LEMMA PublicationIsPermanent ==
  ASSUME TypeOK, [Next]_vars
  PROVE  Published \subseteq Published'
<1>1. ASSUME NEW r \in Runs, NEW kind \in {"scheduled", "whatif"}, PredictCommit(r, kind)
      PROVE  Published \subseteq Published'
  BY <1>1 DEF TypeOK, PredictCommit, Published
<1>2. ASSUME NEW r \in Runs, CalibratePass(r) PROVE Published \subseteq Published'
  BY <1>2 DEF TypeOK, CalibratePass, Published
<1>3. ASSUME UNCHANGED rows PROVE Published \subseteq Published'
  BY <1>3 DEF Published
<1>4. Listener \/ (\E h \in Handlers : Request(h)) \/ Restart \/ Tick \/ UNCHANGED vars
      => UNCHANGED rows
  BY DEF Listener, Connect, ConnectFails, NotifyClear, ConnectionDrops, BackoffElapses,
         Request, LookupHit, LookupMiss, UpstreamRead, UpstreamError, Fill, Restart, Tick, vars
<1>5. QED
  BY <1>1, <1>2, <1>3, <1>4 DEF Next, Database

(* A run in circulation is a published one: in the cache entry, in a fill  *)
(* in flight, in an answer.                                                *)
THEOREM ServesOnlyPublished == Spec => []OnlyPublished
<1> USE DEF Runs, Versions, Entry, Fetched, NoEntry, Idle, Reading
<1>1. Init => OnlyPublished
  BY DEF Init, OnlyPublished, NoAnswer
<1>2. TypeOK /\ OnlyPublished /\ [Next]_vars => OnlyPublished'
  <2> SUFFICES ASSUME TypeOK, OnlyPublished, [Next]_vars PROVE OnlyPublished'
    OBVIOUS
  <2>1. Published \subseteq Published'
    BY PublicationIsPermanent
  <2>2. CASE Database \/ Connect \/ ConnectFails \/ ConnectionDrops \/ BackoffElapses \/ UNCHANGED vars
    <3>1. UNCHANGED <<entry, req, answer>>
      BY <2>2 DEF Database, PredictCommit, CalibratePass, Connect, ConnectFails,
                  ConnectionDrops, BackoffElapses, vars
    <3>2. QED
      BY <2>1, <3>1 DEF OnlyPublished
  <2>3. CASE NotifyClear
    BY <2>1, <2>3 DEF TypeOK, OnlyPublished, NotifyClear
  <2>4. ASSUME NEW h \in Handlers, LookupHit(h) PROVE OnlyPublished'
    BY <2>1, <2>4 DEF TypeOK, OnlyPublished, LookupHit, Answer
  <2>5. ASSUME NEW h \in Handlers, LookupMiss(h) PROVE OnlyPublished'
    BY <2>1, <2>5 DEF TypeOK, OnlyPublished, LookupMiss
  <2>6. ASSUME NEW h \in Handlers, NEW v \in Versions, UpstreamRead(h, v) PROVE OnlyPublished'
    BY <2>1, <2>6 DEF TypeOK, OnlyPublished, UpstreamRead, IsLatest
  <2>7. ASSUME NEW h \in Handlers, UpstreamError(h) PROVE OnlyPublished'
    BY <2>1, <2>7 DEF TypeOK, OnlyPublished, UpstreamError
  <2>8. ASSUME NEW h \in Handlers, Fill(h) PROVE OnlyPublished'
    BY <2>1, <2>8 DEF TypeOK, OnlyPublished, Fill, Answer
  <2>9. CASE Restart
    BY <2>1, <2>9 DEF TypeOK, OnlyPublished, Restart
  <2>10. CASE Tick
    BY <2>1, <2>10 DEF TypeOK, OnlyPublished, Tick
  <2>11. QED
    BY <2>2, <2>3, <2>4, <2>5, <2>6, <2>7, <2>8, <2>9, <2>10 DEF Next, Listener, Request
<1>3. QED
  BY <1>1, <1>2, TypeCorrect, PTL DEF Spec

-----------------------------------------------------------------------------
(* The fields of a request record that the lag arguments compute with.     *)
LEMMA RequestTypes ==
  ASSUME TypeOK, NEW h \in Handlers
  PROVE  req[h].run \in Versions /\ req[h].age \in 0..MaxFillDelay /\ req[h].age \in Nat
<1>1. req[h] \in [phase : {"idle", "reading", "fetched"}, run : Versions,
                  age : 0..MaxFillDelay, read : ReadWhen]
  BY DEF TypeOK
<1>2. QED
  BY <1>1

(* LagCovered is what the clock, the cache and the fills preserve together: *)
(* a tick adds one to a lag and takes one from the entry's life.           *)
LEMMA LagCoveredStep ==
  ASSUME TypeOK, TypeOK', LagCovered, [Next]_vars
  PROVE  LagCovered'
<1> USE DEF Runs, Versions, LagCap, Entry, Fetched, NoEntry, Idle, Reading
<1>1. Published \subseteq Published'
  BY PublicationIsPermanent
<1>2. \A v \in Versions : Superseded(v) => Superseded(v)'
  BY <1>1 DEF Superseded
<1>3. CASE Database \/ Connect \/ ConnectFails \/ ConnectionDrops \/ BackoffElapses \/ UNCHANGED vars
  <2>1. UNCHANGED <<entry, req, lag>>
    BY <1>3 DEF Database, PredictCommit, CalibratePass, Connect, ConnectFails,
                ConnectionDrops, BackoffElapses, vars
  <2>2. QED
    BY <1>2, <2>1 DEF LagCovered, Live
<1>4. CASE NotifyClear
  BY <1>2, <1>4 DEF TypeOK, LagCovered, Live, NotifyClear
<1>5. ASSUME NEW h \in Handlers, LookupHit(h) PROVE LagCovered'
  BY <1>2, <1>5 DEF LagCovered, Live, LookupHit
<1>6. ASSUME NEW h \in Handlers, LookupMiss(h) PROVE LagCovered'
  BY <1>2, <1>6 DEF TypeOK, LagCovered, Live, LookupMiss
<1>7. ASSUME NEW h \in Handlers, NEW v \in Versions, UpstreamRead(h, v) PROVE LagCovered'
  <2>1. lag[v] = 0
    BY <1>7 DEF TypeOK, LagCovered, UpstreamRead, IsLatest
  <2>2. \A g \in Handlers : req'[g] = IF g = h THEN Fetched(v, 0, "after") ELSE req[g]
    BY <1>7 DEF TypeOK, UpstreamRead
  <2>3. \A g \in Handlers : req'[g].phase = "fetched" => lag[req'[g].run] <= req'[g].age
    BY <2>1, <2>2 DEF LagCovered
  <2>4. UNCHANGED <<entry, lag>>
    BY <1>7 DEF UpstreamRead
  <2>5. QED
    BY <1>2, <2>3, <2>4 DEF LagCovered, Live
<1>8. ASSUME NEW h \in Handlers, UpstreamError(h) PROVE LagCovered'
  <2>1. \A g \in Handlers : req'[g] = IF g = h THEN Idle ELSE req[g]
    BY <1>8 DEF TypeOK, UpstreamError
  <2>2. \A g \in Handlers : req'[g].phase = "fetched" => lag[req'[g].run] <= req'[g].age
    BY <2>1 DEF LagCovered
  <2>3. UNCHANGED <<entry, lag>>
    BY <1>8 DEF UpstreamError
  <2>4. QED
    BY <1>2, <2>2, <2>3 DEF LagCovered, Live
<1>9. ASSUME NEW h \in Handlers, Fill(h) PROVE LagCovered'
  BY <1>2, <1>9 DEF TypeOK, LagCovered, Live, Fill
<1>10. CASE Restart
  BY <1>2, <1>10 DEF TypeOK, LagCovered, Live, Restart
<1>11. CASE Tick
  <2>1. \A v \in Versions : lag'[v] <= lag[v] + 1 /\ (lag'[v] > 0 => Superseded(v))
    BY <1>11 DEF TypeOK, LagCovered, Tick
  <2>2. \A h \in Handlers : req'[h].phase = "fetched" => lag'[req'[h].run] <= req'[h].age
    <3> TAKE h \in Handlers
    <3> HAVE req'[h].phase = "fetched"
    <3>1. req[h].phase = "fetched" /\ req'[h] = Fetched(req[h].run, req[h].age + 1, req[h].read)
      BY <1>11 DEF TypeOK, Tick
    <3>2. lag[req[h].run] <= req[h].age
      BY <3>1 DEF LagCovered
    <3>3. req[h].run \in Versions /\ req[h].age \in Nat
      BY RequestTypes
    <3>4. lag[req[h].run] \in Nat /\ lag'[req[h].run] \in Nat
      BY <3>3 DEF TypeOK
    <3>5. lag'[req[h].run] <= lag[req[h].run] + 1
      BY <2>1, <3>3
    <3>6. lag'[req[h].run] <= req[h].age + 1
      BY <3>2, <3>3, <3>4, <3>5
    <3>7. QED
      BY <3>1, <3>6
  <2>3. Live' => lag'[entry'.run] + entry'.left <= TTL + MaxFillDelay
    BY <1>11, <2>1 DEF TypeOK, LagCovered, Tick, Live
  <2>4. QED
    BY <1>2, <2>1, <2>2, <2>3 DEF LagCovered
<1>12. QED
  BY <1>3, <1>4, <1>5, <1>6, <1>7, <1>8, <1>9, <1>10, <1>11 DEF Next, Listener, Request

THEOREM LagStaysCovered == Spec => []LagCovered
<1>1. Init => LagCovered
  BY DEF Init, LagCovered, Live, Entry, NoEntry, Idle
<1>2. TypeOK /\ TypeOK' /\ LagCovered /\ [Next]_vars => LagCovered'
  BY LagCoveredStep
<1>3. QED
  BY <1>1, <1>2, TypeCorrect, PTL DEF Spec

(* No answer lags by more than a TTL and a fill's delay, whatever          *)
(* notifications are lost and however fills and clears interleave.         *)
THEOREM AnswersAreRecent == Spec => []BoundedStaleness
<1> USE DEF Runs, Versions, LagCap, Entry, Fetched, NoEntry, Idle, Reading
<1>1. Init => BoundedStaleness
  <2> SUFFICES ASSUME Init, NEW h \in Handlers
               PROVE  answer[h].lag <= TTL + MaxFillDelay - 1
    BY DEF BoundedStaleness
  <2>1. answer[h] = NoAnswer
    BY DEF Init
  <2>2. answer[h].lag = 0
    BY <2>1 DEF NoAnswer
  <2>3. QED
    BY <2>2
<1>2. TypeOK /\ LagCovered /\ BoundedStaleness /\ [Next]_vars => BoundedStaleness'
  <2> SUFFICES ASSUME TypeOK, LagCovered, BoundedStaleness, [Next]_vars PROVE BoundedStaleness'
    OBVIOUS
  <2>1. CASE UNCHANGED answer
    BY <2>1 DEF BoundedStaleness
  <2>2. ASSUME NEW h \in Handlers, NEW v \in Versions, Answer(h, v),
               lag[v] <= TTL + MaxFillDelay - 1
        PROVE  BoundedStaleness'
    <3>1. \A g \in Handlers : answer'[g].lag = IF g = h THEN lag[v] ELSE answer[g].lag
      BY <2>2 DEF TypeOK, Answer
    <3>2. QED
      BY <2>2, <3>1 DEF BoundedStaleness
  <2>3. ASSUME NEW h \in Handlers, LookupHit(h) PROVE BoundedStaleness'
    <3>1. entry.run \in Versions /\ lag[entry.run] <= TTL + MaxFillDelay - 1
      BY <2>3 DEF TypeOK, LagCovered, LookupHit, Live
    <3>2. QED
      BY <2>2, <2>3, <3>1 DEF LookupHit
  <2>4. ASSUME NEW h \in Handlers, UpstreamError(h) PROVE BoundedStaleness'
    <3>1. \A g \in Handlers : answer'[g].lag = IF g = h THEN 0 ELSE answer[g].lag
      BY <2>4 DEF TypeOK, UpstreamError
    <3>2. QED
      BY <3>1 DEF BoundedStaleness
  <2>5. ASSUME NEW h \in Handlers, Fill(h) PROVE BoundedStaleness'
    <3>1. lag[req[h].run] <= req[h].age
      BY <2>5 DEF LagCovered, Fill
    <3>2. req[h].run \in Versions /\ req[h].age \in 0..MaxFillDelay
      BY RequestTypes
    <3>3. lag[req[h].run] <= TTL + MaxFillDelay - 1
      BY <3>1, <3>2 DEF TypeOK
    <3>4. QED
      BY <2>2, <2>5, <3>2, <3>3 DEF Fill
  <2>6. Database \/ Listener \/ Restart \/ Tick \/ UNCHANGED vars => UNCHANGED answer
    BY DEF Database, PredictCommit, CalibratePass, Listener, Connect, ConnectFails, NotifyClear,
           ConnectionDrops, BackoffElapses, Restart, Tick, vars
  <2>7. \A h \in Handlers : \A v \in Versions :
          LookupMiss(h) \/ UpstreamRead(h, v) => UNCHANGED answer
    BY DEF LookupMiss, UpstreamRead
  <2>8. QED
    BY <2>1, <2>3, <2>4, <2>5, <2>6, <2>7 DEF Next, Request
<1>3. QED
  BY <1>1, <1>2, LagStaysCovered, TypeCorrect, PTL DEF Spec

-----------------------------------------------------------------------------
(* ForecastServing implements StaleRegister: hiding rows, listener, cache  *)
(* and requests, every step publishes, ages, serves within the bound,      *)
(* fails, or is invisible.                                                 *)
THEOREM KeepsPromise == Spec => ImplementsPromise
<1> USE DEF Runs, Versions, LagCap, Entry, Fetched, NoEntry, Idle, Reading
<1>1. Init => Promise!Init
  BY DEF Init, Promise!Init, Published, NoAnswer
<1>2. TypeOK /\ OnlyPublished /\ LagCovered /\ [Next]_vars => [Promise!Next]_(Promise!rvars)
  <2> SUFFICES ASSUME TypeOK, OnlyPublished, LagCovered, [Next]_vars
               PROVE  Promise!Next \/ UNCHANGED Promise!rvars
    OBVIOUS
  <2>1. ASSUME NEW r \in Runs, NEW kind \in {"scheduled", "whatif"}, PredictCommit(r, kind)
        PROVE  UNCHANGED Promise!rvars
    BY <2>1 DEF TypeOK, PredictCommit, Published, Promise!rvars
  <2>2. ASSUME NEW r \in Runs, CalibratePass(r) PROVE Promise!Publish(r)
    BY <2>2 DEF TypeOK, CalibratePass, Published, Promise!Publish
  <2>3. ASSUME Listener \/ Restart \/ UNCHANGED vars PROVE UNCHANGED Promise!rvars
    BY <2>3 DEF Listener, Connect, ConnectFails, NotifyClear, ConnectionDrops, BackoffElapses,
                Restart, vars, Published, Promise!rvars
  <2>4. ASSUME NEW h \in Handlers, LookupHit(h) PROVE Promise!Serve(h, entry.run)
    BY <2>4 DEF TypeOK, OnlyPublished, LagCovered, LookupHit, Live, Answer, Published, Promise!Serve
  <2>5. ASSUME NEW h \in Handlers, NEW v \in Versions, LookupMiss(h) \/ UpstreamRead(h, v)
        PROVE  UNCHANGED Promise!rvars
    BY <2>5 DEF LookupMiss, UpstreamRead, Published, Promise!rvars
  <2>6. ASSUME NEW h \in Handlers, UpstreamError(h) PROVE Promise!Fail(h)
    BY <2>6 DEF UpstreamError, Published, Promise!Fail
  <2>7. ASSUME NEW h \in Handlers, Fill(h) PROVE Promise!Serve(h, req[h].run)
    BY <2>7 DEF TypeOK, OnlyPublished, LagCovered, Fill, Answer, Published, Promise!Serve
  <2>8. ASSUME Tick PROVE Promise!Elapse
    BY <2>8 DEF Tick, Published, Superseded, Promise!Elapse, Promise!Outrun
  <2>9. QED
    <3>1. CASE Database
      BY <3>1, <2>1, <2>2 DEF Database, Promise!Next
    <3>2. CASE Listener \/ Restart \/ Tick \/ UNCHANGED vars
      BY <3>2, <2>3, <2>8 DEF Promise!Next
    <3>3. ASSUME NEW h \in Handlers, Request(h) PROVE Promise!Next \/ UNCHANGED Promise!rvars
      BY <3>3, <2>4, <2>5, <2>6, <2>7 DEF TypeOK, Request, Promise!Next
    <3>4. QED
      BY <3>1, <3>2, <3>3 DEF Next
<1>3. QED
  BY <1>1, <1>2, TypeCorrect, ServesOnlyPublished, LagStaysCovered, PTL
  DEF Spec, ImplementsPromise, Promise!Spec
=============================================================================
