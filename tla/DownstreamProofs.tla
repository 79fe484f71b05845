--------------------------- MODULE DownstreamProofs ---------------------------
(***************************************************************************)
(* Proofs about what stands between a stored forecast and its reader:      *)
(* ForecastDelivery, for any requests, forecasts, ages and delay,          *)
(* AndroidClient, for any loads, hours, clocks and lengths of the history, *)
(* and BlackoutControl, for any commands, requests and accounts.           *)
(***************************************************************************)
EXTENDS ForecastDelivery, AndroidClient, BlackoutControl, TLAPS

-----------------------------------------------------------------------------
(* The requests and the copy kept between the API and its readers.         *)

LEMMA Ages ==
  /\ DefaultAge \in Nat /\ WeekAge \in Nat /\ MaxDelay \in Nat /\ MaxRuns \in Nat
  /\ 0 < WeekAge /\ WeekAge <= DefaultAge
  /\ Cap \in Nat /\ Cap = DefaultAge + MaxDelay
BY DeliveryAssumption DEF Cap

(* The tags offered are one at most, so the copy a 304 freshens is the one *)
(* the API looked at.                                                      *)
OneTag == \A r \in Requests : \A a, b \in req[r].offered : a = b

Typed == TypeOK /\ OneTag

LEMMA ChooseOnly ==
  ASSUME NEW S, NEW x \in S, \A a, b \in S : a = b
  PROVE  (CHOOSE v \in S : TRUE) = x
<1>1. (CHOOSE v \in S : TRUE) \in S
  OBVIOUS
<1>. QED BY <1>1

(* What an answer looks like, given the types of its parts.                *)
LEMMA AnswerTyped ==
  ASSUME Typed, NEW r \in Requests,
         NEW status \in Statuses, NEW run \in Bodies, NEW maxAge \in 0..DefaultAge,
         Answered(r, status, run, maxAge), UNCHANGED <<apiVars, copy, history>>
  PROVE  Typed'
<1>1. req' = [req EXCEPT ![r] = Req("answered", req[r].offered, status, run, maxAge, req[r].age)]
  BY DEF Answered
<1>2. Req("answered", req[r].offered, status, run, maxAge, req[r].age)
        \in [phase : Flying \cup {"idle", "sent"}, offered : SUBSET Runs,
             status : Statuses \cup {0}, run : Bodies, maxAge : 0..DefaultAge, age : 0..MaxDelay]
  BY DEF Typed, TypeOK, Req, Flying
<1>3. TypeOK'
  BY <1>1, <1>2 DEF Typed, TypeOK, apiVars, history
<1>4. OneTag'
  <2>1. \A q \in Requests : req'[q].offered = req[q].offered
    BY <1>1 DEF Typed, TypeOK, Req
  <2>. QED BY <2>1 DEF Typed, OneTag
<1>. QED BY <1>3, <1>4 DEF Typed

LEMMA TypedHolds == Spec => []Typed
<1>1. Init => Typed
  BY Ages DEF Init, Typed, TypeOK, OneTag, Idle, Req, Copy, Bodies, Runs, Flying
<1>2. Typed /\ [Next]_vars => Typed'
  <2>. SUFFICES ASSUME Typed, [Next]_vars PROVE Typed'
    OBVIOUS
  <2>. USE Ages
  <2>1. ASSUME NEW r \in Requests, Forward(r) PROVE Typed'
    <3>1. PICK offered \in SUBSET ({copy.run} \ {0}) :
            req' = [req EXCEPT ![r] = Req("sent", offered, 0, 0, 0, 0)]
      BY <2>1 DEF Forward
    <3>2. offered \in SUBSET Runs /\ \A a, b \in offered : a = b
      BY DEF Typed, TypeOK, Bodies, Runs
    <3>3. TypeOK'
      BY <2>1, <3>1, <3>2
         DEF Forward, Typed, TypeOK, Req, Flying, Bodies, Runs, apiVars, history
    <3>4. OneTag'
      BY <3>1, <3>2 DEF Typed, TypeOK, OneTag, Req
    <3>. QED BY <3>3, <3>4 DEF Typed
  <2>2. ASSUME NEW r \in Requests, Silenced(r) PROVE Typed'
    BY <2>2, AnswerTyped DEF Silenced, Statuses, Bodies
  <2>3. ASSUME NEW r \in Requests, PassGate(r) PROVE Typed'
    <3>1. TypeOK'
      BY <2>3 DEF PassGate, Typed, TypeOK, Req, Flying, Bodies, Runs, apiVars, history
    <3>2. OneTag'
      BY <2>3 DEF PassGate, Typed, TypeOK, OneTag, Req
    <3>. QED BY <3>1, <3>2 DEF Typed
  <2>4. ASSUME NEW r \in Requests, Capture(r) PROVE Typed'
    <3>1. PICK status \in {IF body = 0 THEN 404 ELSE 200, 500, 503} :
            req' = [req EXCEPT ![r] = Req("captured", req[r].offered, status,
                                          IF status = 200 THEN body ELSE 0, 0, req[r].age)]
      BY <2>4 DEF Capture
    <3>2. Req("captured", req[r].offered, status, IF status = 200 THEN body ELSE 0, 0, req[r].age)
            \in [phase : Flying \cup {"idle", "sent"}, offered : SUBSET Runs,
                 status : Statuses \cup {0}, run : Bodies, maxAge : 0..DefaultAge, age : 0..MaxDelay]
      <4>1. status \in Statuses /\ (IF status = 200 THEN body ELSE 0) \in Bodies
        BY DEF Typed, TypeOK, Statuses, Bodies
      <4>. QED BY <4>1 DEF Typed, TypeOK, Req, Flying
    <3>3. TypeOK'
      BY <2>4, <3>1, <3>2 DEF Capture, Typed, TypeOK, apiVars, history
    <3>4. OneTag'
      BY <3>1 DEF Typed, TypeOK, OneTag, Req
    <3>. QED BY <3>3, <3>4 DEF Typed
  <2>5. ASSUME NEW r \in Requests, PassThrough(r) PROVE Typed'
    <3>1. req[r].status \in Statuses \cup {0} /\ 0 \in Bodies /\ 0 \in 0..DefaultAge
      BY DEF Typed, TypeOK, Bodies
    <3>2. CASE req[r].status \in Statuses
      BY <2>5, <3>1, <3>2, AnswerTyped DEF PassThrough
    <3>3. CASE req[r].status = 0
      <4>1. req' = [req EXCEPT ![r] = Req("answered", req[r].offered, 0, 0, 0, req[r].age)]
        BY <2>5, <3>3 DEF PassThrough, Answered
      <4>2. TypeOK'
        BY <2>5, <4>1 DEF PassThrough, Typed, TypeOK, Req, Flying, Bodies, apiVars, history
      <4>3. OneTag'
        BY <4>1 DEF Typed, TypeOK, OneTag, Req
      <4>. QED BY <4>2, <4>3 DEF Typed
    <3>. QED BY <3>1, <3>2, <3>3
  <2>6. ASSUME NEW r \in Requests, Finalize(r) PROVE Typed'
    <3>1. CacheControlValue \in 0..DefaultAge /\ req[r].run \in Bodies
      BY DEF CacheControlValue, Typed, TypeOK
    <3>2. CASE req[r].run \in req[r].offered
      <4>1. (CHOOSE v \in req[r].offered : TRUE) = req[r].run
        BY <3>2, ChooseOnly DEF Typed, OneTag
      <4>2. Answered(r, 304, req[r].run, CacheControlValue)
        BY <2>6, <3>2, <4>1 DEF Finalize, EtagMatches
      <4>. QED BY <2>6, <3>1, <4>2, AnswerTyped DEF Finalize, Statuses
    <3>3. CASE req[r].run \notin req[r].offered
      BY <2>6, <3>1, <3>3, AnswerTyped DEF Finalize, EtagMatches, Statuses
    <3>. QED BY <3>2, <3>3
  <2>7. ASSUME NEW r \in Requests, Deliver(r) PROVE Typed'
    <3>1. TypeOK'
      BY <2>7 DEF Deliver, Typed, TypeOK, Idle, Req, Copy, Flying, Bodies, Runs, apiVars, history
    <3>2. OneTag'
      BY <2>7 DEF Deliver, Typed, TypeOK, OneTag, Idle, Req
    <3>. QED BY <3>1, <3>2 DEF Typed
  <2>8. ASSUME NEW on \in BOOLEAN, RestartWith(on) PROVE Typed'
    <3>1. TypeOK'
      BY <2>8 DEF RestartWith, Typed, TypeOK, Idle, Req, Flying, Bodies, Runs, history
    <3>2. OneTag'
      BY <2>8 DEF RestartWith, Typed, TypeOK, OneTag, Idle, Req
    <3>. QED BY <3>1, <3>2 DEF Typed
  <2>9. ASSUME NEW v \in Bodies, ReaderReturns(v) PROVE Typed'
    BY <2>9 DEF ReaderReturns, Typed, TypeOK, OneTag
  <2>10. CASE Flip
    BY <2>10 DEF Flip, Typed, TypeOK, OneTag
  <2>11. CASE Tick
    <3>1. req' \in [Requests -> [phase : Flying \cup {"idle", "sent"}, offered : SUBSET Runs,
                                 status : Statuses \cup {0}, run : Bodies,
                                 maxAge : 0..DefaultAge, age : 0..MaxDelay]]
      BY <2>11 DEF Tick, Typed, TypeOK, Req
    <3>2. copy' \in [run : Bodies, left : 0..DefaultAge]
      BY <2>11 DEF Tick, Typed, TypeOK, Copy, Fresh
    <3>3. week' \in -1..Cap /\ quiet' \in 0..Cap /\ gone' \in [Bodies -> 0..Cap]
      BY <2>11 DEF Tick, Typed, TypeOK
    <3>4. OneTag'
      BY <2>11 DEF Tick, Typed, TypeOK, OneTag, Req
    <3>. QED BY <2>11, <3>1, <3>2, <3>3, <3>4 DEF Tick, Typed, TypeOK
  <2>12. CASE UNCHANGED vars
    BY <2>12 DEF Typed, TypeOK, OneTag, vars, apiVars, history
  <2>. QED
    BY <2>1, <2>2, <2>3, <2>4, <2>5, <2>6, <2>7, <2>8, <2>9, <2>10, <2>11, <2>12
       DEF Next, Request
<1>. QED BY <1>1, <1>2, PTL DEF Spec

(* The variables keep their types; a max-age is never above the default.   *)
THEOREM TypeCorrect == Spec => []TypeOK
<1>1. Typed => TypeOK
  BY DEF Typed
<1>. QED BY <1>1, TypedHolds, PTL

-----------------------------------------------------------------------------
(* What a request q has seen, when the election week has run for w, the    *)
(* forecasts were last returned g ago and the silence has lasted s: it     *)
(* passed the gate, and its forecast was read, at most its age ago; and    *)
(* the longer max-age was given before the election week, or so lately.    *)
Held(q, w, g, s) ==
  /\ q.phase \in {"gated", "captured"} => s <= q.age
  /\ q.phase = "captured" /\ q.status = 200 => g[q.run] <= q.age
  /\ q.phase = "answered" /\ q.maxAge > 0 =>
       /\ s <= q.age /\ g[q.run] <= q.age
       /\ q.maxAge = WeekAge \/ (q.maxAge = DefaultAge /\ w <= q.age)
  /\ q.phase = "answered" /\ q.run # 0 => q.maxAge > 0

(* A fresh copy c grows old by what it loses of its freshness.             *)
Kept(c, w, g, s) ==
  c.left > 0 =>
    \/ /\ c.left <= WeekAge
       /\ s + c.left <= MaxDelay + WeekAge
       /\ g[c.run] + c.left <= MaxDelay + WeekAge
    \/ w + c.left <= Cap /\ s + c.left <= Cap /\ g[c.run] + c.left <= Cap

Clocks == (~silence => quiet = 0) /\ gone[body] = 0

AllHeld == \A r \in Requests : Held(req[r], week, gone, quiet)

Lately == Clocks /\ AllHeld /\ Kept(copy, week, gone, quiet)

LEMMA OneMoves ==
  ASSUME Typed, Lately, NEW r \in Requests, NEW q,
         req' = [req EXCEPT ![r] = q], Held(q, week, gone, quiet),
         UNCHANGED <<apiVars, copy, history>>
  PROVE  Lately'
<1>1. AllHeld'
  BY DEF Typed, TypeOK, Lately, AllHeld, apiVars, history
<1>2. Clocks' /\ Kept(copy, week, gone, quiet)'
  BY DEF Lately, Clocks, Kept, apiVars, history
<1>. QED BY <1>1, <1>2 DEF Lately

LEMMA TickLately ==
  ASSUME Typed, Lately, Tick PROVE Lately'
<1>. USE Ages
<1>1. /\ week \in -1..Cap /\ quiet \in 0..Cap /\ body \in Bodies
      /\ gone \in [Bodies -> 0..Cap] /\ copy.run \in Bodies /\ copy.left \in 0..DefaultAge
  BY DEF Typed, TypeOK
<1>2. quiet' <= quiet + 1 /\ week' <= week + 1 /\ (week = -1 => week' = -1)
  BY <1>1 DEF Tick
<1>3. \A v \in Bodies : gone'[v] \in Int /\ gone'[v] <= gone[v] + 1
  BY <1>1 DEF Tick
<1>4. quiet' \in Int /\ week' \in Int
  BY <1>1 DEF Tick
<1>5. Clocks'
  BY <1>1 DEF Tick, Lately, Clocks
<1>6. ASSUME NEW r \in Requests PROVE Held(req'[r], week', gone', quiet')
  <2>1. /\ req[r].age \in 0..MaxDelay /\ req[r].run \in Bodies
        /\ req[r].maxAge \in 0..DefaultAge /\ req[r].status \in Statuses \cup {0}
    BY DEF Typed, TypeOK
  <2>2. Held(req[r], week, gone, quiet)
    BY DEF Lately, AllHeld
  <2>3. CASE req[r].phase \in Flying
    <3>1. /\ req'[r].phase = req[r].phase /\ req'[r].status = req[r].status
          /\ req'[r].run = req[r].run /\ req'[r].maxAge = req[r].maxAge
          /\ req'[r].age = req[r].age + 1
      BY <2>3 DEF Tick, Req
    <3>2. gone[req[r].run] \in Int /\ gone'[req[r].run] \in Int
          /\ gone'[req[r].run] <= gone[req[r].run] + 1
      BY <1>1, <1>3, <2>1
    <3>. QED BY <1>1, <1>2, <1>4, <2>1, <2>2, <3>1, <3>2 DEF Held
  <2>4. CASE req[r].phase \notin Flying
    <3>1. req'[r] = req[r]
      BY <2>4 DEF Tick
    <3>. QED BY <2>4, <3>1 DEF Held, Flying
  <2>. QED BY <2>3, <2>4
<1>7. AllHeld'
  BY <1>6 DEF AllHeld
<1>8. Kept(copy', week', gone', quiet')
  <2>1. CASE Fresh
    <3>1. copy'.run = copy.run /\ copy'.left = copy.left - 1
      BY <2>1 DEF Tick, Copy
    <3>2. gone[copy.run] \in Int /\ gone'[copy.run] \in Int
          /\ gone'[copy.run] <= gone[copy.run] + 1
      BY <1>1, <1>3
    <3>3. Kept(copy, week, gone, quiet)
      BY DEF Lately
    <3>. QED BY <1>1, <1>2, <1>4, <2>1, <3>1, <3>2, <3>3 DEF Kept, Fresh
  <2>2. CASE ~Fresh
    BY <2>2 DEF Tick, Kept, Fresh
  <2>. QED BY <2>1, <2>2
<1>9. Kept(copy, week, gone, quiet)'
  BY <1>8
<1>. QED BY <1>5, <1>7, <1>9 DEF Lately

LEMMA LatelyHolds == Spec => []Lately
<1>1. Init => Lately
  BY Ages DEF Init, Lately, Clocks, AllHeld, Held, Kept, Idle, Req, Copy, Bodies
<1>2. Typed /\ Lately /\ [Next]_vars => Lately'
  <2>. SUFFICES ASSUME Typed, Lately, [Next]_vars PROVE Lately'
    OBVIOUS
  <2>. USE Ages
  <2>a. /\ week \in -1..Cap /\ quiet \in 0..Cap /\ body \in Bodies
        /\ gone \in [Bodies -> 0..Cap] /\ copy.run \in Bodies /\ copy.left \in 0..DefaultAge
    BY DEF Typed, TypeOK
  <2>b. \A r \in Requests :
          /\ req[r].age \in 0..MaxDelay /\ req[r].run \in Bodies
          /\ req[r].maxAge \in 0..DefaultAge
          /\ Held(req[r], week, gone, quiet)
    BY DEF Typed, TypeOK, Lately, AllHeld
  <2>c. Clocks /\ Kept(copy, week, gone, quiet)
    BY DEF Lately
  <2>1. ASSUME NEW r \in Requests, Forward(r) PROVE Lately'
    <3>1. PICK offered \in SUBSET ({copy.run} \ {0}) :
            req' = [req EXCEPT ![r] = Req("sent", offered, 0, 0, 0, 0)]
      BY <2>1 DEF Forward
    <3>2. Held(Req("sent", offered, 0, 0, 0, 0), week, gone, quiet)
      BY DEF Held, Req
    <3>. QED BY <2>1, <3>1, <3>2, OneMoves DEF Forward
  <2>2. ASSUME NEW r \in Requests, Silenced(r) PROVE Lately'
    <3>1. Held(Req("answered", req[r].offered, 503, 0, 0, req[r].age), week, gone, quiet)
      BY DEF Held, Req
    <3>. QED BY <2>2, <3>1, OneMoves DEF Silenced, Answered
  <2>3. ASSUME NEW r \in Requests, PassGate(r) PROVE Lately'
    <3>1. quiet <= 0
      BY <2>3, <2>c DEF PassGate, Clocks
    <3>2. Held(Req("gated", req[r].offered, 0, 0, 0, 0), week, gone, quiet)
      BY <3>1 DEF Held, Req
    <3>. QED BY <2>3, <3>2, OneMoves DEF PassGate
  <2>4. ASSUME NEW r \in Requests, Capture(r) PROVE Lately'
    <3>1. PICK status \in {IF body = 0 THEN 404 ELSE 200, 500, 503} :
            req' = [req EXCEPT ![r] = Req("captured", req[r].offered, status,
                                          IF status = 200 THEN body ELSE 0, 0, req[r].age)]
      BY <2>4 DEF Capture
    <3>2. quiet <= req[r].age /\ gone[body] <= req[r].age
      BY <2>4, <2>b, <2>c DEF Capture, Held, Clocks
    <3>3. UNCHANGED <<apiVars, copy, history>>
      BY <2>4 DEF Capture
    <3>4. CASE status = 200
      <4>1. req' = [req EXCEPT ![r] = Req("captured", req[r].offered, status, body, 0,
                                          req[r].age)]
        BY <3>1, <3>4
      <4>2. Held(Req("captured", req[r].offered, status, body, 0, req[r].age),
                 week, gone, quiet)
        BY <3>2 DEF Held, Req
      <4>. QED BY <3>3, <4>1, <4>2, OneMoves
    <3>5. CASE status # 200
      <4>1. req' = [req EXCEPT ![r] = Req("captured", req[r].offered, status, 0, 0,
                                          req[r].age)]
        BY <3>1, <3>5
      <4>2. Held(Req("captured", req[r].offered, status, 0, 0, req[r].age),
                 week, gone, quiet)
        BY <3>2, <3>5 DEF Held, Req
      <4>. QED BY <3>3, <4>1, <4>2, OneMoves
    <3>. QED BY <3>4, <3>5
  <2>5. ASSUME NEW r \in Requests, PassThrough(r) PROVE Lately'
    <3>1. Held(Req("answered", req[r].offered, req[r].status, 0, 0, req[r].age),
               week, gone, quiet)
      BY DEF Held, Req
    <3>. QED BY <2>5, <3>1, OneMoves DEF PassThrough, Answered
  <2>6. ASSUME NEW r \in Requests, Finalize(r) PROVE Lately'
    <3>1. quiet <= req[r].age /\ gone[req[r].run] <= req[r].age
      BY <2>6, <2>b DEF Finalize, Held
    <3>2. /\ CacheControlValue > 0
          /\ CacheControlValue = WeekAge
             \/ (CacheControlValue = DefaultAge /\ week <= req[r].age)
      BY <2>a, <2>b DEF CacheControlValue
    <3>3. \A status : Held(Req("answered", req[r].offered, status, req[r].run,
                               CacheControlValue, req[r].age), week, gone, quiet)
      BY <3>1, <3>2 DEF Held, Req
    <3>4. \E status :
            req' = [req EXCEPT ![r] = Req("answered", req[r].offered, status, req[r].run,
                                          CacheControlValue, req[r].age)]
      <4>1. CASE req[r].run \in req[r].offered
        <5>1. (CHOOSE v \in req[r].offered : TRUE) = req[r].run
          BY <4>1, ChooseOnly DEF Typed, OneTag
        <5>2. Answered(r, 304, req[r].run, CacheControlValue)
          BY <2>6, <4>1, <5>1 DEF Finalize, EtagMatches
        <5>. QED BY <5>2 DEF Answered
      <4>2. CASE req[r].run \notin req[r].offered
        BY <2>6, <4>2 DEF Finalize, EtagMatches, Answered
      <4>. QED BY <4>1, <4>2
    <3>5. PICK status :
            req' = [req EXCEPT ![r] = Req("answered", req[r].offered, status, req[r].run,
                                          CacheControlValue, req[r].age)]
      BY <3>4
    <3>6. Held(Req("answered", req[r].offered, status, req[r].run,
                   CacheControlValue, req[r].age), week, gone, quiet)
      BY <3>3
    <3>7. UNCHANGED <<apiVars, copy, history>>
      BY <2>6 DEF Finalize
    <3>. QED BY <3>5, <3>6, <3>7, OneMoves
  <2>7. ASSUME NEW r \in Requests, Deliver(r) PROVE Lately'
    <3>1. AllHeld'
      <4>1. Held(Idle, week, gone, quiet)
        BY DEF Held, Idle, Req
      <4>. QED BY <2>7, <2>b, <4>1
               DEF Deliver, Typed, TypeOK, AllHeld, apiVars, history
    <3>2. Clocks'
      BY <2>7, <2>c DEF Deliver, Clocks, apiVars, history
    <3>3. Kept(copy', week, gone, quiet)
      <4>1. CASE req[r].maxAge > 0
        <5>1. copy'.run = req[r].run /\ copy'.left = req[r].maxAge
          BY <2>7, <4>1 DEF Deliver, Copy
        <5>2. /\ quiet <= req[r].age /\ gone[req[r].run] <= req[r].age
              /\ req[r].maxAge = WeekAge \/ (req[r].maxAge = DefaultAge /\ week <= req[r].age)
          BY <2>7, <2>b, <4>1 DEF Deliver, Held
        <5>3. gone[req[r].run] \in Int
          BY <2>a, <2>b
        <5>. QED BY <2>a, <2>b, <5>1, <5>2, <5>3 DEF Kept
      <4>2. CASE ~(req[r].maxAge > 0)
        BY <2>7, <2>c, <4>2 DEF Deliver
      <4>. QED BY <4>1, <4>2
    <3>4. Kept(copy, week, gone, quiet)'
      BY <2>7, <3>3 DEF Deliver, apiVars, history
    <3>. QED BY <3>1, <3>2, <3>4 DEF Lately
  <2>8. ASSUME NEW on \in BOOLEAN, RestartWith(on) PROVE Lately'
    <3>1. week' <= week \/ week' <= 0
      BY <2>8, <2>a DEF RestartWith
    <3>2. week' \in Int
      BY <2>8, <2>a DEF RestartWith
    <3>3. ASSUME NEW r \in Requests PROVE Held(req'[r], week', gone, quiet)
      <4>1. CASE req[r].phase = "answered"
        BY <2>8, <2>a, <2>b, <3>1, <3>2, <4>1 DEF RestartWith, Held
      <4>2. CASE req[r].phase # "answered"
        BY <2>8, <4>2 DEF RestartWith, Held, Idle, Req
      <4>. QED BY <4>1, <4>2
    <3>4. Clocks' /\ AllHeld'
      BY <2>8, <2>c, <3>3 DEF RestartWith, Clocks, AllHeld, history
    <3>5. Kept(copy, week', gone, quiet)
      <4>1. gone[copy.run] \in Int
        BY <2>a
      <4>. QED BY <2>a, <2>c, <3>1, <3>2, <4>1 DEF Kept
    <3>6. Kept(copy, week, gone, quiet)'
      BY <2>8, <3>5 DEF RestartWith, history
    <3>. QED BY <3>4, <3>6 DEF Lately
  <2>9. ASSUME NEW v \in Bodies, ReaderReturns(v) PROVE Lately'
    <3>1. \A u \in Bodies : gone'[u] \in Int /\ gone'[u] <= gone[u]
      BY <2>9, <2>a DEF ReaderReturns
    <3>2. Clocks'
      BY <2>9, <2>a, <2>c DEF ReaderReturns, Clocks
    <3>3. ASSUME NEW r \in Requests PROVE Held(req[r], week, gone', quiet)
      <4>1. /\ gone[req[r].run] \in Int /\ gone'[req[r].run] \in Int
            /\ gone'[req[r].run] <= gone[req[r].run]
        BY <2>a, <2>b, <3>1
      <4>. QED BY <2>a, <2>b, <4>1 DEF Held
    <3>4. AllHeld'
      BY <2>9, <3>3 DEF ReaderReturns, AllHeld
    <3>5. Kept(copy, week, gone', quiet)
      <4>1. /\ gone[copy.run] \in Int /\ gone'[copy.run] \in Int
            /\ gone'[copy.run] <= gone[copy.run]
        BY <2>a, <3>1
      <4>. QED BY <2>a, <2>c, <4>1 DEF Kept
    <3>6. Kept(copy, week, gone, quiet)'
      BY <2>9, <3>5 DEF ReaderReturns
    <3>. QED BY <3>2, <3>4, <3>6 DEF Lately
  <2>10. CASE Flip
    <3>1. Clocks'
      BY <2>10, <2>c DEF Flip, Clocks
    <3>2. ASSUME NEW r \in Requests PROVE Held(req[r], week, gone, 0)
      BY <2>b DEF Held
    <3>3. AllHeld'
      BY <2>10, <3>2 DEF Flip, AllHeld
    <3>4. Kept(copy, week, gone, 0)
      <4>1. gone[copy.run] \in Int
        BY <2>a
      <4>. QED BY <2>a, <2>c, <4>1 DEF Kept
    <3>5. Kept(copy, week, gone, quiet)'
      BY <2>10, <3>4 DEF Flip
    <3>. QED BY <3>1, <3>3, <3>5 DEF Lately
  <2>11. CASE Tick
    BY <2>11, TickLately
  <2>12. CASE UNCHANGED vars
    BY <2>12 DEF Lately, Clocks, AllHeld, Held, Kept, vars, apiVars, history
  <2>. QED
    BY <2>1, <2>2, <2>3, <2>4, <2>5, <2>6, <2>7, <2>8, <2>9, <2>10, <2>11, <2>12
       DEF Next, Request
<1>. QED BY <1>1, <1>2, TypedHolds, PTL DEF Spec

(* A forecast that can be received passed the gate, and was read, less     *)
(* than Bound ago.                                                         *)
LEMMA ReceivedLately ==
  ASSUME Typed, Lately, NEW v \in Receivable
  PROVE  quiet < Bound /\ gone[v] < Bound
<1>. USE Ages
<1>1. week \in -1..Cap /\ quiet \in 0..Cap /\ gone \in [Bodies -> 0..Cap]
  BY DEF Typed, TypeOK
<1>2. WeekAge + MaxDelay <= Bound
  BY DEF Bound
<1>3. CASE Fresh /\ v = copy.run
  <2>1. copy.left \in 0..DefaultAge /\ gone[v] \in Int
    BY <1>1, <1>3 DEF Typed, TypeOK
  <2>2. copy.left > 0 /\ Kept(copy, week, gone, quiet)
    BY <1>3 DEF Fresh, Lately
  <2>. QED BY <1>1, <1>2, <1>3, <2>1, <2>2 DEF Kept, Bound
<1>4. ASSUME NEW r \in Requests, req[r].phase = "answered", v = req[r].run, v # 0
      PROVE  quiet < Bound /\ gone[v] < Bound
  <2>1. req[r].age \in 0..MaxDelay /\ gone[v] \in Int
    BY <1>1, <1>4 DEF Typed, TypeOK
  <2>2. quiet <= req[r].age /\ gone[v] <= req[r].age
    BY <1>4 DEF Lately, AllHeld, Held
  <2>3. Bound \in Int /\ MaxDelay < Bound
    BY DEF Bound
  <2>. QED BY <1>1, <2>1, <2>2, <2>3
<1>. QED BY <1>3, <1>4 DEF Receivable

(* The silence reaches everybody, through requests that straddle its       *)
(* beginning and an HTTP cache that obeys the headers.                     *)
THEOREM SilenceArrives == Spec => []SilenceReachesAll
<1>1. Typed /\ Lately => SilenceReachesAll
  BY ReceivedLately DEF SilenceReachesAll
<1>. QED BY <1>1, TypedHolds, LatelyHolds, PTL

(* A received forecast is what the API served less than Bound ago.         *)
THEOREM RecentCopies == Spec => []CopiesAreRecent
<1>1. Typed /\ Lately => CopiesAreRecent
  BY ReceivedLately DEF CopiesAreRecent
<1>. QED BY <1>1, TypedHolds, LatelyHolds, PTL

-----------------------------------------------------------------------------
(* The app.                                                                *)

(* Whole hours: what division does to a number of ticks.                   *)
LEMMA WholeHours ==
  ASSUME NEW n \in Nat, NEW d \in Nat \ {0}
  PROVE  n \div d \in Nat /\ n \div d <= n /\ n < (n \div d + 1) * d
<1>. DEFINE q == n \div d
<1>1. q \in Int /\ q * d <= n /\ n < q * d + d
  BY Z3
<1>. HIDE DEF q
<1>2. (q + 1) * d = q * d + d
  BY <1>1, SMT
<1>3. q >= 0
  <2>1. SUFFICES ASSUME q + 1 <= 0 PROVE FALSE
    BY <1>1
  <2>2. (q + 1) * d <= 0
    BY <1>1, <2>1, SMT
  <2>. QED BY <1>1, <1>2, <2>2, SMT
<1>4. q <= q * d
  BY <1>1, <1>3, SMT
<1>5. q * d \in Int
  BY <1>1, SMT
<1>. QED BY <1>1, <1>2, <1>3, <1>4, <1>5, SMT DEF q

LEMMA AppTimes ==
  /\ MaxTime \in Nat /\ Skew \in Nat /\ Hour \in Nat \ {0}
  /\ FreshHours \in Nat /\ SlightHours \in Nat /\ StaleHours \in Nat
  /\ Never \notin Nat /\ Nobody \notin Loads
  /\ NoPayload \in Payload /\ NoRow \in Payload
BY AndroidAssumption DEF NoPayload, NoRow, Payload, Times, Expiries

LEMMA AgeIsAnAge ==
  ASSUME now \in 0..MaxTime, NEW gen \in Times
  PROVE  /\ AgeHours(gen) \in 0..MaxTime
         /\ now - gen < (AgeHours(gen) + 1) * Hour
<1>1. CASE gen <= now
  <2>1. now - gen \in Nat /\ now - gen <= MaxTime
    BY <1>1, AppTimes DEF Times
  <2>2. AgeHours(gen) = (now - gen) \div Hour
    BY <1>1 DEF AgeHours
  <2>. QED BY <2>1, <2>2, WholeHours, AppTimes
<1>2. CASE ~(gen <= now)
  <2>1. now - gen < 0
    BY <1>2, AppTimes DEF Times
  <2>2. AgeHours(gen) = 0 \div Hour
    BY <1>2 DEF AgeHours
  <2>3. AgeHours(gen) \in Nat /\ AgeHours(gen) <= 0
    BY <2>2, WholeHours, AppTimes
  <2>4. AgeHours(gen) = 0
    BY <2>3
  <2>. QED BY <2>1, <2>4, AppTimes DEF Times
<1>. QED BY <1>1, <1>2

UiStates == [kind : Kinds, gen : Times, until : Expiries, age : 0..MaxTime]

LEMMA UiTyped ==
  ASSUME NEW kind \in Kinds PROVE Ui(kind) \in UiStates
BY AppTimes DEF Ui, UiStates, Times, Expiries

(* What bucketize makes of a payload: nothing that is expired or too old.  *)
LEMMA BucketizeSpec ==
  ASSUME now \in 0..MaxTime, NEW p \in Payload
  PROVE  /\ Bucketize(p) \in UiStates
         /\ Bucketize(p).kind \in LoadedKinds \cup {"noRecent"}
         /\ Bucketize(p).kind \in LoadedKinds =>
              /\ [gen |-> Bucketize(p).gen, until |-> Bucketize(p).until] = p
              /\ p.until = Never \/ p.until > now
              /\ now - p.gen < (StaleHours + 1) * Hour
<1>. DEFINE a == AgeHours(p.gen)
<1>1. p.gen \in Times /\ p.until \in Expiries /\ p = [gen |-> p.gen, until |-> p.until]
  BY DEF Payload
<1>2. a \in 0..MaxTime /\ now - p.gen < (a + 1) * Hour
  BY <1>1, AgeIsAnAge
<1>3. ASSUME NEW kind \in LoadedKinds
      PROVE  /\ Loaded(kind, p) \in UiStates
             /\ Loaded(kind, p).kind = kind
             /\ [gen |-> Loaded(kind, p).gen, until |-> Loaded(kind, p).until] = p
  BY <1>1, <1>2 DEF Loaded, UiStates, Kinds, LoadedKinds
<1>4. Ui("noRecent") \in UiStates /\ Ui("noRecent").kind = "noRecent" /\ "noRecent" \notin LoadedKinds
  BY UiTyped DEF Kinds, Ui, LoadedKinds
<1>5. CASE p.until # Never /\ p.until <= now
  BY <1>4, <1>5 DEF Bucketize
<1>6. CASE ~(p.until # Never /\ p.until <= now)
  <2>1. Bucketize(p) = ByAge(p)
    BY <1>6 DEF Bucketize
  <2>2. p.until = Never \/ p.until > now
    BY <1>1, <1>6, AppTimes DEF Expiries
  <2>3. CASE a <= StaleHours
    <3>1. \E kind \in LoadedKinds : ByAge(p) = Loaded(kind, p)
      BY <1>2, <2>3, AndroidAssumption DEF ByAge, LoadedKinds
    <3>2. a + 1 <= StaleHours + 1
      BY <1>2, <2>3, AppTimes
    <3>3. (a + 1) * Hour <= (StaleHours + 1) * Hour
      <4>. HIDE DEF a
      <4>1. a + 1 \in Int /\ StaleHours + 1 \in Int /\ Hour \in Nat
        BY <1>2, AppTimes
      <4>. QED BY <3>2, <4>1, SMT
    <3>4. (a + 1) * Hour \in Int /\ (StaleHours + 1) * Hour \in Int /\ now - p.gen \in Int
      BY <1>1, <1>2, AppTimes DEF Times
    <3>5. now - p.gen < (StaleHours + 1) * Hour
      <4>. HIDE DEF a
      <4>. QED BY <1>2, <3>3, <3>4
    <3>. QED BY <1>3, <2>1, <2>2, <3>1, <3>5
  <2>4. CASE ~(a <= StaleHours)
    <3>1. ByAge(p) = Ui("noRecent")
      BY <1>2, <2>4, AndroidAssumption DEF ByAge
    <3>. QED BY <1>4, <2>1, <3>1
  <2>. QED BY <2>3, <2>4
<1>. QED BY <1>5, <1>6

Phases == {"idle", "fetching", "storing", "wiping", "falling", "showing", "failing", "silent"}

(* The inductive invariant: the load whose state is shown is over, without *)
(* one there is nothing to show, and a load that used the cache last and   *)
(* has not shown its state holds what the row holds.                       *)
AppInv ==
  /\ AppTypeOK
  /\ shownBy \in Loads => pc[shownBy] = "idle"
  /\ shownBy = Nobody => ui.kind \in {"none", "loading"}
  /\ storedBy \in Loads =>
       /\ pc[storedBy] = "showing" => row = got[storedBy]
       /\ pc[storedBy] = "silent" => row = NoRow
  /\ ScreenAgreesWithCache

(* A step of one load that leaves the screen's state alone.                *)
LEMMA Proceeding ==
  ASSUME AppInv, NEW l \in Loads, NEW to \in Phases, NEW p \in Payload,
         pc[l] # "idle",
         pc' = [pc EXCEPT ![l] = to], got' = [got EXCEPT ![l] = p],
         UNCHANGED <<srvVars, uiVars, screen>>,
         \/ UNCHANGED rowVars /\ (storedBy = l => (to = "showing" => row = p) /\ to # "silent")
         \/ row' \in Payload /\ storedBy' = l /\ (to = "showing" => row' = p) /\ (to = "silent" => row' = NoRow)
         \/ row' \in Payload /\ storedBy' = Nobody /\ row' = row
  PROVE  AppInv'
<1>. USE AppTimes DEF AppInv, srvVars, uiVars, rowVars
<1>1. AppTypeOK'
  BY DEF AppTypeOK, Phases
<1>2. shownBy # l
  OBVIOUS
<1>3. (shownBy \in Loads => pc[shownBy] = "idle")'
  BY <1>2 DEF AppTypeOK
<1>4. (shownBy = Nobody => ui.kind \in {"none", "loading"})'
  OBVIOUS
<1>5. (storedBy \in Loads =>
         /\ pc[storedBy] = "showing" => row = got[storedBy]
         /\ pc[storedBy] = "silent" => row = NoRow)'
  BY DEF AppTypeOK, NoRow, NoPayload
<1>6. ScreenAgreesWithCache'
  BY <1>2 DEF AppTypeOK, ScreenAgreesWithCache, NoRow, NoPayload, LoadedKinds
<1>. QED BY <1>1, <1>3, <1>4, <1>5, <1>6 DEF AppInv

(* A load shows its state and ends.                                        *)
LEMMA Finishing ==
  ASSUME AppInv, NEW l \in Loads, NEW u \in UiStates,
         ui' = u, Finish(l),
         storedBy = l /\ u.kind = "blackout" => row = NoRow,
         storedBy = l /\ u.kind \in LoadedKinds => row = [gen |-> u.gen, until |-> u.until]
  PROVE  AppInv'
<1>. USE AppTimes DEF AppInv, Finish, srvVars, rowVars
<1>1. AppTypeOK'
  BY DEF AppTypeOK, UiStates
<1>2. (shownBy \in Loads => pc[shownBy] = "idle")'
  BY DEF AppTypeOK
<1>3. (shownBy = Nobody => ui.kind \in {"none", "loading"})'
  OBVIOUS
<1>4. (storedBy \in Loads =>
         /\ pc[storedBy] = "showing" => row = got[storedBy]
         /\ pc[storedBy] = "silent" => row = NoRow)'
  BY DEF AppTypeOK, NoRow, NoPayload
<1>5. ScreenAgreesWithCache'
  BY DEF ScreenAgreesWithCache, NoRow, NoPayload
<1>. QED BY <1>1, <1>2, <1>3, <1>4, <1>5 DEF AppInv

LEMMA AppInvHolds == AppSpec => []AppInv
<1>1. AppInit => AppInv
  BY AppTimes, UiTyped DEF AppInit, AppInv, AppTypeOK, ScreenAgreesWithCache, UiStates, Kinds, Ui, LoadedKinds
<1>2. AppInv /\ [AppNext]_appVars => AppInv'
  <2>. SUFFICES ASSUME AppInv, [AppNext]_appVars PROVE AppInv'
    OBVIOUS
  <2>. USE AppTimes
  <2>0. /\ pc \in [Loads -> Phases] /\ got \in [Loads -> Payload]
        /\ latest \in Payload /\ row \in Payload /\ now \in 0..MaxTime
    BY DEF AppInv, AppTypeOK, Phases
  <2>1. ASSUME NEW l \in Loads, Launch(l) PROVE AppInv'
    <3>1. AppTypeOK'
      BY <2>0, <2>1, UiTyped DEF AppInv, AppTypeOK, Launch, srvVars, rowVars, UiStates, Kinds
    <3>2. ui'.kind = "loading"
      BY <2>1 DEF Launch, Ui
    <3>. QED BY <2>0, <2>1, <3>1, <3>2
             DEF AppInv, Launch, ScreenAgreesWithCache, srvVars, rowVars, NoRow, NoPayload, LoadedKinds
  <2>2. ASSUME NEW l \in Loads, Served(l) PROVE AppInv'
    <3>. QED BY <2>0, <2>2, Proceeding DEF Served, srvVars, rowVars, uiVars, Phases
  <2>3. ASSUME NEW l \in Loads, Refused(l) PROVE AppInv'
    <3>1. got' = [got EXCEPT ![l] = got[l]]
      BY <2>0, <2>3 DEF Refused
    <3>. QED BY <2>0, <2>3, <3>1, Proceeding DEF Refused, srvVars, rowVars, uiVars, Phases
  <2>4. ASSUME NEW l \in Loads, FetchFails(l) PROVE AppInv'
    <3>1. got' = [got EXCEPT ![l] = got[l]]
      BY <2>0, <2>4 DEF FetchFails
    <3>. QED BY <2>0, <2>4, <3>1, Proceeding DEF FetchFails, srvVars, rowVars, uiVars, Phases
  <2>5. ASSUME NEW l \in Loads, Store(l) PROVE AppInv'
    <3>1. got' = [got EXCEPT ![l] = got[l]]
      BY <2>0, <2>5 DEF Store
    <3>2. /\ UNCHANGED <<srvVars, uiVars, screen>> /\ pc[l] # "idle"
          /\ pc' = [pc EXCEPT ![l] = "showing"]
      BY <2>5 DEF Store
    <3>3. \/ row' = got[l] /\ storedBy' = l
          \/ row' = row /\ storedBy' = Nobody
      BY <2>5 DEF Store, Writes
    <3>4. got[l] \in Payload /\ row' \in Payload /\ "showing" \in Phases
      BY <2>0, <3>3 DEF Phases
    <3>. QED BY <3>1, <3>2, <3>3, <3>4, Proceeding
  <2>6. ASSUME NEW l \in Loads, Wipe(l) PROVE AppInv'
    <3>1. got' = [got EXCEPT ![l] = got[l]]
      BY <2>0, <2>6 DEF Wipe
    <3>2. /\ UNCHANGED <<srvVars, uiVars, screen>> /\ pc[l] # "idle"
          /\ pc' = [pc EXCEPT ![l] = "silent"]
      BY <2>6 DEF Wipe
    <3>3. \/ row' = NoRow /\ storedBy' = l
          \/ row' = row /\ storedBy' = Nobody
      BY <2>6 DEF Wipe, Writes
    <3>. QED BY <2>0, <3>1, <3>2, <3>3, Proceeding DEF Phases
  <2>7. ASSUME NEW l \in Loads, ReadCache(l) PROVE AppInv'
    <3>1. CASE row = NoRow
      BY <2>0, <2>7, <3>1, Proceeding DEF ReadCache, srvVars, rowVars, uiVars, Phases
    <3>2. CASE row # NoRow
      BY <2>0, <2>7, <3>2, Proceeding DEF ReadCache, srvVars, rowVars, uiVars, Phases
    <3>. QED BY <3>1, <3>2
  <2>8. ASSUME NEW l \in Loads, Show(l) PROVE AppInv'
    <3>1. Bucketize(got[l]).kind # "blackout"
      BY <2>0, BucketizeSpec DEF LoadedKinds
    <3>2. storedBy = l => row = got[l]
      BY <2>8 DEF Show, AppInv
    <3>3. /\ Bucketize(got[l]) \in UiStates
          /\ Bucketize(got[l]).kind \in LoadedKinds =>
               got[l] = [gen |-> Bucketize(got[l]).gen, until |-> Bucketize(got[l]).until]
      BY <2>0, BucketizeSpec
    <3>. QED BY <2>8, <3>1, <3>2, <3>3, Finishing DEF Show
  <2>9. ASSUME NEW l \in Loads, ShowError(l) PROVE AppInv'
    BY <2>9, UiTyped, Finishing DEF ShowError, Ui, Kinds, LoadedKinds
  <2>10. ASSUME NEW l \in Loads, ShowSplash(l) PROVE AppInv'
    <3>1. storedBy = l => row = NoRow
      BY <2>10 DEF ShowSplash, AppInv
    <3>2. Ui("blackout").kind \notin LoadedKinds /\ Ui("blackout") \in UiStates
      BY UiTyped DEF Ui, Kinds, LoadedKinds
    <3>. QED BY <2>10, <3>1, <3>2, Finishing DEF ShowSplash
  <2>11. CASE Compose
    BY <2>11 DEF Compose, AppInv, AppTypeOK, ScreenAgreesWithCache, srvVars, rowVars, uiVars, NoRow, NoPayload
  <2>12. CASE Leave
    <3>1. AppTypeOK'
      BY <2>0, <2>12, UiTyped DEF AppInv, AppTypeOK, Leave, srvVars, rowVars, UiStates, Kinds
    <3>2. ui'.kind = "none"
      BY <2>12 DEF Leave, Ui
    <3>. QED BY <2>0, <2>12, <3>1, <3>2
             DEF AppInv, AppTypeOK, Leave, ScreenAgreesWithCache, srvVars, rowVars, NoRow, NoPayload, LoadedKinds
  <2>13. CASE World
    <3>1. /\ now' \in 0..MaxTime /\ server' \in {"open", "refusing"} /\ latest' \in Payload
          /\ UNCHANGED <<rowVars, uiVars, screen, pc, got>>
      <4>1. CASE TimePasses
        BY <2>0, <4>1 DEF TimePasses, AppInv, AppTypeOK
      <4>2. CASE \E s \in {"open", "refusing"} : ServerBecomes(s)
        BY <2>0, <4>2 DEF ServerBecomes
      <4>3. CASE \E gen \in Times, until \in {now + 1, Never} : Publish(gen, until)
        <5>1. PICK gen \in Times : \E until \in {now + 1, Never} : Publish(gen, until)
          BY <4>3
        <5>2. PICK until \in {now + 1, Never} : Publish(gen, until)
          BY <5>1
        <5>3. until \in Expiries
          BY <2>0, AppTimes DEF Expiries
        <5>. QED BY <2>0, <5>2, <5>3 DEF Publish, Payload, AppInv, AppTypeOK
      <4>. QED BY <2>13, <4>1, <4>2, <4>3 DEF World
    <3>. QED BY <3>1 DEF AppInv, AppTypeOK, ScreenAgreesWithCache, rowVars, uiVars, NoRow, NoPayload
  <2>14. CASE UNCHANGED appVars
    BY <2>14 DEF appVars, AppInv, AppTypeOK, ScreenAgreesWithCache, srvVars, rowVars, uiVars, NoRow, NoPayload
  <2>. QED BY <2>1, <2>2, <2>3, <2>4, <2>5, <2>6, <2>7, <2>8, <2>9, <2>10, <2>11, <2>12, <2>13, <2>14
           DEF AppNext, Open, Retry, Proceed
<1>. QED BY <1>1, <1>2, PTL DEF AppSpec

(* For any number of loads, any hours and any clocks: the row, the view     *)
(* model's state and what every coroutine holds keep their types, and the  *)
(* age shown is never negative (Freshness.kt:33-35).                       *)
THEOREM AppTypeCorrect == AppSpec => []AppTypeOK
BY AppInvHolds, PTL DEF AppInv

(* For any number of loads, however they overlap: when the load whose      *)
(* state is shown was the last to use the cache, and that worked, nothing  *)
(* is cached behind the splash and a forecast shown is the one cached      *)
(* (PresidentialRepository.kt:45-74, PresidentialViewModel.kt:34-68).      *)
THEOREM ScreenAgrees == AppSpec => []ScreenAgreesWithCache
BY AppInvHolds, PTL DEF AppInv

(* For any number of loads and any hours: a forecast comes on the screen   *)
(* only before its forced expiry and within the age limit, by the clock of *)
(* that moment (Freshness.kt:24-42).                                       *)
THEOREM NothingExpiredAppears == AppSpec => NoExpiredForecastAppears
<1>1. AppInv /\ [AppNext]_appVars =>
        [(ui' # ui /\ ui'.kind \in LoadedKinds) =>
           /\ ui'.until = Never \/ ui'.until > now
           /\ now - ui'.gen < (StaleHours + 1) * Hour]_appVars
  <2>. SUFFICES ASSUME AppInv, AppNext, ui' # ui, ui'.kind \in LoadedKinds
                PROVE  /\ ui'.until = Never \/ ui'.until > now
                       /\ now - ui'.gen < (StaleHours + 1) * Hour
    OBVIOUS
  <2>1. PICK l \in Loads : Show(l)
    <3>1. \A l \in Loads : ~Launch(l) /\ ~ShowError(l) /\ ~ShowSplash(l)
      BY DEF Launch, ShowError, ShowSplash, Ui, LoadedKinds
    <3>2. ~Leave /\ ~Compose /\ ~World
      BY DEF Leave, Compose, World, TimePasses, ServerBecomes, Publish, Ui, LoadedKinds, uiVars
    <3>3. \A l \in Loads : ~Served(l) /\ ~Refused(l) /\ ~FetchFails(l) /\ ~Store(l) /\ ~Wipe(l) /\ ~ReadCache(l)
      BY DEF Served, Refused, FetchFails, Store, Wipe, ReadCache, uiVars
    <3>. QED BY <3>1, <3>2, <3>3 DEF AppNext, Open, Retry, Proceed
  <2>2. now \in 0..MaxTime /\ got[l] \in Payload /\ ui' = Bucketize(got[l])
    BY <2>1 DEF AppInv, AppTypeOK, Show
  <2>3. [gen |-> ui'.gen, until |-> ui'.until] = got[l]
    BY <2>2, BucketizeSpec
  <2>4. ui'.gen = got[l].gen /\ ui'.until = got[l].until
    BY <2>3
  <2>. QED BY <2>2, <2>4, BucketizeSpec
<1>. QED BY <1>1, AppInvHolds, PTL DEF AppSpec, NoExpiredForecastAppears

-----------------------------------------------------------------------------
(* The silence: its flag file, its commands and the gate that reads it.    *)

USE BlackoutAssumption

(* Every variable stays in its type; the flag file holds a complete value. *)
THEOREM BlackoutTypeCorrect == BlackoutSpec => []BlackoutTypeOK
<1> USE DEF BlackoutTypeOK, Flag, Quiet
<1>1. BlackoutInit => BlackoutTypeOK
  BY DEF BlackoutInit
<1>2. BlackoutTypeOK /\ [BlackoutNext]_blackoutVars => BlackoutTypeOK'
  <2> SUFFICES ASSUME BlackoutTypeOK, [BlackoutNext]_blackoutVars PROVE BlackoutTypeOK'
    OBVIOUS
  <2>1. ASSUME NEW i \in Invocations, NEW v \in Flag, NEW u \in Users, Begin(i, v, u) PROVE BlackoutTypeOK'
    BY <2>1 DEF Begin, reqVars
  <2>2. ASSUME NEW i \in Invocations,
               CreateTemp(i) \/ SyncTemp(i) \/ RefuseOrWriteFails(i) \/ InsertFails(i) \/ Kill(i)
        PROVE  BlackoutTypeOK'
    BY <2>2 DEF CreateTemp, SyncTemp, RefuseOrWriteFails, InsertFails, Kill, reqVars
  <2>3. ASSUME NEW i \in Invocations, Rename(i) PROVE BlackoutTypeOK'
    BY <2>3 DEF Rename, Witnessed
  <2>4. ASSUME NEW i \in Invocations, InsertAudit(i) PROVE BlackoutTypeOK'
    BY <2>4 DEF InsertAudit, reqVars
  <2>5. ASSUME NEW r \in Handlers, Api(r) PROVE BlackoutTypeOK'
    BY <2>5 DEF Api, Arrive, ReadFile, ReadEnv, Decided, Effective, Parsed, cliVars
  <2>6. ASSUME NEW v \in Flag, RestartApi(v) PROVE BlackoutTypeOK'
    BY <2>6 DEF RestartApi, cliVars
  <2>7. CASE UNCHANGED blackoutVars
    BY <2>7 DEF blackoutVars, cliVars, reqVars
  <2>8. QED
    BY <2>1, <2>2, <2>3, <2>4, <2>5, <2>6, <2>7 DEF BlackoutNext, Cli
<1>3. QED
  BY <1>1, <1>2, PTL DEF BlackoutSpec

-----------------------------------------------------------------------------
(* The value in force, and one read ahead: a request that has not read the *)
(* file counts the value in force now among those it has seen, and one     *)
(* that found no file counts the environment's.                            *)
Seen ==
  \A r \in Handlers :
    /\ phase[r] = "arrived" => Effective \in seen[r]
    /\ phase[r] = "noFile" => env \in seen[r]

(* The middleware's two reads amount to one: every decision is by a value  *)
(* in force while the request ran.                                         *)
THEOREM GateCorrect == BlackoutSpec => []GateIsLinearizable
<1> DEFINE Inv == Seen /\ GateIsLinearizable
<1> USE DEF Seen, GateIsLinearizable
<1>1. BlackoutInit => Inv
  BY DEF BlackoutInit
<1>2. BlackoutTypeOK /\ Inv /\ [BlackoutNext]_blackoutVars => Inv'
  <2> SUFFICES ASSUME BlackoutTypeOK, Inv, [BlackoutNext]_blackoutVars PROVE Inv'
    OBVIOUS
  <2>1. ASSUME UNCHANGED <<env, content, owner, reqVars>> PROVE Inv'
    BY <2>1 DEF Effective, Parsed, Readable, reqVars
  <2>2. ASSUME NEW i \in Invocations, Rename(i) PROVE Inv'
    <3>1. Effective' = IF user[i] = ApiUser THEN want[i] ELSE env
      BY <2>2 DEF Rename, Effective, Readable, Parsed, BlackoutTypeOK, Flag
    <3>2. seen' = [r \in Handlers |->
                     IF phase[r] \in {"arrived", "noFile"} THEN seen[r] \cup {Effective'} ELSE seen[r]]
      BY <2>2, <3>1 DEF Rename, Witnessed
    <3>3. phase' = phase /\ env' = env
      BY <2>2 DEF Rename
    <3>4. QED
      BY <3>2, <3>3
  <2>3. ASSUME NEW r \in Handlers, Arrive(r) PROVE Inv'
    <3>1. Effective' = Effective
      BY <2>3 DEF Arrive, Effective, Parsed, Readable
    <3>2. QED
      BY <2>3, <3>1 DEF Arrive, BlackoutTypeOK
  <2>4. ASSUME NEW r \in Handlers, ReadFile(r) PROVE Inv'
    <3>1. Effective' = Effective /\ seen' = seen /\ env' = env
      BY <2>4 DEF ReadFile, Effective, Parsed, Readable
    <3>2. Effective \in seen[r]
      BY <2>4 DEF ReadFile
    <3>3. phase' = [phase EXCEPT ![r] = IF Readable(ApiUser) THEN Decided(Effective) ELSE "noFile"]
      BY <2>4 DEF ReadFile, Effective
    <3>4. ~Readable(ApiUser) => env \in seen[r]
      BY <3>2 DEF Effective
    <3>5. Effective \in Flag
      BY DEF Effective, Parsed, BlackoutTypeOK, Flag
    <3>6. CASE Readable(ApiUser)
      BY <3>1, <3>2, <3>3, <3>5, <3>6 DEF BlackoutTypeOK, Decided, Flag
    <3>7. CASE ~Readable(ApiUser)
      BY <3>1, <3>3, <3>4, <3>7 DEF BlackoutTypeOK
    <3>8. QED
      BY <3>6, <3>7
  <2>5. ASSUME NEW r \in Handlers, ReadEnv(r) PROVE Inv'
    <3>1. Effective' = Effective
      BY <2>5 DEF ReadEnv, Effective, Parsed, Readable
    <3>2. QED
      BY <2>5, <3>1 DEF ReadEnv, Decided, BlackoutTypeOK, Flag
  <2>6. ASSUME NEW v \in Flag, RestartApi(v) PROVE Inv'
    BY <2>6 DEF RestartApi
  <2>7. QED
    BY <2>1, <2>2, <2>3, <2>4, <2>5, <2>6
    DEF BlackoutNext, Cli, Api, Begin, CreateTemp, SyncTemp, RefuseOrWriteFails, InsertAudit,
        InsertFails, Kill, blackoutVars
<1>3. QED
  BY <1>1, <1>2, BlackoutTypeCorrect, PTL DEF BlackoutSpec

-----------------------------------------------------------------------------
(* Where a command is, against what it has left behind: only one past its  *)
(* rename has flipped the file, only a finished one has audit rows, and    *)
(* never two.                                                              *)
Trail ==
  /\ \A i \in flipped : progress[i] \notin {"ready", "writing"}
  /\ \A i \in Invocations : progress[i] \in {"flipped", "ok"} => i \in flipped
  /\ \A k \in DOMAIN audit : audit[k] \in flipped /\ progress[audit[k]] \in {"ok", "failed"}
  /\ \A k, l \in DOMAIN audit : audit[k] = audit[l] => k = l
  /\ \A i \in Invocations : progress[i] = "ok" => \E k \in DOMAIN audit : audit[k] = i

LEMMA TrailHolds == BlackoutSpec => []Trail
<1> USE DEF BlackoutTypeOK, Trail
<1>1. BlackoutInit => Trail
  BY DEF BlackoutInit
<1>2. BlackoutTypeOK /\ Trail /\ [BlackoutNext]_blackoutVars => Trail'
  <2> SUFFICES ASSUME BlackoutTypeOK, Trail, [BlackoutNext]_blackoutVars PROVE Trail'
    OBVIOUS
  <2>1. ASSUME NEW i \in Invocations, NEW v \in Flag, NEW u \in Users, Begin(i, v, u) PROVE Trail'
    BY <2>1 DEF Begin
  <2>2. ASSUME NEW i \in Invocations,
               CreateTemp(i) \/ SyncTemp(i) \/ RefuseOrWriteFails(i) \/ InsertFails(i) \/ Kill(i)
        PROVE  Trail'
    BY <2>2 DEF CreateTemp, SyncTemp, RefuseOrWriteFails, InsertFails, Kill
  <2>3. ASSUME NEW i \in Invocations, Rename(i) PROVE Trail'
    BY <2>3 DEF Rename
  <2>4. ASSUME NEW i \in Invocations, InsertAudit(i) PROVE Trail'
    <3>1. PICK outcome \in {"ok", "failed"} : progress' = [progress EXCEPT ![i] = outcome]
      BY <2>4 DEF InsertAudit
    <3>2. /\ audit' = Append(audit, i) /\ flipped' = flipped
          /\ progress[i] = "flipped" /\ i \in flipped
      BY <2>4 DEF InsertAudit
    <3>3. /\ DOMAIN audit' = DOMAIN audit \cup {Len(audit) + 1}
          /\ audit'[Len(audit) + 1] = i
          /\ \A k \in DOMAIN audit : audit'[k] = audit[k] /\ audit[k] # i /\ audit[k] \in Invocations
      BY <3>2
    <3>4. \A j \in Invocations : progress'[j] = IF j = i THEN outcome ELSE progress[j]
      BY <3>1
    <3>5. /\ \A k \in DOMAIN audit' : audit'[k] \in flipped' /\ progress'[audit'[k]] \in {"ok", "failed"}
          /\ \A k, l \in DOMAIN audit' : audit'[k] = audit'[l] => k = l
      BY <3>2, <3>3, <3>4
    <3>6. \A j \in Invocations : progress'[j] = "ok" => \E k \in DOMAIN audit' : audit'[k] = j
      BY <3>3, <3>4
    <3>7. /\ \A j \in flipped' : progress'[j] \notin {"ready", "writing"}
          /\ \A j \in Invocations : progress'[j] \in {"flipped", "ok"} => j \in flipped'
      BY <3>2, <3>4
    <3>8. QED
      BY <3>5, <3>6, <3>7
  <2>5. ASSUME UNCHANGED cliVars PROVE Trail'
    BY <2>5 DEF cliVars
  <2>6. QED
    BY <2>1, <2>2, <2>3, <2>4, <2>5
    DEF BlackoutNext, Cli, Api, Arrive, ReadFile, ReadEnv, RestartApi, blackoutVars
<1>3. QED
  BY <1>1, <1>2, BlackoutTypeCorrect, PTL DEF BlackoutSpec

(* A successful command has flipped the file and has exactly one row.      *)
THEOREM SuccessLeavesOneRow == BlackoutSpec => []SuccessIsAudited
<1>1. Trail => SuccessIsAudited
  BY DEF Trail, SuccessIsAudited
<1>2. QED
  BY <1>1, TrailHolds, PTL

(* No audit row is about a flip that did not take effect.                  *)
THEOREM RowsTellTheTruth == BlackoutSpec => []AuditedFlipsHappened
<1>1. Trail => AuditedFlipsHappened
  BY DEF Trail, AuditedFlipsHappened
<1>2. QED
  BY <1>1, TrailHolds, PTL

(* The audit table tells the truth about success and about flips.          *)
THEOREM AuditTellsTheTruth == BlackoutSpec => []AuditIsTrue
<1>1. SuccessIsAudited /\ AuditedFlipsHappened => AuditIsTrue
  BY DEF AuditIsTrue
<1>2. QED
  BY <1>1, SuccessLeavesOneRow, RowsTellTheTruth, PTL

-----------------------------------------------------------------------------
(* The flag file exists once somebody flipped it, and a command past its   *)
(* rename has no temporary file any more.                                  *)
Present ==
  /\ flipped # {} => content # "missing"
  /\ \A i \in Invocations : progress[i] = "flipped" => temp[i] = "none"

(* The flag file is always one command's complete file, and no command     *)
(* that returned leaves a temporary file.                                  *)
THEOREM FileStaysWhole == BlackoutSpec => [](FlagFileWhole /\ Present)
<1> DEFINE Inv == FlagFileWhole /\ Present
<1> USE DEF FlagFileWhole, Present
<1>1. BlackoutInit => Inv
  BY DEF BlackoutInit
<1>2. BlackoutTypeOK /\ Trail /\ Inv /\ [BlackoutNext]_blackoutVars => Inv'
  <2> SUFFICES ASSUME BlackoutTypeOK, Trail, Inv, [BlackoutNext]_blackoutVars PROVE Inv'
    OBVIOUS
  <2>1. ASSUME NEW i \in Invocations, NEW v \in Flag, NEW u \in Users, Begin(i, v, u) PROVE Inv'
    BY <2>1 DEF Begin, BlackoutTypeOK, Trail
  <2>2. ASSUME NEW i \in Invocations,
               CreateTemp(i) \/ SyncTemp(i) \/ RefuseOrWriteFails(i) \/ InsertFails(i) \/ Kill(i)
        PROVE  Inv'
    BY <2>2 DEF CreateTemp, SyncTemp, RefuseOrWriteFails, InsertFails, Kill, BlackoutTypeOK
  <2>3. ASSUME NEW i \in Invocations, Rename(i) PROVE Inv'
    BY <2>3 DEF Rename, BlackoutTypeOK, Flag
  <2>4. ASSUME NEW i \in Invocations, InsertAudit(i) PROVE Inv'
    BY <2>4 DEF InsertAudit, BlackoutTypeOK
  <2>5. ASSUME UNCHANGED <<content, owner, cliVars>> PROVE Inv'
    BY <2>5 DEF cliVars
  <2>6. QED
    BY <2>1, <2>2, <2>3, <2>4, <2>5
    DEF BlackoutNext, Cli, Api, Arrive, ReadFile, ReadEnv, RestartApi, blackoutVars
<1>3. QED
  BY <1>1, <1>2, BlackoutTypeCorrect, TrailHolds, PTL DEF BlackoutSpec

(* The manual override wins over whatever environment the API runs with,   *)
(* while every flip was to the same value under the API's account.         *)
THEOREM OverrideWins == BlackoutSpec => []OverrideHolds
<1>1. BlackoutTypeOK /\ FlagFileWhole /\ Present => OverrideHolds
  BY DEF BlackoutTypeOK, FlagFileWhole, Present, OverrideHolds, Effective, Readable, Parsed, Flag
<1>2. QED
  BY <1>1, BlackoutTypeCorrect, FileStaysWhole, PTL
===============================================================================
