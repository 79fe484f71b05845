-------------------------- MODULE BatchScrapeProofs --------------------------
(***************************************************************************)
(* Proofs about BatchScrape, for any runs, rows, calls, batches and waits. *)
(***************************************************************************)
EXTENDS BatchScrape, TLAPS, SequenceTheorems

(* A run that can still commit.                                            *)
Going == {"new", "open", "calling", "backoff", "retrying"}

Awaiting == {"calling", "backoff", "retrying"}

(* Where the parsed rows of a run are.                                     *)
Whereabouts ==
  \A r \in Runs :
    /\ wrote[r] \cup Contents(todo[r]) \subseteq took[r]
    /\ phase[r] \in Going => took[r] \subseteq rows \cup wrote[r] \cup Contents(todo[r])
    /\ phase[r] \in Going \ {"open"} => todo[r] = <<>>
    /\ phase[r] \notin Going \cup {"failing"} => wrote[r] = {}
    /\ phase[r] \in Awaiting => calls[r] < MaxCalls

(* What committed runs have in common.                                     *)
Ended ==
  /\ \A r \in committed : took[r] \subseteq rows /\ phase[r] \in {"stamping", "done", "dead"}
  /\ \A r \in Runs : phase[r] = "stamping" => r \in committed
  /\ \A i \in rows : \E r \in committed : i \in took[r]

StampFits ==
  stamp.by # Nobody =>
    IF stamp.success THEN stamp.by \in committed
    ELSE stamp.by \notin committed /\ phase[stamp.by] = "done"

Inv == TypeOK /\ Whereabouts /\ Ended /\ StampFits

-----------------------------------------------------------------------------
LEMMA ContentsEmpty == Contents(<<>>) = {}
BY DEF Contents

LEMMA ContentsHeadTail ==
  ASSUME NEW s \in Seq(Items), s # <<>>
  PROVE  /\ Head(s) \in Items /\ Tail(s) \in Seq(Items)
         /\ Contents(s) = {Head(s)} \cup Contents(Tail(s))
<1>1. Len(s) \in Nat /\ Len(s) > 0 /\ Len(Tail(s)) = Len(s) - 1
  OBVIOUS
<1>2. \A i \in 1..Len(Tail(s)) : Tail(s)[i] = s[i + 1]
  OBVIOUS
<1>3. Contents(s) \subseteq {Head(s)} \cup Contents(Tail(s))
  <2>1. ASSUME NEW i \in 1..Len(s), i # 1 PROVE s[i] \in Contents(Tail(s))
    <3>1. i - 1 \in 1..Len(Tail(s)) /\ Tail(s)[i - 1] = s[i]
      BY <1>1, <1>2, <2>1
    <3>. QED BY <3>1 DEF Contents
  <2>. QED BY <2>1 DEF Contents
<1>4. {Head(s)} \cup Contents(Tail(s)) \subseteq Contents(s)
  <2>1. Head(s) \in Contents(s)
    BY <1>1 DEF Contents
  <2>2. ASSUME NEW i \in 1..Len(Tail(s)) PROVE Tail(s)[i] \in Contents(s)
    <3>1. i + 1 \in 1..Len(s)
      BY <1>1
    <3>. QED BY <1>2, <3>1 DEF Contents
  <2>. QED BY <2>1, <2>2 DEF Contents
<1>. QED BY <1>3, <1>4

LEMMA BatchesAreSequences ==
  ASSUME NEW batch \in Batches
  PROVE  batch \in Seq(Items) /\ Contents(batch) \subseteq Items
<1>1. batch \in Seq(Items)
  BY SeqDef, ScrapeAssumption DEF Batches
<1>. QED BY <1>1 DEF Contents

-----------------------------------------------------------------------------
(* A run moves on, and touches neither rows nor what it has parsed.        *)
LEMMA Moves ==
  ASSUME Inv, NEW r \in Runs, NEW p \in {"open", "calling", "backoff", "retrying", "failing"},
         phase[r] \in Going, todo[r] = <<>>, p \in Awaiting => calls[r] < MaxCalls,
         Goes(r, p), UNCHANGED <<source, database, calls, todo, wrote, took>>,
         last' \in [Runs -> -1..MinGap], idle' \in [Runs -> 0..Backoff]
  PROVE  Inv'
<1>1. TypeOK'
  BY DEF Inv, TypeOK, Goes, Phases, database
<1>2. Whereabouts'
  BY DEF Inv, TypeOK, Whereabouts, Goes, Going, Awaiting, database
<1>3. Ended' /\ StampFits'
  BY DEF Inv, TypeOK, Ended, StampFits, Goes, Going, database
<1>. QED BY <1>1, <1>2, <1>3 DEF Inv

(* A run gives its open transaction up.                                    *)
LEMMA GivesUp ==
  ASSUME Inv, NEW r \in Runs, NEW p \in {"failing", "stampingFailure", "dead"},
         Active(r), p = "dead" \/ phase[r] # "stamping",
         Goes(r, p), wrote' = [wrote EXCEPT ![r] = {}],
         UNCHANGED <<source, database, calls, todo, clocks, took>>
  PROVE  Inv'
<1>1. TypeOK'
  BY DEF Inv, TypeOK, Goes, Phases, database, clocks
<1>2. Whereabouts'
  BY DEF Inv, TypeOK, Whereabouts, Goes, Going, Awaiting, database
<1>3. Ended' /\ StampFits'
  BY DEF Inv, TypeOK, Ended, StampFits, Goes, Going, Active, Phases, database
<1>. QED BY <1>1, <1>2, <1>3 DEF Inv

(* A run parses a batch.                                                   *)
LEMMA Parses ==
  ASSUME Inv, NEW r \in Runs, NEW batch \in Seq(Items), Contents(batch) \subseteq Items,
         Parsed(r, batch), calls[r] < MaxCalls,
         phase[r] \in Going \ {"new"}, todo[r] = <<>>,
         phase' = [phase EXCEPT ![r] = "open"],
         UNCHANGED <<source, database, wrote>>,
         last' \in [Runs -> -1..MinGap], idle' \in [Runs -> 0..Backoff]
  PROVE  Inv'
<1>1. TypeOK'
  <2>1. calls[r] \in 0..MaxCalls /\ calls[r] + 1 \in 0..MaxCalls
    BY ScrapeAssumption DEF Inv, TypeOK
  <2>2. calls' \in [Runs -> 0..MaxCalls]
    BY <2>1 DEF Inv, TypeOK, Parsed
  <2>3. took' \in [Runs -> SUBSET Items] /\ todo' \in [Runs -> Seq(Items)]
    BY DEF Inv, TypeOK, Parsed
  <2>4. phase' \in [Runs -> Phases]
    BY DEF Inv, TypeOK, Phases
  <2>. QED BY <2>2, <2>3, <2>4 DEF Inv, TypeOK, database
<1>2. Whereabouts'
  <2>1. took[r] \subseteq rows \cup wrote[r]
    BY ContentsEmpty DEF Inv, Whereabouts, Going
  <2>2. ASSUME NEW q \in Runs
        PROVE  /\ wrote'[q] \cup Contents(todo'[q]) \subseteq took'[q]
               /\ phase'[q] \in Going =>
                    took'[q] \subseteq rows' \cup wrote'[q] \cup Contents(todo'[q])
               /\ phase'[q] \in Going \ {"open"} => todo'[q] = <<>>
               /\ phase'[q] \notin Going \cup {"failing"} => wrote'[q] = {}
               /\ phase'[q] \in Awaiting => calls'[q] < MaxCalls
    <3>1. CASE q = r
      BY <2>1, <3>1 DEF Inv, TypeOK, Whereabouts, Parsed, Going, Awaiting, database
    <3>2. CASE q # r
      BY <3>2 DEF Inv, TypeOK, Whereabouts, Parsed, Going, Awaiting, database
    <3>. QED BY <3>1, <3>2
  <2>. QED BY <2>2 DEF Whereabouts
<1>3. Ended' /\ StampFits'
  BY DEF Inv, TypeOK, Ended, StampFits, Parsed, Going, database
<1>. QED BY <1>1, <1>2, <1>3 DEF Inv

LEMMA Inserts ==
  ASSUME Inv, NEW r \in Runs, Insert(r) PROVE Inv'
<1>. DEFINE item == Head(todo[r])
<1>1. /\ phase[r] = "open" /\ todo[r] \in Seq(Items) /\ todo[r] # <<>>
      /\ todo' = [todo EXCEPT ![r] = Tail(todo[r])]
      /\ wrote' = IF item \in rows \/ \E q \in Runs : item \in wrote[q]
                  THEN wrote ELSE [wrote EXCEPT ![r] = wrote[r] \cup {item}]
  BY DEF Insert, Inv, TypeOK
<1>2. /\ item \in Items /\ Tail(todo[r]) \in Seq(Items)
      /\ Contents(todo[r]) = {item} \cup Contents(Tail(todo[r]))
  BY <1>1, ContentsHeadTail
<1>3. \A q \in Runs : item \in wrote[q] => q = r
  BY <1>1 DEF Insert, WaitsFor
<1>4. TypeOK'
  BY <1>1, <1>2 DEF Insert, Inv, TypeOK, database, clocks
<1>5. \A q \in Runs : took'[q] = took[q] /\ phase'[q] = phase[q] /\ calls'[q] = calls[q]
                      /\ (q # r => todo'[q] = todo[q])
  BY <1>1 DEF Insert, Inv, TypeOK
<1>6. /\ Contents(todo[r]) \subseteq took[r]
      /\ took[r] \subseteq rows \cup wrote[r] \cup Contents(todo[r])
  BY <1>1 DEF Inv, Whereabouts, Going
<1>7. todo'[r] = Tail(todo[r]) /\ rows' = rows
  BY <1>1 DEF Insert, Inv, TypeOK, database
<1>8. /\ \A q \in Runs : q # r => wrote'[q] = wrote[q]
      /\ wrote'[r] \subseteq wrote[r] \cup {item}
      /\ wrote[r] \cup {item} \subseteq rows \cup wrote'[r]
  <2>1. CASE item \in rows \/ \E q \in Runs : item \in wrote[q]
    BY <1>1, <1>3, <2>1
  <2>2. CASE ~(item \in rows \/ \E q \in Runs : item \in wrote[q])
    <3>1. wrote' = [wrote EXCEPT ![r] = wrote[r] \cup {item}]
      BY <1>1, <2>2
    <3>. QED BY <3>1 DEF Inv, TypeOK
  <2>. QED BY <2>1, <2>2
<1>9. Whereabouts'
  <2>1. ASSUME NEW q \in Runs
        PROVE  /\ wrote'[q] \cup Contents(todo'[q]) \subseteq took'[q]
               /\ phase'[q] \in Going =>
                    took'[q] \subseteq rows' \cup wrote'[q] \cup Contents(todo'[q])
               /\ phase'[q] \in Going \ {"open"} => todo'[q] = <<>>
               /\ phase'[q] \notin Going \cup {"failing"} => wrote'[q] = {}
               /\ phase'[q] \in Awaiting => calls'[q] < MaxCalls
    <3>1. CASE q = r
      <4>1. wrote[r] \subseteq took[r] /\ phase[r] = "open"
        BY <1>1 DEF Inv, Whereabouts
      <4>. HIDE DEF item
      <4>. QED BY <1>2, <1>5, <1>6, <1>7, <1>8, <3>1, <4>1 DEF Going, Awaiting
    <3>2. CASE q # r
      BY <1>5, <1>7, <1>8, <3>2 DEF Inv, Whereabouts
    <3>. QED BY <3>1, <3>2
  <2>. QED BY <2>1 DEF Whereabouts
<1>10. Ended' /\ StampFits'
  BY DEF Insert, Inv, Ended, StampFits, database
<1>. QED BY <1>4, <1>9, <1>10 DEF Inv

LEMMA Commits ==
  ASSUME Inv, NEW r \in Runs, Resting(r), NEW p \in {"stamping", "dead"}, Goes(r, p),
         rows' = rows \cup wrote[r], committed' = committed \cup {r},
         wrote' = [wrote EXCEPT ![r] = {}],
         UNCHANGED <<source, stamp, calls, todo, clocks, took>>
  PROVE  Inv'
<1>1. TypeOK'
  BY DEF Inv, TypeOK, Goes, Phases, clocks
<1>2. took[r] \subseteq rows' /\ wrote[r] \subseteq took[r] /\ phase[r] = "open"
  BY ContentsEmpty DEF Resting, Inv, Whereabouts, Going
<1>3. Whereabouts'
  BY <1>2 DEF Inv, TypeOK, Whereabouts, Goes, Going, Awaiting
<1>4. Ended'
  BY <1>2 DEF Inv, TypeOK, Ended, Goes
<1>5. StampFits'
  BY <1>2 DEF Inv, TypeOK, StampFits, Goes
<1>. QED BY <1>1, <1>3, <1>4, <1>5 DEF Inv

LEMMA Stamps ==
  ASSUME Inv, NEW r \in Runs, NEW success \in BOOLEAN, StampRun(r, success),
         phase[r] = IF success THEN "stamping" ELSE "stampingFailure"
  PROVE  Inv'
<1>1. wrote[r] = {} /\ (success <=> r \in committed)
  BY DEF Inv, Whereabouts, Ended, Going
<1>2. rows' = rows /\ stamp'.by = r /\ stamp'.success = success
  BY <1>1 DEF StampRun, Stamp
<1>3. TypeOK'
  BY <1>2 DEF StampRun, Stamp, Inv, TypeOK, Goes, Phases, clocks
<1>4. Whereabouts'
  BY <1>2 DEF StampRun, Inv, TypeOK, Whereabouts, Goes, Going, Awaiting
<1>5. Ended'
  BY <1>2 DEF StampRun, Inv, TypeOK, Ended, Goes
<1>6. StampFits'
  BY <1>1, <1>2 DEF StampRun, Inv, TypeOK, StampFits, Goes
<1>. QED BY <1>3, <1>4, <1>5, <1>6 DEF Inv

LEMMA Ticks ==
  ASSUME Inv, Tick PROVE Inv'
<1>1. last' \in [Runs -> -1..MinGap]
  BY ScrapeAssumption DEF Tick, Inv, TypeOK, Aged
<1>2. idle' \in [Runs -> 0..Backoff]
  BY ScrapeAssumption DEF Tick, Inv, TypeOK, Aged
<1>3. TypeOK'
  BY <1>1, <1>2 DEF Tick, Inv, TypeOK, database
<1>4. Whereabouts' /\ Ended' /\ StampFits'
  BY DEF Tick, Inv, Whereabouts, Ended, StampFits, database
<1>. QED BY <1>3, <1>4 DEF Inv

LEMMA InvHolds == Spec => []Inv
<1>. USE ScrapeAssumption
<1>1. Init => Inv
  BY ContentsEmpty
     DEF Init, Inv, TypeOK, Whereabouts, Ended, StampFits, Stamp, Going, Awaiting, Phases
<1>2. Inv /\ [Next]_vars => Inv'
  <2>. SUFFICES ASSUME Inv, [Next]_vars PROVE Inv'
    OBVIOUS
  <2>a. /\ last \in [Runs -> -1..MinGap] /\ idle \in [Runs -> 0..Backoff]
        /\ \A r \in Runs : phase[r] \in Going \ {"open"} => todo[r] = <<>>
        /\ \A r \in Runs : phase[r] \in Awaiting => calls[r] < MaxCalls
        /\ <<>> \in Seq(Items)
    BY DEF Inv, TypeOK, Whereabouts
  <2>b. \A r \in Runs :
          /\ [last EXCEPT ![r] = 0] \in [Runs -> -1..MinGap]
          /\ [idle EXCEPT ![r] = 0] \in [Runs -> 0..Backoff]
    BY <2>a
  <2>1. ASSUME NEW r \in Runs, Start(r) PROVE Inv'
    BY <2>1, <2>a, Moves DEF Start, Awaiting, Going, clocks
  <2>2. ASSUME NEW r \in Runs, CallTrends(r) PROVE Inv'
    BY <2>2, <2>a, Moves DEF CallTrends, Awaiting, Resting, Going, clocks
  <2>3. ASSUME NEW r \in Runs, RateLimited(r) PROVE Inv'
    BY <2>3, <2>a, <2>b, Moves DEF RateLimited, Awaiting, Going
  <2>4. ASSUME NEW r \in Runs, Retry(r) PROVE Inv'
    BY <2>4, <2>a, Moves DEF Retry, Awaiting, Going, clocks
  <2>5. ASSUME NEW r \in Runs, TrendsAnswer(r) \/ Messages(r) PROVE Inv'
    <3>1. PICK batch \in Batches : Parsed(r, batch)
      BY <2>5 DEF TrendsAnswer, Messages
    <3>2. calls[r] < MaxCalls
      BY <2>5, <2>a DEF TrendsAnswer, Messages, Awaiting
    <3>. QED BY <2>5, <2>a, <2>b, <3>1, <3>2, BatchesAreSequences, Parses
             DEF TrendsAnswer, Messages, Answered, Goes, Going
  <2>6. ASSUME NEW r \in Runs, CallTelegram(r) PROVE Inv'
    BY <2>6, <2>a, Moves DEF CallTelegram, Awaiting, Resting, Going, clocks
  <2>7. ASSUME NEW r \in Runs, NextEvent(r) PROVE Inv'
    <3>1. phase' = [phase EXCEPT ![r] = "open"]
      BY <2>7 DEF NextEvent, Resting, Inv, TypeOK
    <3>2. PICK batch \in Seq(Items) : Parsed(r, batch) /\ Contents(batch) \subseteq Items
      <4>1. CASE Parsed(r, <<>>)
        BY <2>a, <4>1, ContentsEmpty
      <4>2. ASSUME NEW item \in Items, Parsed(r, <<item>>)
            PROVE  \E batch \in Seq(Items) :
                     Parsed(r, batch) /\ Contents(batch) \subseteq Items
        <5>1. <<item>> \in Seq(Items) /\ Contents(<<item>>) \subseteq Items
          BY DEF Contents
        <5>. QED BY <4>2, <5>1
      <4>. QED BY <2>7, <4>1, <4>2 DEF NextEvent
    <3>. QED BY <2>7, <2>a, <3>1, <3>2, Parses DEF NextEvent, Resting, Going, clocks
  <2>8. ASSUME NEW r \in Runs, CallFails(r) PROVE Inv'
    BY <2>8, <2>a, Moves DEF CallFails, Awaiting, Resting, Going, clocks
  <2>9. ASSUME NEW r \in Runs, Insert(r) PROVE Inv'
    BY <2>9, Inserts
  <2>10. ASSUME NEW r \in Runs, InsertFails(r) \/ DeadlockVictim(r) PROVE Inv'
    <3>1. Aborted(r) /\ phase[r] = "open"
      BY <2>10 DEF InsertFails, DeadlockVictim, Deadlocked, WaitsFor
    <3>. QED BY <3>1, GivesUp DEF Aborted, Active
  <2>11. ASSUME NEW r \in Runs, Commit(r) PROVE Inv'
    BY <2>11, Commits DEF Commit
  <2>12. ASSUME NEW r \in Runs, CommitLost(r) PROVE Inv'
    <3>1. CASE rows' = rows \cup wrote[r] /\ committed' = committed \cup {r}
      BY <2>12, <3>1, Commits DEF CommitLost
    <3>2. CASE UNCHANGED <<rows, committed>>
      BY <2>12, <3>2, GivesUp DEF CommitLost, Resting, Active, database
    <3>. QED BY <2>12, <3>1, <3>2 DEF CommitLost
  <2>13. ASSUME NEW r \in Runs, Rollback(r) PROVE Inv'
    BY <2>13, GivesUp DEF Rollback, Active
  <2>14. ASSUME NEW r \in Runs, StampSuccess(r) PROVE Inv'
    BY <2>14, Stamps DEF StampSuccess
  <2>15. ASSUME NEW r \in Runs, StampFailure(r) PROVE Inv'
    BY <2>15, Stamps DEF StampFailure
  <2>16. ASSUME NEW r \in Runs, Die(r) PROVE Inv'
    BY <2>16, GivesUp DEF Die
  <2>17. CASE Tick
    BY <2>17, Ticks
  <2>18. CASE UNCHANGED vars
    BY <2>18 DEF Inv, TypeOK, Whereabouts, Ended, StampFits, vars, database, clocks
  <2>. QED BY <2>1, <2>2, <2>3, <2>4, <2>5, <2>6, <2>7, <2>8, <2>9, <2>10, <2>11, <2>12,
              <2>13, <2>14, <2>15, <2>16, <2>17, <2>18 DEF Next, Step
<1>. QED BY <1>1, <1>2, PTL DEF Spec

(* The variables of the runs and of the database keep their types.         *)
THEOREM TypeCorrect == Spec => []TypeOK
<1>1. Inv => TypeOK
  BY DEF Inv
<1>. QED BY <1>1, InvHolds, PTL

(* All or nothing: a run's rows are stored by its commit and by no other   *)
(* step, and those it left to another run are stored as well.              *)
THEOREM RunsAreAtomic == Spec => []AllOrNothing
<1>1. Inv => AllOrNothing
  BY DEF Inv, Ended, AllOrNothing
<1>. QED BY <1>1, InvHolds, PTL

(* scrape_runs tells the truth of the run that stamped last.               *)
THEOREM StampsAreTrue == Spec => []StampIsTrue
<1>1. Inv => StampIsTrue
  BY DEF Inv, Ended, StampFits, StampIsTrue
<1>. QED BY <1>1, InvHolds, PTL

-----------------------------------------------------------------------------
(* Before a request last_call_at does not claim more than has passed since *)
(* the last answer, and without one there was no answer.                   *)
Spacing ==
  \A r \in Runs : phase[r] \in {"new", "open"} =>
    IF last[r] = -1 THEN idle[r] >= MinGap ELSE last[r] <= idle[r]

LEMMA SpacingHolds == Spec => []Spacing
<1>. USE ScrapeAssumption
<1>1. Init => Spacing
  BY DEF Init, Spacing
<1>2. Inv /\ Spacing /\ [Next]_vars => Spacing'
  <2>. SUFFICES ASSUME Inv, Spacing, [Next]_vars PROVE Spacing'
    OBVIOUS
  <2>a. /\ phase \in [Runs -> Phases]
        /\ last \in [Runs -> -1..MinGap] /\ idle \in [Runs -> 0..Backoff]
    BY DEF Inv, TypeOK
  <2>1. CASE UNCHANGED <<phase, clocks>>
    BY <2>1 DEF Spacing, clocks
  <2>2. ASSUME NEW r \in Runs, NEW p \in Phases, Goes(r, p), UNCHANGED clocks,
               p \in {"new", "open"} => phase[r] \in {"new", "open"}
        PROVE  Spacing'
    BY <2>2, <2>a DEF Spacing, Goes, clocks
  <2>3. ASSUME NEW r \in Runs, TrendsAnswer(r) \/ Messages(r) PROVE Spacing'
    BY <2>3, <2>a DEF TrendsAnswer, Messages, Answered, Goes, Spacing
  <2>4. ASSUME NEW r \in Runs, RateLimited(r) PROVE Spacing'
    BY <2>4, <2>a DEF RateLimited, Goes, Spacing
  <2>5. CASE Tick
    <3>1. ASSUME NEW r \in Runs, phase'[r] \in {"new", "open"}
          PROVE  IF last'[r] = -1 THEN idle'[r] >= MinGap ELSE last'[r] <= idle'[r]
      <4>1. /\ phase[r] \in {"new", "open"}
            /\ last[r] \in -1..MinGap /\ idle[r] \in 0..Backoff
            /\ IF last[r] = -1 THEN idle[r] >= MinGap ELSE last[r] <= idle[r]
        BY <2>5, <2>a, <3>1 DEF Tick, Spacing
      <4>2. CASE Active(r)
        <5>1. last'[r] = Aged(last[r], MinGap) /\ idle'[r] = Aged(idle[r], Backoff)
          BY <2>5, <4>2 DEF Tick
        <5>. QED BY <4>1, <5>1 DEF Aged
      <4>3. CASE ~Active(r)
        BY <2>5, <4>1, <4>3 DEF Tick
      <4>. QED BY <4>2, <4>3
    <3>. QED BY <3>1 DEF Spacing
  <2>6. ASSUME NEW r \in Runs,
               Start(r) \/ CallTrends(r) \/ Retry(r) \/ CallTelegram(r) \/ CallFails(r)
        PROVE  Spacing'
    BY <2>6, <2>2 DEF Start, CallTrends, Retry, CallTelegram, CallFails, Phases
  <2>7. ASSUME NEW r \in Runs, NextEvent(r) \/ Insert(r) PROVE Spacing'
    BY <2>7, <2>1 DEF NextEvent, Insert
  <2>8. ASSUME NEW r \in Runs,
               InsertFails(r) \/ DeadlockVictim(r) \/ Rollback(r) \/ Die(r)
        PROVE  Spacing'
    BY <2>8, <2>2 DEF InsertFails, DeadlockVictim, Aborted, Rollback, Die, Phases
  <2>9. ASSUME NEW r \in Runs,
               Commit(r) \/ CommitLost(r) \/ StampSuccess(r) \/ StampFailure(r)
        PROVE  Spacing'
    BY <2>9, <2>2 DEF Commit, CommitLost, StampSuccess, StampFailure, StampRun, Phases
  <2>10. CASE UNCHANGED vars
    BY <2>10, <2>1 DEF vars
  <2>. QED BY <2>3, <2>4, <2>5, <2>6, <2>7, <2>8, <2>9, <2>10 DEF Next, Step
<1>. QED BY <1>1, <1>2, InvHolds, PTL DEF Spec

(* Requests are min_seconds_between_calls apart, retries included.         *)
THEOREM RequestsKeepApart == Spec => RequestsAreSpaced
<1>. USE ScrapeAssumption
<1>1. Inv /\ Spacing /\ [Next]_vars =>
        [\A r \in Runs : ~Requesting(r) /\ Requesting(r)' => idle[r] >= MinGap]_vars
  <2>. SUFFICES ASSUME Inv, Spacing, [Next]_vars, NEW r \in Runs,
                       ~Requesting(r), Requesting(r)'
                PROVE  idle[r] >= MinGap
    OBVIOUS
  <2>a. /\ phase \in [Runs -> Phases] /\ last[r] \in -1..MinGap /\ idle[r] \in 0..Backoff
    BY DEF Inv, TypeOK
  <2>b. phase[r] \notin {"calling", "retrying"} /\ phase'[r] \in {"calling", "retrying"}
    BY DEF Requesting
  <2>1. CASE CallTrends(r) \/ CallTelegram(r)
    BY <2>1, <2>a DEF CallTrends, CallTelegram, Resting, Spacing
  <2>2. CASE Retry(r)
    BY <2>2, <2>a DEF Retry
  <2>3. ASSUME NEW q \in Runs, NEW p, Goes(q, p), p \notin {"calling", "retrying"} \/ q # r
        PROVE  FALSE
    BY <2>3, <2>a, <2>b DEF Goes
  <2>4. ASSUME UNCHANGED phase PROVE FALSE
    BY <2>4, <2>b
  <2>5. ASSUME NEW q \in Runs, Start(q) \/ Step(q) \/ CommitLost(q) \/ Die(q), q # r
        PROVE  FALSE
    <3>1. (\E p : Goes(q, p)) \/ UNCHANGED phase
      <4>1. CASE Start(q) \/ CommitLost(q) \/ Die(q)
        BY <4>1 DEF Start, CommitLost, Die
      <4>2. CASE CallTrends(q) \/ RateLimited(q) \/ Retry(q) \/ TrendsAnswer(q)
                 \/ CallTelegram(q) \/ Messages(q) \/ CallFails(q)
        BY <4>2 DEF CallTrends, RateLimited, Retry, TrendsAnswer, CallTelegram, Messages,
                    CallFails
      <4>3. CASE NextEvent(q) \/ Insert(q)
        BY <4>3 DEF NextEvent, Insert
      <4>4. CASE InsertFails(q) \/ DeadlockVictim(q) \/ Commit(q) \/ Rollback(q)
        BY <4>4 DEF InsertFails, DeadlockVictim, Aborted, Commit, Rollback
      <4>5. CASE StampSuccess(q) \/ StampFailure(q)
        BY <4>5 DEF StampSuccess, StampFailure, StampRun
      <4>. QED BY <2>5, <4>1, <4>2, <4>3, <4>4, <4>5 DEF Step
    <3>2. ASSUME NEW p, Goes(q, p) PROVE FALSE
      BY <2>3, <2>5, <3>2
    <3>. QED BY <2>4, <3>1, <3>2
  <2>6. CASE Start(r) \/ CommitLost(r) \/ Die(r)
    BY <2>3, <2>6 DEF Start, CommitLost, Die
  <2>7. CASE Step(r)
    BY <2>1, <2>2, <2>3, <2>4, <2>7
       DEF Step, RateLimited, TrendsAnswer, Messages, NextEvent, CallFails, Insert,
           InsertFails, DeadlockVictim, Aborted, Commit, Rollback, StampSuccess,
           StampFailure, StampRun
  <2>. QED BY <2>4, <2>5, <2>6, <2>7 DEF Next, Tick, vars
<1>. QED BY <1>1, InvHolds, SpacingHolds, PTL DEF Spec, RequestsAreSpaced
=============================================================================
