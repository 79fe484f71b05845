---------------------------- MODULE IngestionProofs ----------------------------
(***************************************************************************)
(* Proofs about the scoring runs and the loaders of Ingestion, for any     *)
(* documents, names and files: the view and the readings of overlapping    *)
(* runs (ViewInv, ReadingInv), the loads (LoadInv), the resolver, and the  *)
(* subjects of the rows (SubjectInv).                                      *)
(***************************************************************************)
EXTENDS Ingestion, CollectionsProofs

Stages == {"idle", "articles", "posts", "waiting", "refreshing", "done", "failed"}

Domains ==
  /\ stage \in [Scorers -> Stages]
  /\ DOMAIN todo = Scorers /\ DOMAIN own = Scorers /\ DOMAIN scored = Scorers
  /\ DOMAIN gazetteer = Scorers /\ DOMAIN snapshot = Scorers /\ DOMAIN before = Scorers

(* Rows belong to the run that wrote them, and are visible once it is done.*)
Ownership ==
  /\ \A s \in scores : s.by \in Scorers /\ stage[s.by] = "done"
  /\ \A r \in Scorers :
       /\ \A s \in own[r] : s.by = r /\ s.doc \in scored[r]
       /\ own[r] # {} => r \in Active
       /\ before[r] \subseteq Ended
       /\ stage[r] = "idle" => before[r] = {}

(* What a refresh under way will show: committed rows and its own, except  *)
(* those that overlapping runs have committed since its snapshot.          *)
SnapshotLags ==
  \A r \in Scorers : stage[r] \in {"waiting", "refreshing"} =>
    /\ own[r] \subseteq snapshot[r] /\ snapshot[r] \subseteq scores \cup own[r]
    /\ \A s \in scores \ snapshot[r] : Overlapped(s.by, r)

ViewInv == Domains /\ Ownership /\ SnapshotLags /\ ViewFollowsScores

-----------------------------------------------------------------------------
LEMMA InitView == Init => ViewInv
BY DEF Init, ScoringInit, ViewInv, Domains, Ownership, SnapshotLags, ViewFollowsScores, Stages, Active, Ended

LEMMA StartView ==
  ASSUME ViewInv, NEW r \in Scorers, NEW resolver, Start(r, resolver)
  PROVE  ViewInv'
<1>1. /\ stage[r] = "idle"
      /\ stage' = [stage EXCEPT ![r] = "articles"]
      /\ gazetteer' = [gazetteer EXCEPT ![r] = resolver]
      /\ before' = [before EXCEPT ![r] = Ended]
      /\ todo' = [todo EXCEPT ![r] = Unscored(Articles)]
      /\ UNCHANGED <<documents, scores, view, own, scored, snapshot>>
  BY DEF Start
<1>2. Domains'
  BY <1>1 DEF ViewInv, Domains, Stages
<1>3. Ended' = Ended /\ r \notin Ended /\ r \notin Active
  BY <1>1 DEF ViewInv, Domains, Ended, Active
<1>4. \A s \in scores : s.by # r
  BY <1>1 DEF ViewInv, Ownership
<1>5. Ownership'
  BY <1>1, <1>3, <1>4 DEF ViewInv, Domains, Ownership, Active
<1>6. \A q \in Scorers, p \in Scorers : q # r /\ p # r => (Overlapped(q, p) <=> Overlapped(q, p)')
  BY <1>1 DEF ViewInv, Domains, Overlapped
<1>7. SnapshotLags'
  BY <1>1, <1>4, <1>6 DEF ViewInv, Domains, Ownership, SnapshotLags
<1>8. ViewFollowsScores'
  BY <1>1, <1>4, <1>6 DEF ViewInv, Domains, Ownership, ViewFollowsScores
<1>. QED BY <1>2, <1>5, <1>7, <1>8 DEF ViewInv

LEMMA WriteView ==
  ASSUME ViewInv, NEW r \in Scorers, Write(r)
  PROVE  ViewInv'
<1>1. PICK d \in todo[r] :
        /\ own' = [own EXCEPT ![r] = @ \cup {a \in RowsOf(r, d) : \A b \in scores : ~SameKey(a, b)}]
        /\ scored' = [scored EXCEPT ![r] = @ \cup {d}]
  BY DEF Write
<1>. DEFINE new == {a \in RowsOf(r, d) : \A b \in scores : ~SameKey(a, b)}
<1>2. /\ stage[r] \in {"articles", "posts"}
      /\ DOMAIN todo' = DOMAIN todo
      /\ UNCHANGED <<documents, scores, view, stage, gazetteer, snapshot, before>>
  BY DEF Write
<1>3. \A a \in new : a.by = r /\ a.doc = d
  BY DEF RowsOf
<1>. HIDE DEF new
<1>4. own' = [own EXCEPT ![r] = own[r] \cup new] /\ scored' = [scored EXCEPT ![r] = scored[r] \cup {d}]
  BY <1>1 DEF new, ViewInv, Domains
<1>5. Domains'
  BY <1>2, <1>4 DEF ViewInv, Domains
<1>6. Ownership'
  BY <1>2, <1>3, <1>4 DEF ViewInv, Domains, Ownership, Active, Ended
<1>7. SnapshotLags'
  BY <1>2, <1>4 DEF ViewInv, Domains, SnapshotLags, Overlapped
<1>8. ViewFollowsScores'
  BY <1>2 DEF ViewInv, ViewFollowsScores, Overlapped
<1>. QED BY <1>5, <1>6, <1>7, <1>8 DEF ViewInv

LEMMA ReadPostsView ==
  ASSUME ViewInv, NEW r \in Scorers, ReadPosts(r)
  PROVE  ViewInv'
<1>1. /\ stage[r] = "articles"
      /\ stage' = [stage EXCEPT ![r] = "posts"]
      /\ todo' = [todo EXCEPT ![r] = Unscored(Posts)]
      /\ UNCHANGED <<scores, view, own, scored, gazetteer, snapshot, before>>
  BY DEF ReadPosts
<1>2. Domains'
  BY <1>1 DEF ViewInv, Domains, Stages
<1>3. Ended' = Ended /\ Active' = Active
  BY <1>1 DEF ViewInv, Domains, Ended, Active
<1>4. Ownership'
  BY <1>1, <1>3 DEF ViewInv, Domains, Ownership
<1>5. SnapshotLags'
  BY <1>1 DEF ViewInv, Domains, SnapshotLags, Overlapped
<1>6. ViewFollowsScores'
  BY <1>1 DEF ViewInv, Domains, ViewFollowsScores, Overlapped
<1>. QED BY <1>2, <1>4, <1>5, <1>6 DEF ViewInv

LEMMA RequestRefreshView ==
  ASSUME ViewInv, NEW r \in Scorers, RequestRefresh(r)
  PROVE  ViewInv'
<1>1. /\ stage[r] = "posts"
      /\ snapshot' = [snapshot EXCEPT ![r] = scores \cup own[r]]
      /\ UNCHANGED <<scores, view, todo, own, scored, gazetteer, before>>
  BY DEF RequestRefresh
<1>2. \/ stage' = [stage EXCEPT ![r] = "waiting"]
      \/ stage' = [stage EXCEPT ![r] = "refreshing"]
  BY DEF RequestRefresh
<1>3. Domains'
  BY <1>1, <1>2 DEF ViewInv, Domains, Stages
<1>4. Ended' = Ended /\ Active' = Active
  BY <1>1, <1>2 DEF ViewInv, Domains, Ended, Active
<1>5. Ownership'
  BY <1>1, <1>2, <1>4 DEF ViewInv, Domains, Ownership
<1>6. SnapshotLags'
  BY <1>1, <1>2 DEF ViewInv, Domains, SnapshotLags, Overlapped
<1>7. ViewFollowsScores'
  BY <1>1, <1>2 DEF ViewInv, Domains, ViewFollowsScores, Overlapped
<1>. QED BY <1>3, <1>5, <1>6, <1>7 DEF ViewInv

LEMMA LockGrantedView ==
  ASSUME ViewInv, NEW r \in Scorers, LockGranted(r)
  PROVE  ViewInv'
<1>1. /\ stage[r] = "waiting"
      /\ stage' = [stage EXCEPT ![r] = "refreshing"]
      /\ UNCHANGED <<scores, view, todo, own, scored, gazetteer, snapshot, before>>
  BY DEF LockGranted
<1>2. Domains'
  BY <1>1 DEF ViewInv, Domains, Stages
<1>3. Ended' = Ended /\ Active' = Active
  BY <1>1 DEF ViewInv, Domains, Ended, Active
<1>4. Ownership'
  BY <1>1, <1>3 DEF ViewInv, Domains, Ownership
<1>5. SnapshotLags'
  BY <1>1 DEF ViewInv, Domains, SnapshotLags, Overlapped
<1>6. ViewFollowsScores'
  BY <1>1 DEF ViewInv, Domains, ViewFollowsScores, Overlapped
<1>. QED BY <1>2, <1>4, <1>5, <1>6 DEF ViewInv

(* Two runs that are both under way overlap, and so does a run under way   *)
(* with one that has not ended before it started.                          *)
LEMMA ActiveOverlap ==
  ASSUME ViewInv, NEW r \in Scorers, NEW q \in Scorers, r \in Active, q \in Active
  PROVE  Overlapped(r, q)
BY DEF ViewInv, Ownership, Overlapped, Active, Ended

LEMMA FinishView ==
  ASSUME ViewInv, NEW r \in Scorers, Finish(r)
  PROVE  ViewInv'
<1>1. /\ stage[r] = "refreshing"
      /\ scores' = scores \cup own[r]
      /\ view' = snapshot[r]
      /\ stage' = [stage EXCEPT ![r] = "done"]
      /\ own' = [own EXCEPT ![r] = {}]
      /\ snapshot' = [snapshot EXCEPT ![r] = {}]
      /\ UNCHANGED <<documents, todo, scored, gazetteer, before>>
  BY DEF Finish
<1>2. Domains'
  BY <1>1 DEF ViewInv, Domains, Stages
<1>3. Ended' = Ended \cup {r} /\ Active' = Active \ {r} /\ r \in Active
  BY <1>1 DEF ViewInv, Domains, Ended, Active
<1>4. Ownership'
  BY <1>1, <1>3 DEF ViewInv, Domains, Ownership
<1>5. SnapshotLags'
  <2>. SUFFICES ASSUME NEW q \in Scorers, stage'[q] \in {"waiting", "refreshing"}
                PROVE /\ own'[q] \subseteq snapshot'[q] /\ snapshot'[q] \subseteq scores' \cup own'[q]
                      /\ \A s \in scores' \ snapshot'[q] : Overlapped(s.by, q)'
    BY DEF SnapshotLags
  <2>1. q # r /\ stage[q] \in {"waiting", "refreshing"} /\ q \in Active
    BY <1>1 DEF ViewInv, Domains, Active
  <2>2. own'[q] = own[q] /\ snapshot'[q] = snapshot[q]
    BY <1>1, <2>1 DEF ViewInv, Domains
  <2>3. \A s \in own[r] : s.by = r
    BY DEF ViewInv, Ownership
  <2>4. Overlapped(r, q)
    BY <1>3, <2>1, ActiveOverlap
  <2>5. \A s \in scores' \ snapshot'[q] : Overlapped(s.by, q)
    BY <1>1, <2>1, <2>2, <2>3, <2>4 DEF ViewInv, SnapshotLags
  <2>6. \A s \in scores' \ snapshot'[q] : Overlapped(s.by, q)'
    BY <1>1, <2>5 DEF Overlapped
  <2>7. own[q] \subseteq snapshot[q] /\ snapshot[q] \subseteq scores \cup own[q]
    BY <2>1 DEF ViewInv, SnapshotLags
  <2>. QED BY <1>1, <2>2, <2>6, <2>7
<1>6. ViewFollowsScores'
  <2>1. own[r] \subseteq snapshot[r] /\ snapshot[r] \subseteq scores \cup own[r]
    BY <1>1 DEF ViewInv, SnapshotLags
  <2>2. ASSUME NEW s \in scores' \ view'
        PROVE  \E q \in Scorers \ {s.by} : stage'[q] = "done" /\ Overlapped(s.by, q)'
    <3>1. s \in scores \ snapshot[r]
      BY <1>1, <2>1, <2>2
    <3>2. Overlapped(s.by, r) /\ s.by # r
      BY <1>1, <3>1 DEF ViewInv, SnapshotLags, Ownership
    <3>3. stage'[r] = "done" /\ Overlapped(s.by, r)'
      BY <1>1, <3>2 DEF ViewInv, Domains, Overlapped
    <3>. QED BY <3>2, <3>3
  <2>. QED BY <1>1, <2>1, <2>2 DEF ViewFollowsScores
<1>. QED BY <1>2, <1>4, <1>5, <1>6 DEF ViewInv

(* A run that has nothing to refresh has written nothing.                  *)
LEMMA FinishEmptyView ==
  ASSUME ViewInv, NEW r \in Scorers, FinishEmpty(r)
  PROVE  ViewInv'
<1>1. /\ stage[r] = "posts" /\ scored[r] = {}
      /\ scores' = scores \cup own[r]
      /\ stage' = [stage EXCEPT ![r] = "done"]
      /\ own' = [own EXCEPT ![r] = {}]
      /\ UNCHANGED <<view, todo, scored, gazetteer, snapshot, before>>
  BY DEF FinishEmpty, NeedsRefresh
<1>2. own[r] = {} /\ scores' = scores
  BY <1>1 DEF ViewInv, Ownership
<1>3. Domains'
  BY <1>1 DEF ViewInv, Domains, Stages
<1>4. Ended' = Ended \cup {r} /\ Active' = Active \ {r}
  BY <1>1 DEF ViewInv, Domains, Ended, Active
<1>5. Ownership'
  BY <1>1, <1>2, <1>4 DEF ViewInv, Domains, Ownership
<1>6. SnapshotLags'
  BY <1>1, <1>2 DEF ViewInv, Domains, SnapshotLags, Overlapped
<1>7. ViewFollowsScores'
  BY <1>1, <1>2 DEF ViewInv, Domains, ViewFollowsScores, Overlapped
<1>. QED BY <1>3, <1>5, <1>6, <1>7 DEF ViewInv

LEMMA AbandonView ==
  ASSUME ViewInv, NEW r \in Scorers, Abandon(r)
  PROVE  ViewInv'
<1>1. /\ r \in Active
      /\ scores' = scores
      /\ stage' = [stage EXCEPT ![r] = "failed"]
      /\ todo' = [todo EXCEPT ![r] = {}]
      /\ own' = [own EXCEPT ![r] = {}]
      /\ snapshot' = [snapshot EXCEPT ![r] = {}]
      /\ UNCHANGED <<view, scored, gazetteer, before>>
  BY DEF Abandon, Undo
<1>2. Domains'
  BY <1>1 DEF ViewInv, Domains, Stages
<1>3. Ended' = Ended \cup {r} /\ Active' = Active \ {r}
  BY <1>1 DEF ViewInv, Domains, Ended, Active
<1>4. stage[r] # "done"
  BY <1>1 DEF Active
<1>5. Ownership'
  BY <1>1, <1>3, <1>4 DEF ViewInv, Domains, Ownership
<1>6. SnapshotLags'
  BY <1>1 DEF ViewInv, Domains, SnapshotLags, Overlapped
<1>7. ViewFollowsScores'
  BY <1>1, <1>4 DEF ViewInv, Domains, ViewFollowsScores, Overlapped
<1>. QED BY <1>2, <1>5, <1>6, <1>7 DEF ViewInv

LEMMA StillView ==
  ASSUME ViewInv, UNCHANGED <<scores, view, stage, todo, own, scored, gazetteer, snapshot, before>>
  PROVE  ViewInv'
BY DEF ViewInv, Domains, Ownership, SnapshotLags, ViewFollowsScores, Overlapped, Active, Ended

-----------------------------------------------------------------------------
LEMMA RunView ==
  ASSUME ViewInv, NEW r \in Scorers, NEW resolver, ScoringRun(r, resolver)
  PROVE  ViewInv'
BY StartView, WriteView, ReadPostsView, RequestRefreshView, LockGrantedView, FinishView,
   FinishEmptyView, AbandonView DEF ScoringRun

LEMMA StepView == ViewInv /\ [Next]_vars => ViewInv'
<1>. SUFFICES ASSUME ViewInv, [Next]_vars PROVE ViewInv'
  OBVIOUS
<1>1. CASE Seeder \/ Loader
  BY <1>1, StillView DEF Seeder, Loader, scoringVars
<1>2. CASE Scorer
  BY <1>2, RunView DEF Scorer
<1>3. CASE Scraper
  BY <1>3, StillView DEF Scraper, Arrive
<1>4. CASE UNCHANGED vars
  BY <1>4, StillView DEF vars, scoringVars
<1>. QED BY <1>1, <1>2, <1>3, <1>4 DEF Next

LEMMA ViewInvariance == Spec => []ViewInv
<1>. QED BY InitView, StepView, PTL DEF Spec

(* The view of the sentiments never shows what is not committed, and what  *)
(* it lacks was committed by a run that another one overlapped.            *)
THEOREM ViewIsFaithful == Spec => []ViewFollowsScores
<1>1. ViewInv => ViewFollowsScores
  BY DEF ViewInv
<1>. QED BY <1>1, ViewInvariance, PTL

-----------------------------------------------------------------------------
(* What a run that has not failed has scored is stored, by it or another.  *)
KeysStored ==
  /\ \A s \in scores : s.doc \in scored[s.by]
  /\ \A r \in Scorers :
       /\ stage[r] = "idle" => scored[r] = {}
       /\ stage[r] # "failed" => \A d \in scored[r] : \A a \in RowsOf(r, d) :
            \E b \in scores \cup own[r] : SameKey(a, b)

(* Nobody scores what was scored before it began.                          *)
Fresh ==
  \A r \in Scorers : \A d \in todo[r] : \A s \in scores : s.doc = d => s.by \notin before[r]

Mixable(x, s) ==
  (x.doc = s.doc /\ x.by # s.by) => Overlapped(x.by, s.by) /\ gazetteer[x.by] # gazetteer[s.by]

NotMixed ==
  /\ \A s \in scores : \A x \in scores : Mixable(x, s)
  /\ \A r \in Scorers : \A s \in own[r] :
       /\ \A x \in scores : Mixable(x, s)
       /\ \A q \in Scorers : \A x \in own[q] : Mixable(x, s)

ReadingInv == KeysStored /\ Fresh /\ NotMixed

LEMMA MixableIsSymmetric ==
  ASSUME NEW x, NEW s, Mixable(x, s)
  PROVE  Mixable(s, x)
BY DEF Mixable, Overlapped

LEMMA RowsAreReadings ==
  ASSUME NEW r \in Scorers, NEW d
  PROVE  /\ \A a \in RowsOf(r, d) : \E k \in DOMAIN Sentences[d] : \E s \in SubjectsOf(r, Sentences[d][k]) :
              a = [doc |-> d, at |-> k, subject |-> s, by |-> r]
         /\ \A k \in DOMAIN Sentences[d] : \A s \in SubjectsOf(r, Sentences[d][k]) :
              [doc |-> d, at |-> k, subject |-> s, by |-> r] \in RowsOf(r, d)
<1>. DEFINE RowsAt(k) == {[doc |-> d, at |-> k, subject |-> s, by |-> r] : s \in SubjectsOf(r, Sentences[d][k])}
<1>1. RowsOf(r, d) = UNION {RowsAt(k) : k \in DOMAIN Sentences[d]}
  BY DEF RowsOf
<1>2. \A a : a \in RowsOf(r, d) <=> \E k \in DOMAIN Sentences[d] : a \in RowsAt(k)
  BY <1>1
<1>3. \A a, k : a \in RowsAt(k) <=>
        \E s \in SubjectsOf(r, Sentences[d][k]) : a = [doc |-> d, at |-> k, subject |-> s, by |-> r]
  OBVIOUS
<1>. QED BY <1>2, <1>3

(* Every sentence of a document has a row.                                 *)
LEMMA SentencesHaveRows ==
  ASSUME NEW r \in Scorers, NEW d, NEW k \in DOMAIN Sentences[d]
  PROVE  \E a \in RowsOf(r, d) : a.doc = d /\ a.at = k
<1>1. SubjectsOf(r, Sentences[d][k]) # {}
  BY DEF SubjectsOf
<1>2. PICK s : s \in SubjectsOf(r, Sentences[d][k])
  BY <1>1
<1>. DEFINE a == [doc |-> d, at |-> k, subject |-> s, by |-> r]
<1>3. a \in RowsOf(r, d)
  BY <1>2, RowsAreReadings
<1>4. a.doc = d /\ a.at = k
  OBVIOUS
<1>. QED BY <1>3, <1>4

(* Runs whose resolvers agree find the same subjects.                      *)
LEMMA SameResolverSameKeys ==
  ASSUME NEW r \in Scorers, NEW q \in Scorers, NEW d, gazetteer[r] = gazetteer[q],
         NEW a \in RowsOf(r, d)
  PROVE  \E b \in RowsOf(q, d) : SameKey(a, b)
<1>1. PICK k \in DOMAIN Sentences[d] :
        \E s \in SubjectsOf(r, Sentences[d][k]) : a = [doc |-> d, at |-> k, subject |-> s, by |-> r]
  BY RowsAreReadings
<1>2. PICK s \in SubjectsOf(r, Sentences[d][k]) : a = [doc |-> d, at |-> k, subject |-> s, by |-> r]
  BY <1>1
<1>3. s \in SubjectsOf(q, Sentences[d][k])
  BY <1>2 DEF SubjectsOf
<1>. DEFINE b == [doc |-> d, at |-> k, subject |-> s, by |-> q]
<1>4. b \in RowsOf(q, d)
  BY <1>3, RowsAreReadings
<1>5. SameKey(a, b)
  BY <1>2 DEF SameKey
<1>. QED BY <1>4, <1>5

LEMMA RowsKeep ==
  ASSUME NEW r, gazetteer'[r] = gazetteer[r], NEW d
  PROVE  RowsOf(r, d)' = RowsOf(r, d)
BY DEF RowsOf, SubjectsOf

-----------------------------------------------------------------------------
LEMMA InitReading == Init => ReadingInv
BY DEF Init, ScoringInit, ReadingInv, KeysStored, Fresh, NotMixed

(* A step that moves a run on and leaves the rows alone.                   *)
LEMMA QuietReading ==
  ASSUME ViewInv, ReadingInv,
         UNCHANGED <<scores, own, scored, gazetteer, before>>,
         \A r \in Scorers : /\ stage'[r] = "idle" => stage[r] = "idle"
                            /\ stage'[r] # "failed" => stage[r] # "failed"
  PROVE  KeysStored' /\ NotMixed' /\ (todo' = todo => Fresh')
<1>1. \A r, d : RowsOf(r, d)' = RowsOf(r, d)
  BY RowsKeep
<1>2. KeysStored'
  BY <1>1 DEF ReadingInv, KeysStored, SameKey
<1>3. NotMixed'
  BY DEF ReadingInv, NotMixed, Mixable, Overlapped
<1>4. todo' = todo => Fresh'
  BY DEF ReadingInv, Fresh
<1>. QED BY <1>2, <1>3, <1>4

LEMMA StartReading ==
  ASSUME ViewInv, ReadingInv, NEW r \in Scorers, NEW resolver, Start(r, resolver)
  PROVE  ReadingInv'
<1>1. /\ stage[r] = "idle"
      /\ stage' = [stage EXCEPT ![r] = "articles"]
      /\ gazetteer' = [gazetteer EXCEPT ![r] = resolver]
      /\ before' = [before EXCEPT ![r] = Ended]
      /\ todo' = [todo EXCEPT ![r] = Unscored(Articles)]
      /\ UNCHANGED <<scores, own, scored>>
  BY DEF Start
<1>2. /\ \A s \in scores : s.by # r /\ s.by \in Scorers
      /\ own[r] = {} /\ scored[r] = {}
      /\ \A q \in Scorers : \A s \in own[q] : s.by = q
  BY <1>1 DEF ViewInv, Ownership, Active, ReadingInv, KeysStored
<1>3. \A q \in Scorers : q # r => /\ stage'[q] = stage[q] /\ gazetteer'[q] = gazetteer[q]
                               /\ before'[q] = before[q] /\ todo'[q] = todo[q]
  BY <1>1 DEF ViewInv, Domains
<1>4. stage'[r] = "articles" /\ todo'[r] = Unscored(Articles)
  BY <1>1 DEF ViewInv, Domains
<1>5. \A q \in Scorers : \A d : q # r => RowsOf(q, d)' = RowsOf(q, d)
  BY <1>3, RowsKeep
<1>6. KeysStored'
  <2>1. \A s \in scores' : s.doc \in scored'[s.by]
    BY <1>1 DEF ReadingInv, KeysStored
  <2>2. ASSUME NEW q \in Scorers
        PROVE  /\ stage'[q] = "idle" => scored'[q] = {}
               /\ stage'[q] # "failed" => \A d \in scored'[q] : \A a \in RowsOf(q, d)' :
                    \E b \in scores' \cup own'[q] : SameKey(a, b)
    <3>1. CASE q = r
      BY <1>1, <1>2, <1>4, <3>1
    <3>2. CASE q # r
      BY <1>1, <1>3, <1>5, <3>2 DEF ReadingInv, KeysStored
    <3>. QED BY <3>1, <3>2
  <2>. QED BY <2>1, <2>2 DEF KeysStored, SameKey
<1>7. Fresh'
  <2>1. \A d \in Unscored(Articles), s \in scores : s.doc # d
    BY DEF Unscored
  <2>. QED BY <1>1, <1>3, <1>4, <2>1 DEF ReadingInv, Fresh
<1>8. \A x, s : (x.by \in Scorers \ {r} /\ s.by \in Scorers \ {r} /\ Mixable(x, s)) => Mixable(x, s)'
  BY <1>3 DEF Mixable, Overlapped
<1>9. NotMixed'
  <2>1. \A s \in scores : \A x \in scores : Mixable(x, s)'
    BY <1>2, <1>8 DEF ReadingInv, NotMixed
  <2>2. ASSUME NEW q \in Scorers, NEW s \in own[q]
        PROVE  /\ \A x \in scores : Mixable(x, s)'
               /\ \A p \in Scorers : \A x \in own[p] : Mixable(x, s)'
    <3>1. s.by \in Scorers \ {r}
      BY <1>2
    <3>2. \A p \in Scorers : \A x \in own[p] : x.by \in Scorers \ {r}
      BY <1>2
    <3>. QED BY <1>2, <1>8, <3>1, <3>2 DEF ReadingInv, NotMixed
  <2>. QED BY <1>1, <2>1, <2>2 DEF NotMixed
<1>. QED BY <1>6, <1>7, <1>9 DEF ReadingInv

LEMMA ReadPostsReading ==
  ASSUME ViewInv, ReadingInv, NEW r \in Scorers, ReadPosts(r)
  PROVE  ReadingInv'
<1>1. /\ stage[r] = "articles"
      /\ stage' = [stage EXCEPT ![r] = "posts"]
      /\ todo' = [todo EXCEPT ![r] = Unscored(Posts)]
      /\ UNCHANGED <<scores, own, scored, gazetteer, before>>
  BY DEF ReadPosts
<1>2. KeysStored' /\ NotMixed'
  BY <1>1, QuietReading DEF ViewInv, Domains
<1>3. \A d \in Unscored(Posts), s \in scores : s.doc # d
  BY DEF Unscored
<1>4. Fresh'
  BY <1>1, <1>3 DEF ViewInv, Domains, ReadingInv, Fresh
<1>. QED BY <1>2, <1>4 DEF ReadingInv

LEMMA RequestRefreshReading ==
  ASSUME ViewInv, ReadingInv, NEW r \in Scorers, RequestRefresh(r) \/ LockGranted(r)
  PROVE  ReadingInv'
<1>1. UNCHANGED <<scores, own, scored, gazetteer, before, todo>> /\ stage[r] \in {"posts", "waiting"}
  BY DEF RequestRefresh, LockGranted
<1>2. \/ stage' = [stage EXCEPT ![r] = "waiting"]
      \/ stage' = [stage EXCEPT ![r] = "refreshing"]
  BY DEF RequestRefresh, LockGranted
<1>. QED BY <1>1, <1>2, QuietReading DEF ViewInv, Domains, ReadingInv

LEMMA AbandonReading ==
  ASSUME ViewInv, ReadingInv, NEW r \in Scorers, Abandon(r)
  PROVE  ReadingInv'
<1>1. /\ r \in Active
      /\ scores' = scores
      /\ stage' = [stage EXCEPT ![r] = "failed"]
      /\ todo' = [todo EXCEPT ![r] = {}]
      /\ own' = [own EXCEPT ![r] = {}]
      /\ UNCHANGED <<scored, gazetteer, before>>
  BY DEF Abandon, Undo
<1>2. \A q, d : RowsOf(q, d)' = RowsOf(q, d)
  BY <1>1, RowsKeep
<1>3. KeysStored'
  BY <1>1, <1>2 DEF ViewInv, Domains, ReadingInv, KeysStored, SameKey, Active
<1>4. Fresh'
  BY <1>1 DEF ViewInv, Domains, ReadingInv, Fresh
<1>5. \A x, s : Mixable(x, s) => Mixable(x, s)'
  BY <1>1 DEF Mixable, Overlapped
<1>6. \A q \in Scorers : own'[q] \subseteq own[q]
  BY <1>1 DEF ViewInv, Domains
<1>7. NotMixed'
  BY <1>1, <1>5, <1>6 DEF ReadingInv, NotMixed
<1>. QED BY <1>3, <1>4, <1>7 DEF ReadingInv

(* Both ways to finish: the run's rows join the committed ones.            *)
LEMMA FinishReading ==
  ASSUME ViewInv, ReadingInv, NEW r \in Scorers, Finish(r) \/ FinishEmpty(r)
  PROVE  ReadingInv'
<1>1. /\ stage[r] \in {"refreshing", "posts"}
      /\ scores' = scores \cup own[r]
      /\ stage' = [stage EXCEPT ![r] = "done"]
      /\ own' = [own EXCEPT ![r] = {}]
      /\ UNCHANGED <<todo, scored, gazetteer, before>>
  BY DEF Finish, FinishEmpty
<1>2. \A q, d : RowsOf(q, d)' = RowsOf(q, d)
  BY <1>1, RowsKeep
<1>3. \A q \in Scorers : q # r => own'[q] = own[q] /\ stage'[q] = stage[q]
  BY <1>1 DEF ViewInv, Domains
<1>4. own'[r] = {} /\ stage'[r] = "done"
  BY <1>1 DEF ViewInv, Domains
<1>5. \A s \in own[r] : s.by = r /\ s.doc \in scored[r]
  BY DEF ViewInv, Ownership
<1>6. KeysStored'
  <2>1. \A s \in scores' : s.doc \in scored'[s.by]
    BY <1>1, <1>5 DEF ReadingInv, KeysStored
  <2>2. ASSUME NEW q \in Scorers
        PROVE  /\ stage'[q] = "idle" => scored'[q] = {}
               /\ stage'[q] # "failed" => \A d \in scored'[q] : \A a \in RowsOf(q, d)' :
                    \E b \in scores' \cup own'[q] : SameKey(a, b)
    <3>1. stage[q] # "failed" => \A d \in scored[q] : \A a \in RowsOf(q, d) :
            \E b \in scores \cup own[q] : SameKey(a, b)
      BY DEF ReadingInv, KeysStored
    <3>2. scores \cup own[q] \subseteq scores' \cup own'[q]
      BY <1>1, <1>3, <1>4
    <3>3. CASE q = r
      BY <1>1, <1>2, <1>4, <3>1, <3>2, <3>3
    <3>4. CASE q # r
      BY <1>1, <1>2, <1>3, <3>1, <3>2, <3>4 DEF ReadingInv, KeysStored
    <3>. QED BY <3>3, <3>4
  <2>. QED BY <2>1, <2>2 DEF KeysStored, SameKey
<1>7. Fresh'
  <2>1. \A q \in Scorers : r \notin before[q]
    BY <1>1 DEF ViewInv, Ownership, Ended
  <2>. QED BY <1>1, <1>5, <2>1 DEF ReadingInv, Fresh
<1>8. \A x, s : Mixable(x, s) => Mixable(x, s)'
  BY <1>1 DEF Mixable, Overlapped
<1>9. NotMixed'
  <2>1. \A s \in scores' : \A x \in scores' : Mixable(x, s)
    BY <1>1, MixableIsSymmetric DEF ReadingInv, NotMixed
  <2>2. ASSUME NEW q \in Scorers, NEW s \in own'[q]
        PROVE  /\ \A x \in scores' : Mixable(x, s)
               /\ \A p \in Scorers : \A x \in own'[p] : Mixable(x, s)
    <3>1. s \in own[q] /\ \A p \in Scorers : own'[p] \subseteq own[p]
      BY <1>3, <1>4
    <3>. QED BY <1>1, <3>1 DEF ReadingInv, NotMixed
  <2>. QED BY <1>8, <2>1, <2>2 DEF NotMixed
<1>. QED BY <1>6, <1>7, <1>9 DEF ReadingInv

(* The heart of it.  Rows of other runs for the same document come from    *)
(* runs that overlap, and from another resolver: with the same one, every  *)
(* row would meet a row with its key, and be skipped or waited for.        *)
LEMMA WriteReading ==
  ASSUME ViewInv, ReadingInv, NEW r \in Scorers, Write(r)
  PROVE  ReadingInv'
<1>1. PICK d \in todo[r] :
        /\ \A q \in Scorers \ {r}, a \in RowsOf(r, d) : \A b \in own[q] : ~SameKey(a, b)
        /\ own' = [own EXCEPT ![r] = @ \cup {a \in RowsOf(r, d) : \A b \in scores : ~SameKey(a, b)}]
        /\ todo' = [todo EXCEPT ![r] = @ \ {d}]
        /\ scored' = [scored EXCEPT ![r] = @ \cup {d}]
  BY DEF Write
<1>. DEFINE new == {a \in RowsOf(r, d) : \A b \in scores : ~SameKey(a, b)}
<1>2. stage[r] \in {"articles", "posts"} /\ UNCHANGED <<scores, stage, gazetteer, before>>
  BY DEF Write
<1>3. \A a \in new : a.by = r /\ a.doc = d
  BY RowsAreReadings
<1>4. \A a \in RowsOf(r, d) : a \in new \/ \E b \in scores : SameKey(a, b)
  OBVIOUS
<1>5. \A a \in new : a \in RowsOf(r, d) /\ \A b \in scores : ~SameKey(a, b)
  OBVIOUS
<1>. HIDE DEF new
<1>6. /\ own'[r] = own[r] \cup new /\ scored'[r] = scored[r] \cup {d} /\ todo'[r] \subseteq todo[r]
      /\ \A q \in Scorers : q # r =>
           own'[q] = own[q] /\ scored'[q] = scored[q] /\ todo'[q] = todo[q]
  BY <1>1 DEF new, ViewInv, Domains
<1>7. \A q, e : RowsOf(q, e)' = RowsOf(q, e)
  BY <1>2, RowsKeep
<1>8. r \in Active
  BY <1>2 DEF Active
<1>9. KeysStored'
  <2>1. \A s \in scores : s.doc \in scored'[s.by]
    BY <1>6 DEF ViewInv, Ownership, ReadingInv, KeysStored
  <2>2. ASSUME NEW q \in Scorers
        PROVE  /\ stage'[q] = "idle" => scored'[q] = {}
               /\ stage'[q] # "failed" => \A e \in scored'[q] : \A a \in RowsOf(q, e)' :
                    \E b \in scores' \cup own'[q] : SameKey(a, b)
    <3>1. stage[q] # "failed" => \A e \in scored[q] : \A a \in RowsOf(q, e) :
            \E b \in scores \cup own[q] : SameKey(a, b)
      BY DEF ReadingInv, KeysStored
    <3>2. CASE q = r
      <4>1. stage'[q] # "idle"
        BY <1>2, <3>2
      <4>2. ASSUME NEW a \in RowsOf(r, d) PROVE \E b \in scores' \cup own'[r] : SameKey(a, b)
        <5>1. SameKey(a, a)
          BY DEF SameKey
        <5>. QED BY <1>2, <1>4, <1>6, <5>1
      <4>3. ASSUME NEW e \in scored[r], NEW a \in RowsOf(r, e)
            PROVE  \E b \in scores' \cup own'[r] : SameKey(a, b)
        BY <1>2, <1>6, <3>1, <3>2
      <4>. QED BY <1>6, <1>7, <3>2, <4>1, <4>2, <4>3
    <3>3. CASE q # r
      BY <1>2, <1>6, <1>7, <3>1, <3>3 DEF ReadingInv, KeysStored
    <3>. QED BY <3>2, <3>3
  <2>. QED BY <1>2, <2>1, <2>2 DEF KeysStored, SameKey
<1>10. Fresh'
  <2>1. \A q \in Scorers : todo'[q] \subseteq todo[q]
    BY <1>6
  <2>. QED BY <1>2, <2>1 DEF ReadingInv, Fresh
<1>11. ASSUME NEW q \in Scorers \ {r}, NEW x \in scores \cup own[q], x.by = q, x.doc = d,
              NEW a \in new
       PROVE  gazetteer[q] # gazetteer[r]
  <2>. SUFFICES ASSUME gazetteer[q] = gazetteer[r] PROVE FALSE
    OBVIOUS
  <2>1. stage[q] # "failed" /\ d \in scored[q]
    BY <1>11 DEF ViewInv, Ownership, Active, ReadingInv, KeysStored
  <2>2. PICK b \in RowsOf(q, d) : SameKey(a, b)
    BY <1>5, SameResolverSameKeys
  <2>3. PICK c \in scores \cup own[q] : SameKey(b, c)
    BY <2>1, <2>2 DEF ReadingInv, KeysStored
  <2>4. SameKey(a, c)
    BY <2>2, <2>3 DEF SameKey
  <2>. QED BY <1>1, <1>5, <2>3, <2>4
<1>12. ASSUME NEW a \in new, NEW x \in scores PROVE Mixable(x, a)
  <2>. SUFFICES ASSUME x.doc = d, x.by # r
                PROVE  Overlapped(x.by, r) /\ gazetteer[x.by] # gazetteer[r]
    BY <1>3 DEF Mixable
  <2>1. x.by \in Scorers \ {r}
    BY DEF ViewInv, Ownership
  <2>2. x.by \notin before[r]
    BY <1>1 DEF ReadingInv, Fresh
  <2>3. r \notin before[x.by]
    BY <1>8, <2>1 DEF ViewInv, Ownership, Active, Ended
  <2>4. gazetteer[x.by] # gazetteer[r]
    BY <1>11, <2>1
  <2>. QED BY <2>2, <2>3, <2>4 DEF Overlapped
<1>13. ASSUME NEW a \in new, NEW q \in Scorers, NEW x \in own[q] PROVE Mixable(x, a)
  <2>. SUFFICES ASSUME x.doc = d, x.by # r
                PROVE  Overlapped(x.by, r) /\ gazetteer[x.by] # gazetteer[r]
    BY <1>3 DEF Mixable
  <2>1. x.by = q /\ q \in Scorers \ {r} /\ q \in Active
    BY DEF ViewInv, Ownership
  <2>2. Overlapped(q, r)
    BY <1>8, <2>1, ActiveOverlap
  <2>3. gazetteer[q] # gazetteer[r]
    BY <1>11, <2>1
  <2>. QED BY <2>1, <2>2, <2>3
<1>14. \A a \in new, b \in new : Mixable(a, b)
  BY <1>3 DEF Mixable
<1>15. NotMixed'
  <2>1. \A s \in scores : \A x \in scores : Mixable(x, s)
    BY DEF ReadingInv, NotMixed
  <2>2. ASSUME NEW q \in Scorers, NEW s \in own'[q], NEW x \in scores PROVE Mixable(x, s)
    <3>1. s \in own[q] \/ s \in new
      BY <1>6
    <3>. QED BY <1>12, <3>1 DEF ReadingInv, NotMixed
  <2>3. ASSUME NEW q \in Scorers, NEW s \in own'[q], NEW p \in Scorers, NEW x \in own'[p]
        PROVE  Mixable(x, s)
    <3>1. (s \in own[q] \/ s \in new) /\ (x \in own[p] \/ x \in new)
      BY <1>6
    <3>2. CASE s \in own[q] /\ x \in own[p]
      BY <3>2 DEF ReadingInv, NotMixed
    <3>3. CASE s \in new /\ x \in own[p]
      BY <1>13, <3>3
    <3>4. CASE s \in own[q] /\ x \in new
      BY <1>13, <3>4, MixableIsSymmetric
    <3>5. CASE s \in new /\ x \in new
      BY <1>14, <3>5
    <3>. QED BY <3>1, <3>2, <3>3, <3>4, <3>5
  <2>4. \A x, s : Mixable(x, s) => Mixable(x, s)'
    BY <1>2 DEF Mixable, Overlapped
  <2>. QED BY <1>2, <2>1, <2>2, <2>3, <2>4 DEF NotMixed
<1>. QED BY <1>9, <1>10, <1>15 DEF ReadingInv

-----------------------------------------------------------------------------
LEMMA StepReading == ViewInv /\ ReadingInv /\ [Next]_vars => ReadingInv'
<1>. SUFFICES ASSUME ViewInv, ReadingInv, [Next]_vars PROVE ReadingInv'
  OBVIOUS
<1>1. ASSUME UNCHANGED <<scores, stage, todo, own, scored, gazetteer, before>> PROVE ReadingInv'
  BY <1>1, QuietReading DEF ReadingInv
<1>2. CASE Seeder \/ Loader
  BY <1>1, <1>2 DEF Seeder, Loader, scoringVars
<1>3. CASE Scorer
  <2>1. PICK r \in Scorers : ScoringRun(r, ResolverNow)
    BY <1>3 DEF Scorer
  <2>. QED BY <2>1, StartReading, WriteReading, ReadPostsReading, RequestRefreshReading, FinishReading,
              AbandonReading DEF ScoringRun
<1>4. CASE Scraper
  BY <1>1, <1>4 DEF Scraper, Arrive
<1>5. CASE UNCHANGED vars
  BY <1>1, <1>5 DEF vars, scoringVars
<1>. QED BY <1>2, <1>3, <1>4, <1>5 DEF Next

(* A document with a score has one for each of its sentences, and two runs *)
(* share a document only if they overlapped with resolvers that differ.    *)
THEOREM ReadingsAreWhole == Spec => []WholeReadings
<1>1. ViewInv /\ ReadingInv => WholeReadings
  <2>. SUFFICES ASSUME ViewInv, ReadingInv, NEW s \in scores
                PROVE  /\ \A k \in DOMAIN Sentences[s.doc] : \E x \in scores : x.doc = s.doc /\ x.at = k
                       /\ \A x \in scores : (x.doc = s.doc /\ x.by # s.by) =>
                            Overlapped(x.by, s.by) /\ gazetteer[x.by] # gazetteer[s.by]
    BY DEF WholeReadings
  <2>1. s.by \in Scorers /\ stage[s.by] = "done" /\ own[s.by] = {} /\ s.doc \in scored[s.by]
    BY DEF ViewInv, Ownership, Active, ReadingInv, KeysStored
  <2>2. ASSUME NEW k \in DOMAIN Sentences[s.doc] PROVE \E x \in scores : x.doc = s.doc /\ x.at = k
    <3>1. PICK a \in RowsOf(s.by, s.doc) : a.doc = s.doc /\ a.at = k
      BY <2>1, SentencesHaveRows
    <3>2. PICK b \in scores : SameKey(a, b)
      BY <2>1, <3>1 DEF ReadingInv, KeysStored
    <3>. QED BY <3>1, <3>2 DEF SameKey
  <2>3. \A x \in scores : Mixable(x, s)
    BY DEF ReadingInv, NotMixed
  <2>. QED BY <2>2, <2>3 DEF Mixable
<1>2. ViewInv /\ ReadingInv /\ [Next]_vars => ReadingInv'
  BY StepReading
<1>. QED BY <1>1, <1>2, InitReading, ViewInvariance, PTL DEF Spec

-----------------------------------------------------------------------------
(* The loaders.                                                            *)

Listed(f) == f.rows \in Seq(Seqs!ToSet(f.rows))

LEMMA RowNumbers ==
  ASSUME NEW f, Listed(f)
  PROVE  Len(f.rows) \in Nat /\ DOMAIN f.rows = 1..Len(f.rows)
BY DEF Listed

LEMMA NamesOnce ==
  ASSUME NEW f, Listed(f)
  PROVE  LET q == Seqs!SetToSeq(Names(f))
             n == Cardinality(Names(f))
         IN /\ n \in Nat /\ q \in [1..n -> Names(f)]
            /\ \A j, k \in 1..n : q[j] = q[k] => j = k
            /\ \A x \in Names(f) : \E k \in 1..n : q[k] = x
<1>. DEFINE g == [i \in DOMAIN f.rows |-> f.rows[i].name]
<1>1. IsFiniteSet(DOMAIN g)
  BY RowNumbers, FS_Interval
<1>2. Names(f) = {g[i] : i \in DOMAIN g}
  BY DEF Names
<1>. HIDE DEF g
<1>3. IsFiniteSet(Names(f))
  BY <1>1, <1>2, FiniteRange
<1>. QED BY <1>3, Listing

(* A load asks for the name of every row; that of 2019 for each only once, *)
(* that of 2023 row by row.                                                *)
LEMMA AsksSpec ==
  ASSUME NEW s, NEW f, Listed(f)
  PROVE  LET q == Asks(s, f)
         IN /\ q \in Seq(Names(f)) /\ Len(q) \in Nat /\ DOMAIN q = 1..Len(q)
            /\ \A i \in DOMAIN f.rows : \E k \in DOMAIN q : q[k] = f.rows[i].name
            /\ \A k \in DOMAIN q : \E i \in DOMAIN f.rows : q[k] = f.rows[i].name
            /\ s = "2019" => \A j, k \in DOMAIN q : q[j] = q[k] => j = k
            /\ s # "2019" => DOMAIN q = DOMAIN f.rows /\ \A i \in DOMAIN q : q[i] = f.rows[i].name
<1>. DEFINE q == Asks(s, f)
<1>1. CASE s = "2019"
  <2>. DEFINE n == Cardinality(Names(f))
  <2>1. /\ n \in Nat /\ q \in [1..n -> Names(f)]
        /\ \A j, k \in 1..n : q[j] = q[k] => j = k
        /\ \A x \in Names(f) : \E k \in 1..n : q[k] = x
    BY <1>1, NamesOnce DEF Asks
  <2>. HIDE DEF q, n
  <2>2. q \in Seq(Names(f)) /\ Len(q) = n /\ DOMAIN q = 1..n
    BY <2>1
  <2>3. \A i \in DOMAIN f.rows : f.rows[i].name \in Names(f)
    BY DEF Names
  <2>4. \A x \in Names(f) : \E i \in DOMAIN f.rows : x = f.rows[i].name
    BY DEF Names
  <2>. QED BY <1>1, <2>1, <2>2, <2>3, <2>4 DEF q
<1>2. CASE s # "2019"
  <2>. DEFINE n == Len(f.rows)
  <2>1. n \in Nat /\ DOMAIN f.rows = 1..n
    BY RowNumbers
  <2>2. q = [i \in 1..n |-> f.rows[i].name]
    BY <1>2, <2>1 DEF Asks
  <2>3. \A i \in 1..n : f.rows[i].name \in Names(f)
    BY <2>1 DEF Names
  <2>. HIDE DEF q, n
  <2>4. q \in [1..n -> Names(f)]
    BY <2>2, <2>3
  <2>5. q \in Seq(Names(f)) /\ Len(q) = n /\ DOMAIN q = 1..n
    BY <2>1, <2>4
  <2>. QED BY <1>2, <2>1, <2>2, <2>5 DEF q
<1>. QED BY <1>1, <1>2

LoadTypes ==
  /\ lastId \in Nat /\ loads \in 0..MaxLoads
  /\ stamp \in [Sources -> {"never", "success", "failure"}]
  /\ phase \in [Sources -> {"idle", "loading", "loaded", "failing"}]
  /\ DOMAIN file = Sources /\ DOMAIN chosen = Sources /\ DOMAIN last = Sources
  /\ \A s \in Sources :
       /\ phase[s] # "idle" => file[s] \in Files[s]
       /\ last[s] \in Seq(Files[s])
       /\ chosen[s] \in Seq(Nat)
       /\ chosen[s] # <<>> => phase[s] = "loading" /\ Len(chosen[s]) <= Len(Lookups(s))
       /\ phase[s] = "loaded" \/ stamp[s] = "success" => last[s] # <<>>
       /\ s = "2023" /\ chosen[s] # <<>> => "GT" \in DOMAIN places

(* The candidates that some transaction can see.                           *)
Known == candidates \cup UNION {Inserted(s) : s \in Sources}

(* An id has one row and one name, whatever overlaps; loads that do not    *)
(* overlap give a name one id.                                             *)
Identities ==
  /\ \A c \in Known : c = [id |-> c.id, name |-> c.name] /\ c.id \in 1..lastId
  /\ \A c, d \in Known : c.id = d.id => c = d
  /\ ~overlapped => \A s, q \in Sources : ~Idle(s) /\ ~Idle(q) => s = q
  /\ ~overlapped => \A c, d \in Known : c.name = d.name => c = d

NoLater(f, i) ==
  \A k \in (i + 1)..Len(f.rows) :
    ~(f.rows[k].round = f.rows[i].round /\ f.rows[k].name = f.rows[i].name /\ f.rows[k].geo = f.rows[i].geo)

ResultOf(s, r, c) == [key |-> [election |-> <<s, r.round>>, id |-> c.id, geo |-> r.geo], votes |-> r.votes]

(* What a load of s that commits f leaves, until the next one of s.        *)
Stored(s, f) ==
  \A i \in DOMAIN f.rows : NoLater(f, i) =>
    \E c \in candidates : c.name = f.rows[i].name /\ ResultOf(s, f.rows[i], c) \in results

Results ==
  /\ \A x \in results : /\ x.key.geo \in DOMAIN places
                        /\ x.key.election \in DOMAIN elections
                        /\ \E c \in candidates : c.id = x.key.id
  /\ \A x, y \in results : x.key = y.key => x = y
  /\ \A c \in candidates : \E x \in results : x.key.id = c.id
  /\ \A s \in Sources : last[s] # <<>> => Stored(s, LastFile(s))

Elections == \A e \in DOMAIN elections : last[e[1]] # <<>> /\ elections[e] = (e[1] = "2023")

Places == PlacesAreNested /\ \A g \in DOMAIN places : places[g] \in DOMAIN places \cup {Root}

(* A load of the file loaded last only finds candidates. *)
Reruns ==
  \A s \in Sources : phase[s] = "loading" /\ last[s] # <<>> /\ LastFile(s) = file[s] => Inserted(s) \subseteq candidates

LoadInv == LoadTypes /\ Identities /\ Results /\ Elections /\ Places /\ Reruns

-----------------------------------------------------------------------------
(* What the steps of a load that neither look up nor commit have in common.*)
Quiet(s) ==
  (\E f \in Files[s] : Begin(s, f)) \/ StampSuccess(s) \/ Fail(s) \/ StampFailure(s) \/ Die(s)

LEMMA FilesListed ==
  ASSUME NEW s \in Sources, NEW f \in Files[s]
  PROVE  Listed(f)
BY LoadAssumption DEF Listed

LEMMA InitLoad == Init => LoadInv
<1>. SUFFICES ASSUME Init PROVE LoadInv
  OBVIOUS
<1>1. /\ places = <<>> /\ seeded = <<>> /\ elections = <<>> /\ candidates = {} /\ results = {}
      /\ stamp = [s \in Sources |-> "never"] /\ phase = [s \in Sources |-> "idle"]
      /\ file = [s \in Sources |-> NoFile] /\ chosen = [s \in Sources |-> <<>>]
      /\ lastId = 0 /\ loads = 0 /\ last = [s \in Sources |-> <<>>] /\ overlapped = FALSE
  BY DEF Init, LoadInit
<1>2. LoadTypes
  BY <1>1, LoadAssumption DEF LoadTypes
<1>3. \A s \in Sources : Inserted(s) = {}
  BY <1>1 DEF Inserted
<1>4. Identities
  BY <1>1, <1>3 DEF Identities, Known, Idle
<1>5. Results /\ Elections /\ Places /\ Reruns
  BY <1>1 DEF Results, Elections, Places, PlacesAreNested, Reruns
<1>. QED BY <1>2, <1>4, <1>5 DEF LoadInv

LEMMA QuietFacts ==
  ASSUME LoadTypes, NEW s \in Sources, Quiet(s)
  PROVE  /\ UNCHANGED <<places, seeded, elections, candidates, results, lastId, last>>
         /\ \A q \in Sources : chosen'[q] = <<>> \/ (phase[q] = "loading" /\ phase'[q] = "loading" /\ chosen'[q] = chosen[q] /\ file'[q] = file[q])
         /\ overlapped => overlapped'
         /\ ~overlapped' => ~Idle(s) \/ \A q \in Sources : Idle(q)
         /\ \A q \in Sources \ {s} : phase'[q] = phase[q]
<1>1. \A q \in Sources : chosen[q] # <<>> => phase[q] = "loading"
  BY DEF LoadTypes
<1>2. ASSUME NEW f \in Files[s], Begin(s, f)
      PROVE  /\ UNCHANGED <<places, seeded, elections, candidates, results, lastId, last, chosen>>
             /\ Idle(s) /\ phase' = [phase EXCEPT ![s] = "loading"] /\ file' = [file EXCEPT ![s] = f]
             /\ overlapped' = (overlapped \/ \E q \in Sources : ~Idle(q))
  BY <1>2 DEF Begin, placeVars
<1>3. CASE \E f \in Files[s] : Begin(s, f)
  BY <1>1, <1>2, <1>3 DEF LoadTypes, Idle
<1>4. CASE StampSuccess(s)
  BY <1>1, <1>4 DEF LoadTypes, StampSuccess, Idle, placeVars
<1>5. CASE Fail(s)
  BY <1>1, <1>5 DEF LoadTypes, Fail, Rollback, Idle, placeVars
<1>6. CASE StampFailure(s)
  BY <1>1, <1>6 DEF LoadTypes, StampFailure, Idle, placeVars
<1>7. CASE Die(s)
  BY <1>1, <1>7 DEF LoadTypes, Die, Idle, placeVars
<1>. QED BY <1>3, <1>4, <1>5, <1>6, <1>7 DEF Quiet

LEMMA KnownRow ==
  ASSUME NEW c
  PROVE  /\ c \in Known <=> c \in candidates \/ \E s \in Sources : c \in Inserted(s)
         /\ c \in Known' <=> c \in candidates' \/ \E s \in Sources : c \in Inserted(s)'
BY DEF Known

LEMMA FewerKnown ==
  ASSUME Identities, Known' \subseteq Known, lastId' = lastId, overlapped => overlapped',
         ~overlapped' => \A s, q \in Sources : ~Idle(s)' /\ ~Idle(q)' => s = q
  PROVE  Identities'
BY DEF Identities

(* A load that looks nothing up inserts nothing. *)
LEMMA InsertedKept ==
  ASSUME NEW s \in Sources, chosen'[s] = <<>> \/ (chosen'[s] = chosen[s] /\ file'[s] = file[s])
  PROVE  Inserted(s)' = {} \/ Inserted(s)' = Inserted(s)
BY DEF Inserted, Lookups

LEMMA QuietTypes ==
  ASSUME LoadInv, NEW s \in Sources, Quiet(s)
  PROVE  LoadTypes'
<1>. USE DEF LoadInv
<1>1. /\ UNCHANGED <<places, seeded, elections, candidates, results, lastId, last>>
      /\ \A q \in Sources : chosen'[q] = <<>> \/ (phase[q] = "loading" /\ phase'[q] = "loading" /\ chosen'[q] = chosen[q] /\ file'[q] = file[q])
  BY QuietFacts
<1>2. /\ loads' \in 0..MaxLoads
      /\ stamp' \in [Sources -> {"never", "success", "failure"}]
      /\ phase' \in [Sources -> {"idle", "loading", "loaded", "failing"}]
      /\ DOMAIN file' = Sources /\ DOMAIN chosen' = Sources
  BY LoadAssumption DEF LoadTypes, Quiet, Begin, StampSuccess, Fail, StampFailure, Die
<1>3. ASSUME NEW q \in Sources PROVE phase'[q] # "idle" => file'[q] \in Files[q]
  BY DEF LoadTypes, Quiet, Begin, StampSuccess, Fail, StampFailure, Die
<1>4. ASSUME NEW q \in Sources PROVE phase'[q] = "loaded" \/ stamp'[q] = "success" => last[q] # <<>>
  BY DEF LoadTypes, Quiet, Begin, StampSuccess, Fail, StampFailure, Die
<1>5. ASSUME NEW q \in Sources
      PROVE  /\ chosen'[q] \in Seq(Nat)
             /\ chosen'[q] # <<>> => phase'[q] = "loading" /\ Len(chosen'[q]) <= Len(Lookups(q)')
             /\ q = "2023" /\ chosen'[q] # <<>> => "GT" \in DOMAIN places'
  <2>1. CASE chosen'[q] = <<>>
    BY <2>1
  <2>2. CASE phase'[q] = "loading" /\ chosen'[q] = chosen[q] /\ file'[q] = file[q]
    BY <1>1, <2>2 DEF LoadTypes, Lookups
  <2>. QED BY <1>1, <2>1, <2>2
<1>. QED BY <1>1, <1>2, <1>3, <1>4, <1>5 DEF LoadTypes

LEMMA QuietLoad ==
  ASSUME LoadInv, NEW s \in Sources, Quiet(s)
  PROVE  LoadInv'
<1>. USE DEF LoadInv
<1>1. /\ UNCHANGED <<places, seeded, elections, candidates, results, lastId, last>>
      /\ \A q \in Sources : chosen'[q] = <<>> \/ (phase[q] = "loading" /\ phase'[q] = "loading" /\ chosen'[q] = chosen[q] /\ file'[q] = file[q])
      /\ overlapped => overlapped'
      /\ ~overlapped' => ~Idle(s) \/ \A q \in Sources : Idle(q)
      /\ \A q \in Sources \ {s} : phase'[q] = phase[q]
  BY QuietFacts
<1>2. LoadTypes'
  BY QuietTypes
<1>3. \A q \in Sources : Inserted(q)' = {} \/ Inserted(q)' = Inserted(q)
  BY <1>1, InsertedKept
<1>4. Known' \subseteq Known
  BY <1>1, <1>3, KnownRow
<1>5. ~overlapped' => \A p, q \in Sources : ~Idle(p)' /\ ~Idle(q)' => p = q
  BY <1>1 DEF Identities, Idle
<1>6. Identities'
  BY <1>1, <1>4, <1>5, FewerKnown
<1>7. Results' /\ Elections' /\ Places'
  BY <1>1 DEF Results, Elections, Places, PlacesAreNested, Stored, LastFile
<1>8. Reruns'
  <2>. SUFFICES ASSUME NEW q \in Sources, phase'[q] = "loading", last'[q] # <<>>, LastFile(q)' = file'[q]
                PROVE  Inserted(q)' \subseteq candidates'
    BY DEF Reruns
  <2>1. CASE chosen'[q] = <<>>
    BY <2>1 DEF Inserted
  <2>2. CASE phase[q] = "loading" /\ chosen'[q] = chosen[q] /\ file'[q] = file[q]
    BY <1>1, <1>3, <2>2 DEF Reruns, LastFile
  <2>. QED BY <1>1, <2>1, <2>2
<1>. QED BY <1>2, <1>6, <1>7, <1>8

(* The seed: a row whose parent is stored puts its place under it. *)
LEMMA SeedPlaces ==
  ASSUME Places, NEW rows \in Seeds, Seed(rows)
  PROVE  Places' /\ DOMAIN places \subseteq DOMAIN places'
<1>. DEFINE all == DOMAIN places \cup PlacesOf(rows)
            ParentOf(g) == {rows[i].parent : i \in {k \in DOMAIN rows : rows[k].code = g /\ rows[k].parent \in all}}
<1>1. DOMAIN places' = all /\ seeded' = rows
  BY DEF Seed, Seeded
<1>2. \A g \in all : places'[g] = IF ParentOf(g) # {} THEN CHOOSE p \in ParentOf(g) : TRUE
                                   ELSE IF g \in DOMAIN places THEN places[g] ELSE Root
  BY DEF Seed, Seeded
<1>3. \A g : \A p \in ParentOf(g) : p \in all
  OBVIOUS
<1>4. ASSUME NEW i \in DOMAIN rows, rows[i].parent \in all
      PROVE  ParentOf(rows[i].code) = {rows[i].parent}
  BY <1>4, LoadAssumption
<1>5. \A i \in DOMAIN rows : rows[i].code \in all
  BY DEF PlacesOf
<1>. HIDE DEF ParentOf, all
<1>6. \A g \in all : places'[g] \in all \cup {Root}
  <2>. TAKE g \in all
  <2>1. CASE ParentOf(g) # {}
    <3>1. (CHOOSE p \in ParentOf(g) : TRUE) \in ParentOf(g)
      BY <2>1
    <3>. QED BY <1>2, <1>3, <2>1, <3>1
  <2>2. CASE ParentOf(g) = {}
    BY <1>2, <2>2 DEF Places, all
  <2>. QED BY <2>1, <2>2
<1>7. ASSUME NEW i \in DOMAIN rows, rows[i].parent \in all
      PROVE  places'[rows[i].code] = rows[i].parent
  BY <1>2, <1>4, <1>5, <1>7
<1>8. DOMAIN places \subseteq all
  BY DEF all
<1>. QED BY <1>1, <1>5, <1>6, <1>7, <1>8 DEF Places, PlacesAreNested

LEMMA SeedLoad ==
  ASSUME LoadInv, NEW rows \in Seeds, Seed(rows)
  PROVE  LoadInv'
<1>. USE DEF LoadInv
<1>1. UNCHANGED <<elections, candidates, results, stamp, phase, file, chosen, lastId, loads, last, overlapped>>
  BY DEF Seed
<1>2. Places' /\ DOMAIN places \subseteq DOMAIN places'
  BY SeedPlaces
<1>3. LoadTypes'
  BY <1>1, <1>2 DEF LoadTypes, Lookups
<1>4. \A q \in Sources : Inserted(q)' = Inserted(q)
  BY <1>1 DEF Inserted, Lookups
<1>5. Known' = Known
  BY <1>1, <1>4, KnownRow
<1>6. Identities' /\ Elections' /\ Reruns'
  BY <1>1, <1>4, <1>5 DEF Identities, Idle, Elections, Reruns, LastFile
<1>7. Results'
  BY <1>1, <1>2 DEF Results, Stored, LastFile
<1>. QED BY <1>2, <1>3, <1>6, <1>7

-----------------------------------------------------------------------------
(* A lookup either finds a candidate the load sees, or takes a fresh id.   *)

LEMMA LaterRow ==
  ASSUME NEW f, Listed(f), NEW i \in DOMAIN f.rows
  PROVE  \E k \in DOMAIN f.rows :
           /\ NoLater(f, k)
           /\ f.rows[k].round = f.rows[i].round /\ f.rows[k].name = f.rows[i].name /\ f.rows[k].geo = f.rows[i].geo
<1>. DEFINE n == Len(f.rows)
            T == {k \in 1..n : f.rows[k].round = f.rows[i].round /\ f.rows[k].name = f.rows[i].name /\ f.rows[k].geo = f.rows[i].geo}
<1>1. n \in Nat /\ DOMAIN f.rows = 1..n
  BY RowNumbers
<1>2. T \in SUBSET (1..n) /\ i \in T
  BY <1>1
<1>3. PICK m \in T : \A k \in T : k <= m
  <2>. HIDE DEF n, T
  <2>. QED BY <1>1, <1>2, Latest
<1>4. \A k \in (m + 1)..n : k \in 1..n /\ ~(k <= m)
  BY <1>1
<1>. QED BY <1>1, <1>3, <1>4 DEF NoLater

LEMMA EnsureFacts ==
  ASSUME LoadInv, NEW s \in Sources, Ensure(s)
  PROVE  \E id \in Nat :
    LET name == Lookups(s)[Len(chosen[s]) + 1]
        new == [id |-> id, name |-> name]
    IN /\ \E i \in DOMAIN file[s].rows : name = file[s].rows[i].name
       /\ chosen' = [chosen EXCEPT ![s] = Append(chosen[s], id)]
       /\ \/ new \in candidates \cup Inserted(s) /\ lastId' = lastId
          \/ /\ id = lastId + 1 /\ lastId' = id
             /\ \A x \in candidates \cup Inserted(s) : x.name # name
       /\ Inserted(s)' = Inserted(s) \cup {new}
       /\ \A q \in Sources \ {s} : Inserted(q)' = Inserted(q)
<1>. USE DEF LoadInv
<1>. DEFINE q == Lookups(s)
            n == Len(chosen[s])
            name == q[n + 1]
            seen == candidates \cup Inserted(s)
            same == {c.id : c \in {x \in seen : x.name = name}}
<1>1. PICK id \in IF same = {} THEN {lastId + 1} ELSE same :
        /\ chosen' = [chosen EXCEPT ![s] = Append(chosen[s], id)]
        /\ lastId' = IF same = {} THEN lastId + 1 ELSE lastId
        /\ phase[s] = "loading" /\ n < Len(q) /\ file' = file
  BY DEF Ensure, LoadTypes
<1>2. file[s] \in Files[s] /\ Listed(file[s]) /\ chosen[s] \in Seq(Nat) /\ n \in Nat /\ DOMAIN chosen[s] = 1..n
  BY <1>1, FilesListed DEF LoadTypes
<1>3. Len(q) \in Nat /\ DOMAIN q = 1..Len(q) /\ \A k \in DOMAIN q : \E i \in DOMAIN file[s].rows : q[k] = file[s].rows[i].name
  BY <1>2, AsksSpec DEF Lookups
<1>. HIDE DEF q, n
<1>4. \E i \in DOMAIN file[s].rows : name = file[s].rows[i].name
  <2>1. n + 1 \in DOMAIN q
    BY <1>1, <1>2, <1>3
  <2>. QED BY <1>3, <2>1
<1>5. \A c \in seen : c = [id |-> c.id, name |-> c.name] /\ c.id \in 1..lastId
  BY KnownRow DEF Identities
<1>. HIDE DEF seen
<1>6. ASSUME same = {}
      PROVE  /\ id \in Nat
             /\ \/ [id |-> id, name |-> name] \in seen /\ lastId' = lastId
                \/ id = lastId + 1 /\ lastId' = id /\ \A x \in seen : x.name # name
  <2>1. id = lastId + 1 /\ lastId' = id /\ id \in Nat
    BY <1>1, <1>6 DEF LoadTypes
  <2>2. \A x \in seen : x.name # name
    BY <1>6
  <2>. QED BY <2>1, <2>2
<1>7. ASSUME same # {}
      PROVE  /\ id \in Nat
             /\ \/ [id |-> id, name |-> name] \in seen /\ lastId' = lastId
                \/ id = lastId + 1 /\ lastId' = id /\ \A x \in seen : x.name # name
  <2>1. PICK c \in seen : c.name = name /\ id = c.id
    BY <1>1, <1>7
  <2>2. lastId' = lastId
    BY <1>1, <1>7
  <2>3. id \in Nat /\ [id |-> id, name |-> name] \in seen
    BY <1>5, <2>1 DEF LoadTypes
  <2>. QED BY <2>2, <2>3
<1>8. /\ id \in Nat
      /\ \/ [id |-> id, name |-> name] \in seen /\ lastId' = lastId
         \/ id = lastId + 1 /\ lastId' = id /\ \A x \in seen : x.name # name
  BY <1>6, <1>7
<1>9. \A p \in Sources \ {s} : Inserted(p)' = Inserted(p)
  BY <1>1 DEF Inserted, Lookups, LoadTypes
<1>10. Inserted(s)' = Inserted(s) \cup {[id |-> id, name |-> name]}
  <2>1. chosen'[s] = Append(chosen[s], id)
    BY <1>1 DEF LoadTypes
  <2>2. /\ DOMAIN chosen'[s] = 1..(n + 1)
        /\ chosen'[s][n + 1] = id
        /\ \A k \in 1..n : chosen'[s][k] = chosen[s][k]
    BY <1>2, <1>8, <2>1 DEF n
  <2>3. Lookups(s)' = q
    BY <1>1 DEF q, Lookups
  <2>4. 1..(n + 1) = 1..n \cup {n + 1}
    BY <1>2
  <2>5. Inserted(s)' = {[id |-> chosen'[s][k], name |-> q[k]] : k \in 1..(n + 1)}
    BY <2>2, <2>3 DEF Inserted
  <2>6. Inserted(s) = {[id |-> chosen[s][k], name |-> q[k]] : k \in 1..n}
    BY <1>2 DEF Inserted, q
  <2>. QED BY <2>2, <2>4, <2>5, <2>6
<1>. QED BY <1>1, <1>4, <1>8, <1>9, <1>10 DEF q, n, seen

LEMMA EnsureLoad ==
  ASSUME LoadInv, NEW s \in Sources, Ensure(s)
  PROVE  LoadInv'
<1>. USE DEF LoadInv
<1>. DEFINE name == Lookups(s)[Len(chosen[s]) + 1]
<1>1. PICK id \in Nat :
        LET new == [id |-> id, name |-> name]
        IN /\ \E i \in DOMAIN file[s].rows : name = file[s].rows[i].name
           /\ chosen' = [chosen EXCEPT ![s] = Append(chosen[s], id)]
           /\ \/ new \in candidates \cup Inserted(s) /\ lastId' = lastId
              \/ /\ id = lastId + 1 /\ lastId' = id
                 /\ \A x \in candidates \cup Inserted(s) : x.name # name
           /\ Inserted(s)' = Inserted(s) \cup {new}
           /\ \A q \in Sources \ {s} : Inserted(q)' = Inserted(q)
  BY EnsureFacts
<1>. DEFINE new == [id |-> id, name |-> name]
<1>2. /\ UNCHANGED <<places, seeded, elections, candidates, results, stamp, phase, file, loads, last, overlapped>>
      /\ phase[s] = "loading" /\ Len(chosen[s]) < Len(Lookups(s))
      /\ s = "2023" /\ chosen[s] = <<>> => "GT" \in DOMAIN places
  BY DEF Ensure, placeVars, CountryKnown
<1>. HIDE DEF name
<1>3. Known' = Known \cup {new}
  BY <1>1, <1>2, KnownRow
<1>4. lastId' \in Nat /\ lastId' >= lastId /\ id \in 1..lastId'
  <2>1. CASE new \in candidates \cup Inserted(s) /\ lastId' = lastId
    <3>1. new \in Known /\ new.id = id
      BY <2>1, KnownRow
    <3>. QED BY <2>1, <3>1 DEF Identities, LoadTypes
  <2>2. CASE id = lastId + 1 /\ lastId' = id
    BY <2>2 DEF LoadTypes
  <2>. QED BY <1>1, <2>1, <2>2
<1>5. LoadTypes'
  <2>1. chosen'[s] = Append(chosen[s], id) /\ \A q \in Sources \ {s} : chosen'[q] = chosen[q]
    BY <1>1 DEF LoadTypes
  <2>2. chosen'[s] \in Seq(Nat) /\ Len(chosen'[s]) = Len(chosen[s]) + 1 /\ Len(chosen[s]) \in Nat
    BY <2>1 DEF LoadTypes
  <2>3. Len(Lookups(s)) \in Nat
    BY <1>2, FilesListed, AsksSpec DEF Lookups, LoadTypes
  <2>4. \A q \in Sources : Lookups(q)' = Lookups(q)
    BY <1>2 DEF Lookups
  <2>5. Len(chosen'[s]) <= Len(Lookups(s)')
    BY <1>2, <2>2, <2>3, <2>4
  <2>6. DOMAIN chosen' = Sources
    BY <1>1 DEF LoadTypes
  <2>7. s = "2023" => "GT" \in DOMAIN places
    BY <1>2 DEF LoadTypes
  <2>. QED BY <1>2, <1>4, <2>1, <2>2, <2>4, <2>5, <2>6, <2>7 DEF LoadTypes
<1>6. ~overlapped => \A p, q \in Sources : ~Idle(p)' /\ ~Idle(q)' => p = q
  BY <1>2 DEF Identities, Idle
<1>7. Identities'
  <2>1. CASE new \in candidates \cup Inserted(s) /\ lastId' = lastId
    <3>1. new \in Known
      BY <2>1, KnownRow
    <3>. QED BY <1>2, <1>3, <1>6, <2>1, <3>1, FewerKnown
  <2>2. CASE id = lastId + 1 /\ lastId' = id /\ \A x \in candidates \cup Inserted(s) : x.name # name
    <3>1. \A c \in Known : c.id \in 1..lastId /\ c.id # id
      BY <2>2 DEF Identities, LoadTypes
    <3>2. \A c \in Known' : c = [id |-> c.id, name |-> c.name] /\ c.id \in 1..lastId'
      BY <1>3, <1>4, <3>1 DEF Identities, LoadTypes
    <3>3. \A c, d \in Known' : c.id = d.id => c = d
      BY <1>3, <3>1 DEF Identities
    <3>4. ASSUME ~overlapped, NEW c \in Known PROVE c.name # name
      <4>1. CASE c \in candidates \cup Inserted(s)
        BY <2>2, <4>1
      <4>2. ASSUME NEW q \in Sources, c \in Inserted(q) PROVE q = s
        <5>1. chosen[q] # <<>>
          BY <4>2 DEF Inserted
        <5>. QED BY <1>2, <3>4, <5>1 DEF LoadTypes, Identities, Idle
      <4>. QED BY <4>1, <4>2, KnownRow
    <3>5. ~overlapped => \A c, d \in Known' : c.name = d.name => c = d
      BY <1>3, <3>4 DEF Identities
    <3>. QED BY <1>2, <1>6, <3>2, <3>3, <3>5 DEF Identities
  <2>. QED BY <1>1, <2>1, <2>2
<1>8. Results' /\ Elections' /\ Places'
  BY <1>2 DEF Results, Elections, Places, PlacesAreNested, Stored, LastFile
<1>9. Reruns'
  <2>. SUFFICES ASSUME NEW q \in Sources, phase'[q] = "loading", last'[q] # <<>>, LastFile(q)' = file'[q]
                PROVE  Inserted(q)' \subseteq candidates'
    BY DEF Reruns
  <2>1. phase[q] = "loading" /\ last[q] # <<>> /\ LastFile(q) = file[q]
    BY <1>2 DEF LastFile
  <2>2. Inserted(q) \subseteq candidates
    BY <2>1 DEF Reruns
  <2>3. CASE q # s
    BY <1>1, <1>2, <2>2, <2>3
  <2>4. CASE q = s
    <3>1. Listed(file[s]) /\ Stored(s, file[s])
      BY <2>1, <2>4, FilesListed DEF LoadTypes, Results
    <3>2. PICK i \in DOMAIN file[s].rows : name = file[s].rows[i].name
      BY <1>1
    <3>3. PICK k \in DOMAIN file[s].rows : NoLater(file[s], k) /\ file[s].rows[k].name = name
      BY <3>1, <3>2, LaterRow
    <3>4. PICK c \in candidates : c.name = name
      BY <3>1, <3>3 DEF Stored
    <3>5. new \in candidates
      BY <1>1, <2>2, <2>4, <3>4
    <3>. QED BY <1>1, <1>2, <2>2, <2>4, <3>5
  <2>. QED BY <2>3, <2>4
<1>. QED BY <1>5, <1>7, <1>8, <1>9

-----------------------------------------------------------------------------
(* A commit: the rows its upserts leave, and the candidates they belong to.*)

Entry(s, i) == [id |-> IdOf(s, i), name |-> file[s].rows[i].name]
RowOf(s, i) == [key |-> ResultKey(s, i), votes |-> file[s].rows[i].votes]
Final(s, k) == \A later \in (k + 1)..Len(file[s].rows) : ResultKey(s, later) # ResultKey(s, k)

LEMMA CommitFile ==
  ASSUME LoadInv, NEW s \in Sources, Commit(s)
  PROVE  /\ file[s] \in Files[s] /\ Listed(file[s])
         /\ Len(file[s].rows) \in Nat /\ DOMAIN file[s].rows = 1..Len(file[s].rows)
         /\ DOMAIN chosen[s] = DOMAIN Lookups(s)
         /\ phase[s] = "loading"
<1>1. phase[s] = "loading" /\ file[s] \in Files[s] /\ Len(chosen[s]) = Len(Lookups(s)) /\ chosen[s] \in Seq(Nat)
  BY DEF Commit, LoadInv, LoadTypes
<1>2. Listed(file[s])
  BY <1>1, FilesListed
<1>3. DOMAIN Lookups(s) = 1..Len(Lookups(s))
  BY <1>2, AsksSpec DEF Lookups
<1>. QED BY <1>1, <1>2, <1>3, RowNumbers

(* Each row has a candidate of its name, and each lookup a row. *)
LEMMA CommitEntries ==
  ASSUME LoadInv, NEW s \in Sources, Commit(s)
  PROVE  /\ \A i \in DOMAIN file[s].rows : Entry(s, i) \in Inserted(s)
         /\ \A c \in Inserted(s) : \E i \in DOMAIN file[s].rows : c = Entry(s, i)
<1>. DEFINE q == Lookups(s)
            rows == file[s].rows
<1>1. DOMAIN chosen[s] = DOMAIN q
  BY CommitFile
<1>2. /\ \A i \in DOMAIN rows : \E k \in DOMAIN q : q[k] = rows[i].name
      /\ \A k \in DOMAIN q : \E i \in DOMAIN rows : q[k] = rows[i].name
      /\ s = "2019" => \A j, k \in DOMAIN q : q[j] = q[k] => j = k
      /\ s # "2019" => DOMAIN q = DOMAIN rows /\ \A i \in DOMAIN q : q[i] = rows[i].name
  BY CommitFile, AsksSpec DEF Lookups
<1>. DEFINE at(i) == IF s = "2019" THEN CHOOSE k \in DOMAIN q : q[k] = rows[i].name ELSE i
<1>3. \A i : IdOf(s, i) = chosen[s][at(i)]
  BY DEF IdOf
<1>. HIDE DEF q
<1>4. \A i \in DOMAIN rows : at(i) \in DOMAIN q /\ q[at(i)] = rows[i].name
  BY <1>2
<1>5. \A k \in DOMAIN q : \E i \in DOMAIN rows : q[k] = rows[i].name /\ at(i) = k
  <2>1. CASE s = "2019"
    BY <1>2, <1>4, <2>1
  <2>2. CASE s # "2019"
    BY <1>2, <2>2
  <2>. QED BY <2>1, <2>2
<1>6. Inserted(s) = {[id |-> chosen[s][k], name |-> q[k]] : k \in DOMAIN q}
  BY <1>1 DEF Inserted, q
<1>. HIDE DEF at
<1>7. \A i \in DOMAIN rows : Entry(s, i) = [id |-> chosen[s][at(i)], name |-> q[at(i)]]
  BY <1>3, <1>4 DEF Entry
<1>. QED BY <1>4, <1>5, <1>6, <1>7

(* Rows of one candidate have one name. *)
LEMMA CommitNames ==
  ASSUME LoadInv, NEW s \in Sources, Commit(s)
  PROVE  \A i, k \in DOMAIN file[s].rows :
           ResultKey(s, i) = ResultKey(s, k) =>
             /\ file[s].rows[i].name = file[s].rows[k].name
             /\ file[s].rows[i].round = file[s].rows[k].round
             /\ file[s].rows[i].geo = file[s].rows[k].geo
<1>. SUFFICES ASSUME NEW i \in DOMAIN file[s].rows, NEW k \in DOMAIN file[s].rows,
                     ResultKey(s, i) = ResultKey(s, k)
              PROVE  /\ file[s].rows[i].name = file[s].rows[k].name
                     /\ file[s].rows[i].round = file[s].rows[k].round
                     /\ file[s].rows[i].geo = file[s].rows[k].geo
  OBVIOUS
<1>1. IdOf(s, i) = IdOf(s, k) /\ file[s].rows[i].geo = file[s].rows[k].geo /\ file[s].rows[i].round = file[s].rows[k].round
  BY DEF ResultKey
<1>2. Entry(s, i) \in Known /\ Entry(s, k) \in Known
  BY CommitEntries, KnownRow
<1>3. Entry(s, i).id = Entry(s, k).id
  BY <1>1 DEF Entry
<1>4. Entry(s, i) = Entry(s, k)
  BY <1>2, <1>3 DEF LoadInv, Identities
<1>5. Entry(s, i).name = Entry(s, k).name
  BY <1>4
<1>. QED BY <1>1, <1>5 DEF Entry

LEMMA CommitRows ==
  ASSUME LoadInv, NEW s \in Sources, Commit(s)
  PROVE  /\ \A y \in Rows(s) : \E i \in DOMAIN file[s].rows : Final(s, i) /\ y = RowOf(s, i)
         /\ \A i \in DOMAIN file[s].rows : Final(s, i) => RowOf(s, i) \in Rows(s)
         /\ \A i \in DOMAIN file[s].rows : \E y \in Rows(s) : y.key = ResultKey(s, i)
         /\ \A y, z \in Rows(s) : y.key = z.key => y = z
<1>. DEFINE n == Len(file[s].rows)
<1>1. n \in Nat /\ DOMAIN file[s].rows = 1..n
  BY CommitFile
<1>2. /\ \A y \in Rows(s) : \E i \in 1..n : Final(s, i) /\ y = RowOf(s, i)
      /\ \A i \in 1..n : Final(s, i) => RowOf(s, i) \in Rows(s)
  BY <1>1 DEF Rows, Final, RowOf
<1>3. ASSUME NEW i \in 1..n PROVE \E y \in Rows(s) : y.key = ResultKey(s, i)
  <2>. DEFINE T == {k \in 1..n : ResultKey(s, k) = ResultKey(s, i)}
  <2>1. T \in SUBSET (1..n) /\ i \in T
    OBVIOUS
  <2>2. PICK m \in T : \A k \in T : k <= m
    <3>. HIDE DEF n, T
    <3>. QED BY <1>1, <2>1, Latest
  <2>3. m \in 1..n /\ ResultKey(s, m) = ResultKey(s, i) /\ \A k \in (m + 1)..n : k \in 1..n /\ ~(k <= m)
    BY <1>1
  <2>4. Final(s, m)
    BY <2>2, <2>3 DEF Final
  <2>. QED BY <1>2, <2>3, <2>4 DEF RowOf
<1>4. ASSUME NEW y \in Rows(s), NEW z \in Rows(s), y.key = z.key PROVE y = z
  <2>1. PICK i \in 1..n : Final(s, i) /\ y = RowOf(s, i)
    BY <1>2
  <2>2. PICK k \in 1..n : Final(s, k) /\ z = RowOf(s, k)
    BY <1>2
  <2>3. ResultKey(s, i) = ResultKey(s, k)
    BY <1>4, <2>1, <2>2 DEF RowOf
  <2>4. i = k
    BY <1>1, <2>1, <2>2, <2>3 DEF Final
  <2>. QED BY <2>1, <2>2, <2>4
<1>. QED BY <1>1, <1>2, <1>3, <1>4

LEMMA CommitStep ==
  ASSUME LoadInv, NEW s \in Sources, Commit(s)
  PROVE  /\ UNCHANGED <<places, seeded, file, lastId, loads, overlapped>>
         /\ candidates' = candidates \cup Inserted(s)
         /\ results' = {x \in results : \A y \in Rows(s) : x.key # y.key} \cup Rows(s)
         /\ \A q \in Sources \ {s} : chosen'[q] = chosen[q] /\ phase'[q] = phase[q] /\ last'[q] = last[q]
         /\ chosen'[s] = <<>> /\ phase'[s] # "loading"
         /\ last'[s] = Append(last[s], file[s]) /\ last'[s] # <<>> /\ LastFile(s)' = file[s]
         /\ Known' = Known
<1>1. /\ UNCHANGED <<places, seeded, file, lastId, loads, overlapped>>
      /\ candidates' = candidates \cup Inserted(s)
      /\ results' = {x \in results : \A y \in Rows(s) : x.key # y.key} \cup Rows(s)
      /\ \A q \in Sources \ {s} : chosen'[q] = chosen[q] /\ phase'[q] = phase[q] /\ last'[q] = last[q]
      /\ chosen'[s] = <<>> /\ phase'[s] # "loading"
      /\ last'[s] = Append(last[s], file[s])
  BY DEF Commit, Upserted, Others, placeVars, LoadInv, LoadTypes
<1>2. last'[s] # <<>> /\ LastFile(s)' = file[s]
  <2>1. last[s] \in Seq(Files[s]) /\ file[s] \in Files[s]
    BY CommitFile DEF LoadInv, LoadTypes
  <2>2. last'[s] # <<>> /\ last'[s][Len(last'[s])] = file[s]
    BY <1>1, <2>1
  <2>. QED BY <2>2 DEF LastFile
<1>3. Inserted(s)' = {} /\ \A q \in Sources \ {s} : Inserted(q)' = Inserted(q)
  BY <1>1 DEF Inserted, Lookups
<1>4. Known' = Known
  BY <1>1, <1>3, KnownRow
<1>. QED BY <1>1, <1>2, <1>4

LEMMA CommitTypes ==
  ASSUME LoadInv, NEW s \in Sources, Commit(s)
  PROVE  LoadTypes'
<1>. USE DEF LoadInv
<1>1. /\ lastId' \in Nat /\ loads' \in 0..MaxLoads
      /\ stamp' \in [Sources -> {"never", "success", "failure"}]
      /\ phase' \in [Sources -> {"idle", "loading", "loaded", "failing"}]
      /\ DOMAIN file' = Sources /\ DOMAIN chosen' = Sources /\ DOMAIN last' = Sources
  BY DEF Commit, LoadTypes
<1>2. file[s] \in Files[s] /\ last[s] \in Seq(Files[s])
  BY CommitFile DEF LoadTypes
<1>3. last'[s] \in Seq(Files[s])
  BY <1>2, CommitStep
<1>4. \A q \in Sources \ {s} : stamp'[q] = stamp[q]
  BY DEF Commit, LoadTypes
<1>5. \A q \in Sources : Lookups(q)' = Lookups(q)
  BY CommitStep DEF Lookups
<1>6. /\ places' = places /\ file' = file /\ last'[s] # <<>> /\ chosen'[s] = <<>>
      /\ \A q \in Sources \ {s} : chosen'[q] = chosen[q] /\ phase'[q] = phase[q] /\ last'[q] = last[q]
  BY CommitStep
<1>7. ASSUME NEW q \in Sources
      PROVE  /\ phase'[q] # "idle" => file'[q] \in Files[q]
             /\ last'[q] \in Seq(Files[q])
             /\ chosen'[q] \in Seq(Nat)
             /\ chosen'[q] # <<>> => phase'[q] = "loading" /\ Len(chosen'[q]) <= Len(Lookups(q)')
             /\ phase'[q] = "loaded" \/ stamp'[q] = "success" => last'[q] # <<>>
             /\ q = "2023" /\ chosen'[q] # <<>> => "GT" \in DOMAIN places'
  <2>1. CASE q = s
    <3>1. file'[q] \in Files[q] /\ last'[q] \in Seq(Files[q]) /\ last'[q] # <<>>
      BY <1>2, <1>3, <1>6, <2>1
    <3>2. chosen'[q] = <<>>
      BY <1>6, <2>1
    <3>3. chosen'[q] \in Seq(Nat)
      BY <3>2
    <3>. QED BY <3>1, <3>2, <3>3
  <2>2. CASE q # s
    <3>1. /\ phase[q] # "idle" => file[q] \in Files[q]
          /\ last[q] \in Seq(Files[q])
          /\ chosen[q] \in Seq(Nat)
          /\ chosen[q] # <<>> => phase[q] = "loading" /\ Len(chosen[q]) <= Len(Lookups(q))
          /\ phase[q] = "loaded" \/ stamp[q] = "success" => last[q] # <<>>
          /\ q = "2023" /\ chosen[q] # <<>> => "GT" \in DOMAIN places
      BY DEF LoadTypes
    <3>2. q \in Sources \ {s}
      BY <2>2
    <3>3. /\ stamp'[q] = stamp[q] /\ Lookups(q)' = Lookups(q) /\ file'[q] = file[q]
          /\ chosen'[q] = chosen[q] /\ phase'[q] = phase[q] /\ last'[q] = last[q]
      BY <1>4, <1>5, <1>6, <3>2
    <3>. QED BY <1>6, <3>1, <3>3
  <2>. QED BY <2>1, <2>2
<1>. QED BY <1>1, <1>7 DEF LoadTypes

LEMMA CommitElections ==
  ASSUME LoadInv, NEW s \in Sources, Commit(s)
  PROVE  /\ Elections' /\ DOMAIN elections \subseteq DOMAIN elections'
         /\ \A i \in DOMAIN file[s].rows :
              <<s, file[s].rows[i].round>> \in DOMAIN elections' /\ file[s].rows[i].geo \in DOMAIN places
<1>. USE DEF LoadInv
<1>1. CASE s = "2019"
  <2>1. elections' = [e \in DOMAIN elections \cup ({"2019"} \X {1, 2}) |-> e \in DOMAIN elections /\ elections[e]]
    BY <1>1 DEF Commit, ElectionsOf2019
  <2>2. \A i \in DOMAIN file[s].rows : file[s].rows[i].round \in {1, 2} /\ file[s].rows[i].geo \in DOMAIN places
    BY <1>1 DEF Commit, Acceptable, Acceptable2019
  <2>3. \A e \in DOMAIN elections' : last'[e[1]] # <<>> /\ elections'[e] = (e[1] = "2023")
    <3>. TAKE e \in DOMAIN elections'
    <3>1. CASE e \in DOMAIN elections
      <4>1. elections[e] = (e[1] = "2023") /\ last[e[1]] # <<>>
        BY <3>1 DEF Elections
      <4>2. elections'[e] = elections[e]
        BY <2>1, <3>1, <4>1
      <4>3. last'[e[1]] # <<>>
        <5>1. last'[s] # <<>> /\ last' = [last EXCEPT ![s] = Append(@, file[s])]
          BY CommitStep DEF Commit
        <5>. QED BY <4>1, <5>1 DEF LoadTypes
      <4>. QED BY <4>1, <4>2, <4>3
    <3>2. CASE e \notin DOMAIN elections
      <4>1. e \in {"2019"} \X {1, 2} /\ elections'[e] = FALSE
        BY <2>1, <3>2
      <4>. QED BY <1>1, <4>1, CommitStep
    <3>. QED BY <3>1, <3>2
  <2>. QED BY <1>1, <2>1, <2>2, <2>3 DEF Elections
<1>2. CASE s = "2023"
  <2>. DEFINE mine == {"2023"} \X DOMAIN file["2023"].published
  <2>1. elections' = [e \in DOMAIN elections \cup mine |-> e \in mine \/ elections[e]]
    BY <1>2 DEF Commit, ElectionsOf2023
  <2>2. ASSUME NEW i \in DOMAIN file[s].rows
        PROVE  <<s, file[s].rows[i].round>> \in mine /\ file[s].rows[i].geo \in DOMAIN places
    <3>1. file[s].rows[i].geo = "GT" /\ file[s].rows[i].round \in DOMAIN file[s].published
      BY <1>2, CommitFile, LoadAssumption
    <3>2. Entry(s, i) \in Inserted(s)
      BY CommitEntries
    <3>3. chosen[s] # <<>>
      BY <3>2 DEF Inserted
    <3>. QED BY <1>2, <3>1, <3>3 DEF LoadTypes
  <2>3. \A e \in DOMAIN elections' : last'[e[1]] # <<>> /\ elections'[e] = (e[1] = "2023")
    <3>. TAKE e \in DOMAIN elections'
    <3>1. CASE e \in mine
      <4>1. e[1] = "2023" /\ elections'[e] = TRUE
        BY <2>1, <3>1
      <4>. QED BY <1>2, <4>1, CommitStep
    <3>2. CASE e \notin mine
      <4>1. e \in DOMAIN elections
        BY <2>1, <3>2
      <4>2. elections[e] = (e[1] = "2023") /\ last[e[1]] # <<>>
        BY <4>1 DEF Elections
      <4>3. elections'[e] = elections[e]
        BY <2>1, <3>2, <4>1, <4>2
      <4>4. last'[s] # <<>> /\ last' = [last EXCEPT ![s] = Append(@, file[s])]
        BY CommitStep DEF Commit
      <4>. QED BY <4>2, <4>3, <4>4 DEF LoadTypes
    <3>. QED BY <3>1, <3>2
  <2>. QED BY <2>1, <2>2, <2>3 DEF Elections
<1>. QED BY <1>1, <1>2, LoadAssumption

LEMMA CommitResults ==
  ASSUME LoadInv, NEW s \in Sources, Commit(s)
  PROVE  Results'
<1>. USE DEF LoadInv
<1>. DEFINE rows == file[s].rows
            new == Rows(s)
            old == {x \in results : \A y \in new : x.key # y.key}
<1>1. results' = old \cup new /\ candidates' = candidates \cup Inserted(s) /\ UNCHANGED <<places, file>>
  BY CommitStep
<1>2. /\ \A y \in new : \E i \in DOMAIN rows : Final(s, i) /\ y = RowOf(s, i)
      /\ \A i \in DOMAIN rows : Final(s, i) => RowOf(s, i) \in new
      /\ \A i \in DOMAIN rows : \E y \in new : y.key = ResultKey(s, i)
      /\ \A y, z \in new : y.key = z.key => y = z
  BY CommitRows
<1>3. /\ \A i \in DOMAIN rows : Entry(s, i) \in Inserted(s)
      /\ \A c \in Inserted(s) : \E i \in DOMAIN rows : c = Entry(s, i)
  BY CommitEntries
<1>4. /\ DOMAIN elections \subseteq DOMAIN elections'
      /\ \A i \in DOMAIN rows : <<s, rows[i].round>> \in DOMAIN elections' /\ rows[i].geo \in DOMAIN places
  BY CommitElections
<1>. HIDE DEF new, rows
<1>5. ASSUME NEW x \in results'
      PROVE  x.key.geo \in DOMAIN places' /\ x.key.election \in DOMAIN elections' /\ \E c \in candidates' : c.id = x.key.id
  <2>1. CASE x \in old
    BY <1>1, <1>4, <2>1 DEF Results
  <2>2. CASE x \in new
    <3>1. PICK i \in DOMAIN rows : x = RowOf(s, i)
      BY <1>2, <2>2
    <3>2. x.key.geo = rows[i].geo /\ x.key.election = <<s, rows[i].round>> /\ x.key.id = Entry(s, i).id
      BY <3>1 DEF RowOf, ResultKey, Entry, rows
    <3>. QED BY <1>1, <1>3, <1>4, <3>2
  <2>. QED BY <1>1, <2>1, <2>2
<1>6. \A x, y \in results' : x.key = y.key => x = y
  BY <1>1, <1>2 DEF Results
<1>7. ASSUME NEW c \in candidates' PROVE \E x \in results' : x.key.id = c.id
  <2>1. CASE c \in candidates
    <3>1. PICK x \in results : x.key.id = c.id
      BY <2>1 DEF Results
    <3>2. CASE x \in old
      BY <1>1, <3>1, <3>2
    <3>3. CASE x \notin old
      BY <1>1, <3>1, <3>3
    <3>. QED BY <3>2, <3>3
  <2>2. CASE c \in Inserted(s)
    <3>1. PICK i \in DOMAIN rows : c = Entry(s, i)
      BY <1>3, <2>2
    <3>2. PICK y \in new : y.key = ResultKey(s, i)
      BY <1>2
    <3>3. y.key.id = c.id
      BY <3>1, <3>2 DEF ResultKey, Entry
    <3>. QED BY <1>1, <3>3
  <2>. QED BY <1>1, <2>1, <2>2
<1>8. ASSUME NEW q \in Sources, last'[q] # <<>> PROVE Stored(q, LastFile(q))'
  <2>1. CASE q = s
    <3>1. LastFile(q)' = file[s]
      BY <2>1, CommitStep
    <3>2. ASSUME NEW i \in DOMAIN rows, NoLater(file[s], i)
          PROVE  \E c \in candidates' : c.name = rows[i].name /\ ResultOf(s, rows[i], c) \in results'
      <4>1. DOMAIN rows = 1..Len(rows) /\ Len(rows) \in Nat
        BY CommitFile DEF rows
      <4>2. Final(s, i)
        <5>. SUFFICES ASSUME NEW k \in (i + 1)..Len(rows), ResultKey(s, k) = ResultKey(s, i)
                      PROVE  FALSE
          BY DEF Final, rows
        <5>1. k \in DOMAIN rows
          BY <4>1
        <5>. QED BY <3>2, <5>1, CommitNames DEF NoLater, rows
      <4>3. RowOf(s, i) \in results'
        BY <1>1, <1>2, <4>2
      <4>4. ResultOf(s, rows[i], Entry(s, i)) = RowOf(s, i) /\ Entry(s, i).name = rows[i].name
        BY DEF RowOf, ResultOf, ResultKey, Entry, rows
      <4>. QED BY <1>1, <1>3, <4>3, <4>4
    <3>3. \A i \in DOMAIN file[s].rows : NoLater(file[s], i) =>
            \E c \in candidates' : c.name = file[s].rows[i].name /\ ResultOf(s, file[s].rows[i], c) \in results'
      BY <3>2 DEF rows
    <3>. QED BY <2>1, <3>1, <3>3 DEF Stored
  <2>2. CASE q # s
    <3>1. LastFile(q)' = LastFile(q) /\ last[q] # <<>>
      BY <1>8, <2>2, CommitStep DEF LastFile
    <3>2. Stored(q, LastFile(q))
      BY <3>1 DEF Results
    <3>3. \A r, c : ResultOf(q, r, c) \in results => ResultOf(q, r, c) \in results'
      <4>. SUFFICES ASSUME NEW r, NEW c, ResultOf(q, r, c) \in results, NEW y \in new
                    PROVE  ResultOf(q, r, c).key # y.key
        BY <1>1
      <4>1. PICK i \in DOMAIN rows : y = RowOf(s, i)
        BY <1>2
      <4>2. y.key.election = <<s, rows[i].round>> /\ ResultOf(q, r, c).key.election = <<q, r.round>>
        BY <4>1 DEF RowOf, ResultKey, ResultOf, rows
      <4>3. y.key.election[1] = s /\ ResultOf(q, r, c).key.election[1] = q
        BY <4>2
      <4>. QED BY <2>2, <4>3
    <3>. QED BY <1>1, <3>1, <3>2, <3>3 DEF Stored
  <2>. QED BY <2>1, <2>2
<1>. QED BY <1>5, <1>6, <1>7, <1>8 DEF Results

LEMMA CommitLoad ==
  ASSUME LoadInv, NEW s \in Sources, Commit(s)
  PROVE  LoadInv'
<1>. USE DEF LoadInv
<1>1. Identities'
  <2>1. Known' = Known /\ lastId' = lastId /\ overlapped' = overlapped
    BY CommitStep
  <2>2. \A q \in Sources : ~Idle(q)' => ~Idle(q)
    BY CommitStep, CommitFile DEF Idle
  <2>. QED BY <2>1, <2>2 DEF Identities
<1>2. Places'
  BY CommitStep DEF Places, PlacesAreNested
<1>3. Reruns'
  <2>. SUFFICES ASSUME NEW q \in Sources, phase'[q] = "loading", last'[q] # <<>>, LastFile(q)' = file'[q]
                PROVE  Inserted(q)' \subseteq candidates'
    BY DEF Reruns
  <2>1. q # s
    BY CommitStep
  <2>2. Inserted(q)' = Inserted(q) /\ phase[q] = "loading" /\ last[q] # <<>> /\ LastFile(q) = file[q]
    BY <2>1, CommitStep DEF Inserted, Lookups, LastFile
  <2>. QED BY <2>2, CommitStep DEF Reruns
<1>. QED BY <1>1, <1>2, <1>3, CommitTypes, CommitElections, CommitResults

-----------------------------------------------------------------------------
LEMMA LoadStep == LoadInv /\ [Next]_vars => LoadInv'
<1>. SUFFICES ASSUME LoadInv, [Next]_vars PROVE LoadInv'
  OBVIOUS
<1>1. ASSUME UNCHANGED loadVars PROVE LoadInv'
  <2>1. \A q \in Sources : Inserted(q)' = Inserted(q)
    BY <1>1 DEF loadVars, Inserted, Lookups
  <2>2. Known' = Known
    BY <1>1, <2>1, KnownRow DEF loadVars
  <2>. QED BY <1>1, <2>1, <2>2
         DEF LoadInv, loadVars, placeVars, LoadTypes, Lookups, Identities, Idle, Results, Stored, LastFile, Elections,
             Places, PlacesAreNested, Reruns
<1>2. ASSUME NEW s \in Sources, Load(s) PROVE LoadInv'
  <2>1. Ensure(s) \/ Commit(s) \/ Quiet(s)
    BY <1>2 DEF Load, Quiet
  <2>. QED BY <2>1, EnsureLoad, CommitLoad, QuietLoad
<1>. QED BY <1>1, <1>2, SeedLoad DEF Next, Seeder, Loader, Scorer, Scraper, vars

LEMMA LoadInvariance == Spec => []LoadInv
BY InitLoad, LoadStep, PTL DEF Spec

(* The rows of a database that loaders share refer to each other, ids and  *)
(* result keys are unique (the constraints of the schema).                 *)
THEOREM LoadTypeCorrect == Spec => []LoadTypeOK
<1>1. LoadInv => LoadTypeOK
  <2>. SUFFICES ASSUME LoadInv PROVE LoadTypeOK
    OBVIOUS
  <2>1. candidates \subseteq Known
    BY DEF Known
  <2>. QED BY <2>1 DEF LoadInv, LoadTypes, Identities, Results, Places, LoadTypeOK
<1>. QED BY <1>1, LoadInvariance, PTL

(* load_2019_excel.py and load_2023_provisional.py: whatever overlaps,     *)
(* fails or dies, the file of the last commit is stored under candidates   *)
(* of its names, and nothing of a load that failed is.                     *)
THEOREM LoadsLeaveTheTruth == Spec => []LoadsAreTrue
<1>1. LoadInv => LoadsAreTrue
  <2>. SUFFICES ASSUME LoadInv PROVE LoadsAreTrue
    OBVIOUS
  <2>1. candidates \subseteq Known
    BY DEF Known
  <2>2. ASSUME NEW s \in Sources, last[s] # <<>>, NEW i \in DOMAIN LastFile(s).rows, NoLater(LastFile(s), i)
        PROVE  \E c \in candidates :
                 /\ c.name = LastFile(s).rows[i].name
                 /\ ResultOf(s, LastFile(s).rows[i], c) \in results
    BY <2>2 DEF LoadInv, Results, Stored
  <2>3. \A s \in Sources : last[s] # <<>> =>
       \A i \in DOMAIN LastFile(s).rows :
         LET r == LastFile(s).rows[i]
             later == {k \in (i + 1)..Len(LastFile(s).rows) :
                         LET x == LastFile(s).rows[k] IN x.round = r.round /\ x.name = r.name /\ x.geo = r.geo}
         IN later = {} => \E c \in candidates :
              /\ c.name = r.name
              /\ [key |-> [election |-> <<s, r.round>>, id |-> c.id, geo |-> r.geo], votes |-> r.votes] \in results
    BY <2>2 DEF NoLater, ResultOf
  <2>4. /\ PlacesAreNested
        /\ \A s \in Sources : stamp[s] = "success" => last[s] # <<>>
        /\ \A c \in candidates : \E x \in results : x.key.id = c.id
        /\ \A e \in DOMAIN elections : last[e[1]] # <<>> /\ elections[e] = (e[1] = "2023")
        /\ ~overlapped => UniqueNames
    BY <2>1 DEF LoadInv, LoadTypes, Identities, Results, Elections, Places, UniqueNames
  <2>. QED BY <2>3, <2>4 DEF LoadsAreTrue
<1>. QED BY <1>1, LoadInvariance, PTL

(* load_2019_excel.py:216: a second load of the file loaded last changes   *)
(* neither candidates nor results.                                         *)
THEOREM RerunsAreIdempotent == Spec => RerunChangesNothing
<1>. DEFINE Changes == \A s \in Sources :
       (last'[s] # last[s] /\ last[s] # <<>> /\ LastFile(s) = file[s] /\ UniqueNames)
         => UNCHANGED <<candidates, results>>
<1>1. LoadInv /\ [Next]_vars => [Changes]_loadVars
  <2>. SUFFICES ASSUME LoadInv, Next, NEW s \in Sources,
                       last'[s] # last[s], last[s] # <<>>, LastFile(s) = file[s], UniqueNames
                PROVE  UNCHANGED <<candidates, results>>
    BY DEF vars
  <2>1. Commit(s)
    <3>1. PICK q \in Sources : Load(q)
      BY DEF Next, Seeder, Loader, Scorer, Scraper, Seed, loadVars
    <3>2. CASE Commit(q)
      BY <3>2, CommitStep
    <3>3. CASE Quiet(q)
      BY <3>3, QuietFacts DEF LoadInv
    <3>4. CASE Ensure(q)
      BY <3>4 DEF Ensure
    <3>. QED BY <3>1, <3>2, <3>3, <3>4 DEF Load, Quiet
  <2>. DEFINE rows == file[s].rows
  <2>2. Inserted(s) \subseteq candidates /\ Stored(s, file[s])
    BY <2>1, CommitFile DEF LoadInv, Reruns, Results
  <2>3. candidates' = candidates
    BY <2>1, <2>2, CommitStep
  <2>4. ASSUME NEW y \in Rows(s) PROVE y \in results
    <3>1. PICK i \in DOMAIN rows : Final(s, i) /\ y = RowOf(s, i)
      BY <2>1, CommitRows
    <3>2. /\ DOMAIN rows = 1..Len(rows) /\ Len(rows) \in Nat
          /\ \A k \in DOMAIN rows : Entry(s, k) \in candidates
      BY <2>1, <2>2, CommitFile, CommitEntries
    <3>3. NoLater(file[s], i)
      <4>. SUFFICES ASSUME NEW k \in (i + 1)..Len(rows), rows[k].round = rows[i].round, rows[k].name = rows[i].name,
                           rows[k].geo = rows[i].geo
                    PROVE  FALSE
        BY DEF NoLater
      <4>1. k \in DOMAIN rows
        BY <3>2
      <4>2. Entry(s, k).name = Entry(s, i).name
        BY DEF Entry
      <4>3. Entry(s, k) = Entry(s, i)
        BY <3>2, <4>1, <4>2 DEF UniqueNames
      <4>4. IdOf(s, k) = IdOf(s, i)
        BY <4>3 DEF Entry
      <4>. QED BY <3>1, <4>4 DEF Final, ResultKey
    <3>4. PICK c \in candidates : c.name = rows[i].name /\ ResultOf(s, rows[i], c) \in results
      BY <2>2, <3>3 DEF Stored
    <3>5. c = Entry(s, i)
      BY <3>2, <3>4 DEF UniqueNames, Entry
    <3>6. ResultOf(s, rows[i], c) = RowOf(s, i)
      BY <3>5 DEF RowOf, ResultOf, ResultKey, Entry
    <3>. QED BY <3>1, <3>4, <3>6
  <2>5. results' = results
    <3>1. results' = {x \in results : \A y \in Rows(s) : x.key # y.key} \cup Rows(s)
      BY <2>1, CommitStep
    <3>2. \A x, y \in results : x.key = y.key => x = y
      BY DEF LoadInv, Results
    <3>. QED BY <2>4, <3>1, <3>2
  <2>. QED BY <2>3, <2>5
<1>2. Spec => [][Next]_vars
  BY DEF Spec
<1>. QED BY <1>1, <1>2, LoadInvariance, PTL DEF RerunChangesNothing
-----------------------------------------------------------------------------
(* The resolver.                                                           *)

(* A gazetteer: a sequence of entries with normalised surfaces.            *)
IsGazetteer(g) ==
  \E n \in Nat : DOMAIN g = 1..n /\ \A i \in 1..n : g[i].surface \in Normalised

LEMMA NormalizeSpec ==
  ASSUME NEW text \in Text
  PROVE  Normalize(text) \in Normalised
<1>. DEFINE n == Len(text)
            step == [a \in (1..n) \X Normalised |-> a[2] \o Normal[text[a[1]]]]
            IsIter(h) == h = [s \in SUBSET DOMAIN text |-> IF s = {} THEN <<>>
                                ELSE h[s \ {LastOf(s)}] \o Normal[text[LastOf(s)]]]
            iter == CHOOSE h : IsIter(h)
<1>1. n \in Nat /\ DOMAIN text = 1..n /\ \A k \in 1..n : text[k] \in DOMAIN Normal
  BY DEF Text
<1>. HIDE DEF n
<1>2. \A k \in 1..n : Normal[text[k]] \in Normalised
  BY <1>1, ResolverAssumption
<1>3. \A x, y \in Normalised : x \o y \in Normalised
  BY DEF Normalised
<1>4. step \in [(1..n) \X Normalised -> Normalised] /\ <<>> \in Normalised
  BY <1>2, <1>3 DEF Normalised
<1>5. \A k \in 1..n, x \in Normalised : step[<<k, x>>] = x \o Normal[text[k]]
  OBVIOUS
<1>. HIDE DEF step
<1>6. \E h : IsIter(h)
  <2>1. PICK h : IsIteration(h, <<>>, step, Normalised, n)
    BY <1>1, <1>4, FoldIter
  <2>2. \A s \in SUBSET (1..n) : h[s] = IF s = {} THEN <<>> ELSE h[s \ {LastOf(s)}] \o Normal[text[LastOf(s)]]
    BY <1>1, <1>5, <2>1, LastOfPart DEF IsIteration, Iterates
  <2>. QED BY <1>1, <2>1, <2>2 DEF IsIteration
<1>7. IsIter(iter)
  BY <1>6
<1>8. Normalize(text) = iter[1..n]
  BY <1>1 DEF Normalize, Seqs!FoldLeft, Seqs!MapThenFoldSet, Seqs!Max, LastOf
<1>. HIDE DEF iter
<1>9. iter[{}] = <<>>
  BY <1>1, <1>7
<1>10. \A s \in SUBSET (1..n) : (s # {} /\ iter[s \ {LastOf(s)}] \in Normalised) =>
         iter[s] = step[<<LastOf(s), iter[s \ {LastOf(s)}]>>]
  <2>. SUFFICES ASSUME NEW s \in SUBSET (1..n), s # {}, iter[s \ {LastOf(s)}] \in Normalised
                PROVE  iter[s] = step[<<LastOf(s), iter[s \ {LastOf(s)}]>>]
    OBVIOUS
  <2>1. LastOf(s) \in 1..n
    BY <1>1, LastOfPart
  <2>2. iter[s] = iter[s \ {LastOf(s)}] \o Normal[text[LastOf(s)]]
    BY <1>1, <1>7
  <2>. QED BY <1>5, <2>1, <2>2
<1>11. Iterates(iter, <<>>, step, Normalised, n)
  BY <1>9, <1>10 DEF Iterates
<1>12. \E f : IsTraceOf(f, iter, <<>>, step, Normalised, n)
  BY <1>1, <1>4, <1>11, FoldTrace
<1>. QED BY <1>1, <1>8, <1>12 DEF IsTraceOf, Steps

LEMMA LengthType ==
  ASSUME NEW s \in Normalised
  PROVE  Length(s) \in Nat
<1>. DEFINE h == [k \in DOMAIN s |-> Letters[s[k]] + 1]
<1>1. Len(s) \in Nat /\ DOMAIN s = 1..Len(s) /\ \A k \in DOMAIN s : s[k] \in DOMAIN Letters
  BY DEF Normalised
<1>2. IsFiniteSet(DOMAIN s)
  BY <1>1, FS_Interval
<1>3. Counts(h, DOMAIN s)
  BY <1>1, <1>2, ResolverAssumption DEF Counts
<1>. HIDE DEF h
<1>4. SumOver(h, DOMAIN s) \in Nat
  BY <1>3, SumType
<1>. QED BY <1>4 DEF Length, h

(* The order of the entries.                                               *)
AheadOf(g, S) == {p \in S \X S : Ahead(g, p[1], p[2])}

LEMMA AheadOrders ==
  ASSUME NEW g, IsGazetteer(g), NEW S \in SUBSET DOMAIN g
  PROVE  IsFiniteSet(S) /\ IsOrder(AheadOf(g, S), S)
<1>0. PICK n \in Nat : DOMAIN g = 1..n /\ \A i \in 1..n : g[i].surface \in Normalised
  BY DEF IsGazetteer
<1>1. IsFiniteSet(DOMAIN g) /\ \A i \in DOMAIN g : i \in Nat /\ Length(g[i].surface) \in Nat
  <2>1. IsFiniteSet(1..n)
    BY FS_Interval
  <2>. QED BY <1>0, <2>1, LengthType
<1>2. IsFiniteSet(S)
  BY <1>1, FS_Subset
<1>3. \A i, k \in S : <<i, k>> \in AheadOf(g, S) <=>
        \/ Length(g[i].surface) > Length(g[k].surface)
        \/ Length(g[i].surface) = Length(g[k].surface) /\ i < k
  BY DEF AheadOf, Ahead
<1>4. \A i \in S : i \in Nat /\ Length(g[i].surface) \in Nat
  BY <1>1
<1>5. ASSUME NEW x \in S, NEW y \in S PROVE x = y \/ <<x, y>> \in AheadOf(g, S) \/ <<y, x>> \in AheadOf(g, S)
  BY <1>3, <1>4
<1>6. ASSUME NEW x \in S PROVE <<x, x>> \notin AheadOf(g, S)
  BY <1>3, <1>4
<1>7. ASSUME NEW x \in S, NEW y \in S, NEW z \in S, <<x, y>> \in AheadOf(g, S), <<y, z>> \in AheadOf(g, S)
      PROVE  <<x, z>> \in AheadOf(g, S)
  BY <1>3, <1>4, <1>7
<1>. QED BY <1>2, <1>5, <1>6, <1>7 DEF IsOrder

LEMMA ForemostIsOne ==
  ASSUME NEW g, IsGazetteer(g), NEW S \in SUBSET DOMAIN g, S # {}
  PROVE  Foremost(g, S) \in S
<1>. DEFINE R == AheadOf(g, S)
<1>1. IsFiniteSet(S) /\ IsOrder(R, S)
  BY AheadOrders
<1>2. 1 \in 1..Cardinality(S)
  BY <1>1, FS_EmptySet, FS_CardinalityType
<1>3. \A x \in S : Before(R, S, x) = {y \in S : Ahead(g, y, x)}
  BY DEF Before, AheadOf
<1>. HIDE DEF R
<1>4. PICK x \in S : Cardinality(Before(R, S, x)) = 1 - 1
  BY <1>1, <1>2, OrderNumbers
<1>5. Cardinality({y \in S : Ahead(g, y, x)}) = 1 - 1
  BY <1>3, <1>4
<1>6. Foremost(g, S) = CHOOSE z \in S : Cardinality({y \in S : Ahead(g, y, z)}) = 1 - 1
  BY DEF Foremost, Nth
<1>. QED BY <1>5, <1>6
(* The order of the scan.                                                  *)
ScanOrder(norm, g) ==
  {p \in Occurrences(norm, g) \X Occurrences(norm, g) :
     Ahead(g, p[1][1], p[2][1]) \/ (p[1][1] = p[2][1] /\ p[1][2] < p[2][2])}

LEMMA ScannedSpec ==
  ASSUME NEW g, IsGazetteer(g), NEW norm \in Normalised
  PROVE  /\ Cardinality(Occurrences(norm, g)) \in Nat
         /\ Sorted(Scanned(norm, g), Occurrences(norm, g), ScanOrder(norm, g))
<1>. DEFINE O == Occurrences(norm, g)
            R == ScanOrder(norm, g)
            size(o) == Length(g[o[1]].surface)
            Prior(o, x) == Ahead(g, o[1], x[1]) \/ (o[1] = x[1] /\ o[2] < x[2])
<1>1. PICK n \in Nat : DOMAIN g = 1..n /\ \A i \in 1..n : g[i].surface \in Normalised
  BY DEF IsGazetteer
<1>2. Len(norm) \in Nat /\ DOMAIN norm = 1..Len(norm)
  BY DEF Normalised
<1>3. IsFiniteSet(O)
  <2>1. IsFiniteSet(1..n) /\ IsFiniteSet(1..Len(norm))
    BY <1>2, FS_Interval
  <2>2. IsFiniteSet((DOMAIN g) \X (DOMAIN norm))
    BY <1>1, <1>2, <2>1, FS_Product
  <2>. QED BY <2>2, FS_Subset DEF Occurrences
<1>4. \A o \in O : /\ o = <<o[1], o[2]>> /\ o[1] \in Nat /\ o[2] \in Nat /\ size(o) \in Nat
  BY <1>1, <1>2, LengthType DEF Occurrences
<1>5. \A o, x \in O : <<o, x>> \in R <=> Prior(o, x)
  BY DEF ScanOrder
<1>6. \A o, x \in O : <<o, x>> \in R <=>
        \/ size(o) > size(x)
        \/ size(o) = size(x) /\ o[1] < x[1]
        \/ o[1] = x[1] /\ o[2] < x[2]
  BY <1>5 DEF Ahead
<1>7. \A o, x \in O : o[1] = x[1] => size(o) = size(x)
  OBVIOUS
<1>8. \A x \in O : Before(R, O, x) = {o \in O : Prior(o, x)}
  BY <1>5 DEF Before
<1>. HIDE DEF O, R, size
<1>9. IsOrder(R, O)
  <2>1. ASSUME NEW o \in O, NEW x \in O PROVE o = x \/ <<o, x>> \in R \/ <<x, o>> \in R
    BY <1>4, <1>6, <1>7
  <2>2. ASSUME NEW o \in O PROVE <<o, o>> \notin R
    BY <1>4, <1>6
  <2>3. ASSUME NEW o \in O, NEW x \in O, NEW y \in O, <<o, x>> \in R, <<x, y>> \in R
        PROVE  <<o, y>> \in R
    BY <1>4, <1>6, <1>7, <2>3
  <2>. QED BY <2>1, <2>2, <2>3 DEF IsOrder
<1>10. Scanned(norm, g) = [k \in 1..Cardinality(O) |-> CHOOSE x \in O : Cardinality({o \in O : Prior(o, x)}) = k - 1]
  BY DEF Scanned, Nth, O
<1>11. \A k : (CHOOSE x \in O : Cardinality({o \in O : Prior(o, x)}) = k - 1)
                = (CHOOSE x \in O : Cardinality(Before(R, O, x)) = k - 1)
  BY <1>8
<1>12. Scanned(norm, g) = [k \in 1..Cardinality(O) |-> CHOOSE x \in O : Cardinality(Before(R, O, x)) = k - 1]
  BY <1>10, <1>11
<1>13. Cardinality(O) \in Nat /\ Sorted(Scanned(norm, g), O, R)
  <2>. HIDE DEF Prior
  <2>. QED BY <1>3, <1>9, <1>12, NthSorts
<1>. QED BY <1>13 DEF O, R

(* The scan, occurrence by occurrence.                                     *)
Scan(f, norm, g) ==
  LET s == Scanned(norm, g)
      n == Cardinality(Occurrences(norm, g))
  IN /\ f \in [0..n -> SUBSET Occurrences(norm, g)] /\ f[0] = {} /\ f[n] = Taken(norm, g)
     /\ \A k \in 1..n : f[k] = Take(g, f[k - 1], s[k])

LEMMA TakenSpec ==
  ASSUME NEW g, IsGazetteer(g), NEW norm \in Normalised
  PROVE  \E f : Scan(f, norm, g)
<1>. DEFINE O == Occurrences(norm, g)
            n == Cardinality(O)
            seq == Scanned(norm, g)
            A == SUBSET O
            step == [a \in (1..n) \X A |-> Take(g, a[2], seq[a[1]])]
            IsIter(h) == h = [s \in SUBSET DOMAIN seq |-> IF s = {} THEN {}
                                ELSE Take(g, h[s \ {LastOf(s)}], seq[LastOf(s)])]
            iter == CHOOSE h : IsIter(h)
<1>1. n \in Nat /\ DOMAIN seq = 1..n /\ \A k \in 1..n : seq[k] \in O
  BY ScannedSpec DEF Sorted
<1>2. Taken(norm, g) = iter[1..n]
  BY <1>1 DEF Taken, Seqs!FoldLeft, Seqs!MapThenFoldSet, Seqs!Max, LastOf
<1>. HIDE DEF O, n, seq, iter
<1>3. \A k \in 1..n, x \in A : Take(g, x, seq[k]) \in A
  BY <1>1 DEF Take
<1>4. step \in [(1..n) \X A -> A] /\ {} \in A
  BY <1>3
<1>5. \A k \in 1..n, x \in A : step[<<k, x>>] = Take(g, x, seq[k])
  OBVIOUS
<1>. HIDE DEF step, A
<1>6. \E h : IsIter(h)
  <2>1. PICK h : IsIteration(h, {}, step, A, n)
    BY <1>1, <1>4, FoldIter
  <2>2. \A s \in SUBSET (1..n) : h[s] = IF s = {} THEN {} ELSE Take(g, h[s \ {LastOf(s)}], seq[LastOf(s)])
    BY <1>1, <1>5, <2>1, LastOfPart DEF IsIteration, Iterates
  <2>3. h = [s \in SUBSET DOMAIN seq |-> h[s]]
    BY <1>1, <2>1 DEF IsIteration
  <2>4. IsIter(h)
    BY <1>1, <2>2, <2>3
  <2>. HIDE DEF IsIter
  <2>. QED BY <2>4
<1>7. IsIter(iter)
  BY <1>6 DEF iter
<1>8. iter[{}] = {}
  BY <1>1, <1>7
<1>9. \A s \in SUBSET (1..n) : (s # {} /\ iter[s \ {LastOf(s)}] \in A) =>
         iter[s] = step[<<LastOf(s), iter[s \ {LastOf(s)}]>>]
  <2>. SUFFICES ASSUME NEW s \in SUBSET (1..n), s # {}, iter[s \ {LastOf(s)}] \in A
                PROVE  iter[s] = step[<<LastOf(s), iter[s \ {LastOf(s)}]>>]
    OBVIOUS
  <2>1. LastOf(s) \in 1..n
    BY <1>1, LastOfPart
  <2>2. iter[s] = Take(g, iter[s \ {LastOf(s)}], seq[LastOf(s)])
    BY <1>1, <1>7
  <2>. QED BY <1>5, <2>1, <2>2
<1>10. Iterates(iter, {}, step, A, n)
  BY <1>8, <1>9 DEF Iterates
<1>11. PICK f : IsTraceOf(f, iter, {}, step, A, n)
  BY <1>1, <1>4, <1>10, FoldTrace
<1>12. Scan(f, norm, g)
  BY <1>2, <1>5, <1>11 DEF Scan, IsTraceOf, Steps, A, O, n, seq
<1>. QED BY <1>12
LEMMA ScanGrows ==
  ASSUME NEW g, IsGazetteer(g), NEW norm \in Normalised, NEW f, Scan(f, norm, g)
  PROVE  LET s == Scanned(norm, g)
             n == Cardinality(Occurrences(norm, g))
         IN \A k \in 0..n :
              /\ \A j \in 0..k : f[j] \subseteq f[k]
              /\ \A o \in f[k] : \E j \in 1..k : o = s[j] /\ Span(g, o) \cap Covered(g, f[j - 1]) = {}
<1>. DEFINE s == Scanned(norm, g)
            n == Cardinality(Occurrences(norm, g))
            Grows(k) == \A j \in 0..k : f[j] \subseteq f[k]
            Fits(k) == \A o \in f[k] : \E j \in 1..k : o = s[j] /\ Span(g, o) \cap Covered(g, f[j - 1]) = {}
            Good == {k \in Nat : k <= n => Grows(k) /\ Fits(k)}
<1>1. n \in Nat /\ f[0] = {} /\ \A k \in 1..n : f[k] = Take(g, f[k - 1], s[k])
  BY ScannedSpec DEF Scan
<1>. HIDE DEF s, n
<1>2. 0 \in Good
  <2>1. \A j \in 0..0 : j = 0
    OBVIOUS
  <2>. QED BY <1>1, <2>1
<1>3. ASSUME NEW k \in Nat, k \in Good PROVE k + 1 \in Good
  <2>. SUFFICES ASSUME k + 1 <= n PROVE Grows(k + 1) /\ Fits(k + 1)
    OBVIOUS
  <2>1. Grows(k) /\ Fits(k) /\ k + 1 \in 1..n /\ (k + 1) - 1 = k
    BY <1>1, <1>3
  <2>2. f[k + 1] = IF Span(g, s[k + 1]) \cap Covered(g, f[k]) = {} THEN f[k] \cup {s[k + 1]} ELSE f[k]
    BY <1>1, <2>1 DEF Take
  <2>3. f[k] \subseteq f[k + 1]
    BY <2>2
  <2>4. Grows(k + 1)
    <3>1. ASSUME NEW j \in 0..(k + 1) PROVE j \in 0..k \/ j = k + 1
      OBVIOUS
    <3>. QED BY <2>1, <2>3, <3>1
  <2>5. Fits(k + 1)
    <3>. SUFFICES ASSUME NEW o \in f[k + 1]
                  PROVE  \E j \in 1..(k + 1) : o = s[j] /\ Span(g, o) \cap Covered(g, f[j - 1]) = {}
      OBVIOUS
    <3>1. CASE o \in f[k]
      <4>1. PICK j \in 1..k : o = s[j] /\ Span(g, o) \cap Covered(g, f[j - 1]) = {}
        BY <2>1, <3>1
      <4>2. j \in 1..(k + 1)
        OBVIOUS
      <4>. QED BY <4>1, <4>2
    <3>2. CASE o \notin f[k]
      <4>1. o = s[k + 1] /\ Span(g, o) \cap Covered(g, f[k]) = {}
        BY <2>2, <3>2
      <4>2. k + 1 \in 1..(k + 1)
        OBVIOUS
      <4>. QED BY <2>1, <4>1, <4>2
    <3>. QED BY <3>1, <3>2
  <2>. QED BY <2>4, <2>5
<1>. HIDE DEF Good
<1>4. \A k \in Nat : k \in Good
  BY <1>2, <1>3, NatInduct
<1>5. \A k \in 0..n : Grows(k) /\ Fits(k)
  BY <1>1, <1>4 DEF Good
<1>. QED BY <1>5 DEF s, n

(* What the scan takes keeps apart from every name plainly there.          *)
LEMMA TakenIsApart ==
  ASSUME NEW g, IsGazetteer(g), NEW norm \in Normalised,
         NEW o \in Taken(norm, g), NEW p \in Plain(norm, g), Span(g, o) \cap Span(g, p) # {}
  PROVE  o \in Occurrences(norm, g) /\ Span(g, o) = Span(g, p)
<1>. DEFINE O == Occurrences(norm, g)
            s == Scanned(norm, g)
            n == Cardinality(O)
            size(x) == Length(g[x[1]].surface)
<1>1. PICK f : Scan(f, norm, g)
  BY TakenSpec
<1>2. /\ n \in Nat /\ f \in [0..n -> SUBSET O] /\ f[n] = Taken(norm, g)
      /\ \A k \in 1..n : f[k] = Take(g, f[k - 1], s[k])
  BY <1>1, ScannedSpec DEF Scan
<1>3. /\ \A k \in 0..n, j \in 0..n : j <= k => f[j] \subseteq f[k]
      /\ \A k \in 0..n : \A x \in f[k] : \E j \in 1..k : x = s[j] /\ Span(g, x) \cap Covered(g, f[j - 1]) = {}
  <2>1. \A k \in 0..n, j \in 0..n : j <= k => j \in 0..k
    BY <1>2
  <2>2. \A k \in 0..n :
          /\ \A j \in 0..k : f[j] \subseteq f[k]
          /\ \A x \in f[k] : \E j \in 1..k : x = s[j] /\ Span(g, x) \cap Covered(g, f[j - 1]) = {}
    BY <1>1, ScanGrows
  <2>. HIDE DEF n, s
  <2>. QED BY <2>1, <2>2
<1>4. o \in O /\ p \in O
  BY <1>2 DEF Plain
<1>5. \A x \in O : size(x) \in Nat
  <2>1. \A i \in DOMAIN g : Length(g[i].surface) \in Nat
    BY LengthType DEF IsGazetteer
  <2>. QED BY <2>1 DEF Occurrences
<1>6. \A x \in O : Span(g, x) \cap Span(g, p) # {} /\ Span(g, x) # Span(g, p) => size(x) < size(p)
  BY DEF Plain
<1>7. /\ \A x \in O : \E k \in 1..n : s[k] = x
      /\ \A j, k \in 1..n : <<s[j], s[k]>> \in ScanOrder(norm, g) <=> j < k
      /\ \A k \in 1..n : s[k] \in O
  BY ScannedSpec DEF Sorted
<1>8. \A x, y \in O : <<x, y>> \in ScanOrder(norm, g) => size(x) >= size(y)
  BY <1>5 DEF ScanOrder, Ahead
<1>9. \A x, y \in O : size(x) > size(y) => <<x, y>> \in ScanOrder(norm, g)
  BY DEF ScanOrder, Ahead
<1>. SUFFICES ASSUME Span(g, o) # Span(g, p) PROVE FALSE
  BY <1>4
<1>. HIDE DEF O, s, n, size
<1>10. PICK j \in 1..n : o = s[j] /\ Span(g, o) \cap Covered(g, f[j - 1]) = {}
  BY <1>2, <1>3
<1>11. PICK i \in 1..n : p = s[i]
  BY <1>4, <1>7
<1>12. i < j
  BY <1>4, <1>5, <1>6, <1>7, <1>9, <1>10, <1>11
<1>13. i \in 0..n /\ i - 1 \in 0..n /\ j - 1 \in 0..n /\ i <= j - 1 /\ i - 1 <= j - 1
  BY <1>2, <1>12
<1>14. f[i] \subseteq f[j - 1] /\ f[i - 1] \subseteq f[j - 1]
  BY <1>3, <1>13
<1>15. \A x \in f[j - 1] : Span(g, o) \cap Span(g, x) = {}
  BY <1>10 DEF Covered
<1>16. CASE Span(g, p) \cap Covered(g, f[i - 1]) = {}
  <2>1. p \in f[i]
    BY <1>2, <1>11, <1>16 DEF Take
  <2>. QED BY <1>14, <1>15, <2>1
<1>17. CASE Span(g, p) \cap Covered(g, f[i - 1]) # {}
  <2>1. PICK x \in f[i - 1] : Span(g, p) \cap Span(g, x) # {}
    BY <1>17 DEF Covered
  <2>2. PICK h \in 1..(i - 1) : x = s[h]
    BY <1>3, <1>13
  <2>3. h \in 1..n /\ h < i /\ x \in O
    BY <1>2, <1>7, <2>2
  <2>4. size(x) >= size(p)
    BY <1>4, <1>7, <1>8, <1>11, <2>2, <2>3
  <2>5. Span(g, x) = Span(g, p)
    BY <1>4, <1>5, <1>6, <2>1, <2>3, <2>4
  <2>. QED BY <1>14, <1>15, <2>5
<1>. QED BY <1>16, <1>17
LEMMA MatchesAreEntries ==
  ASSUME NEW g, NEW kind, NEW name
  PROVE  Matches(g, kind, name) \in SUBSET DOMAIN g
BY DEF Matches

LEMMA NerSpec ==
  ASSUME NEW g, IsGazetteer(g), NEW text \in DOMAIN Entities, NEW found
  PROVE  /\ \A m \in NerPass(text, g, found) :
              m \in found \/ \E i \in DOMAIN g : m.kind = g[i].kind /\ m.id = g[i].id
         /\ Entities[text] = <<>> => NerPass(text, g, found) = found
<1>. DEFINE ents == Entities[text]
            n == Len(ents)
            M == {Mention(ents[k].from..ents[k].to, g[i]) : k \in 1..n, i \in DOMAIN g}
            A == SUBSET (found \cup M)
            step == [a \in (1..n) \X A |-> Tag(text, g, a[2], ents[a[1]])]
            IsIter(h) == h = [s \in SUBSET DOMAIN ents |-> IF s = {} THEN found
                                ELSE Tag(text, g, h[s \ {LastOf(s)}], ents[LastOf(s)])]
            iter == CHOOSE h : IsIter(h)
<1>1. n \in Nat /\ DOMAIN ents = 1..n
  BY ResolverAssumption
<1>2. NerPass(text, g, found) = iter[1..n]
  BY <1>1 DEF NerPass, Seqs!FoldLeft, Seqs!MapThenFoldSet, Seqs!Max, LastOf
<1>3. \A m \in M : \E i \in DOMAIN g : m.kind = g[i].kind /\ m.id = g[i].id
  BY DEF Mention
<1>4. n = 0 <=> ents = <<>>
  <2>1. ents \in Seq([from : Nat, to : Nat, kind : {"candidate", "party"}])
    BY ResolverAssumption
  <2>. HIDE DEF ents
  <2>. QED BY <2>1
<1>5. \A k \in 1..n, i \in DOMAIN g : Mention(ents[k].from..ents[k].to, g[i]) \in M
  OBVIOUS
<1>. HIDE DEF ents, n, iter, M
<1>6. ASSUME NEW k \in 1..n, NEW x \in A PROVE Tag(text, g, x, ents[k]) \in A
  <2>. DEFINE matches == Matches(g, ents[k].kind, Normalize(SubSeq(text, ents[k].from, ents[k].to)))
              tagged == Mention(ents[k].from..ents[k].to, g[Foremost(g, matches)])
  <2>1. matches # {} => tagged \in M
    <3>1. matches \in SUBSET DOMAIN g
      BY MatchesAreEntries
    <3>2. matches # {} => Foremost(g, matches) \in matches
      <4>. HIDE DEF matches
      <4>. QED BY <3>1, ForemostIsOne
    <3>. HIDE DEF matches
    <3>. QED BY <1>5, <3>1, <3>2
  <2>2. Tag(text, g, x, ents[k]) = x \/ (matches # {} /\ Tag(text, g, x, ents[k]) = x \cup {tagged})
    BY DEF Tag
  <2>. HIDE DEF matches, tagged
  <2>. QED BY <2>1, <2>2
<1>7. step \in [(1..n) \X A -> A] /\ found \in A
  <2>1. \A k \in 1..n, x \in A : Tag(text, g, x, ents[k]) \in A
    BY <1>6
  <2>. HIDE DEF A
  <2>2. step \in [(1..n) \X A -> A]
    BY <2>1
  <2>. QED BY <2>2 DEF A
<1>8. \A k \in 1..n, x \in A : step[<<k, x>>] = Tag(text, g, x, ents[k])
  OBVIOUS
<1>. HIDE DEF step, A
<1>9. \E h : IsIter(h)
  <2>1. PICK h : IsIteration(h, found, step, A, n)
    BY <1>1, <1>7, FoldIter
  <2>2. \A s \in SUBSET (1..n) : h[s] = IF s = {} THEN found ELSE Tag(text, g, h[s \ {LastOf(s)}], ents[LastOf(s)])
    BY <1>1, <1>8, <2>1, LastOfPart DEF IsIteration, Iterates
  <2>3. h = [s \in SUBSET DOMAIN ents |-> h[s]]
    BY <1>1, <2>1 DEF IsIteration
  <2>4. IsIter(h)
    BY <1>1, <2>2, <2>3
  <2>. HIDE DEF IsIter
  <2>. QED BY <2>4
<1>10. IsIter(iter)
  BY <1>9 DEF iter
<1>11. iter[{}] = found
  BY <1>1, <1>10
<1>12. \A s \in SUBSET (1..n) : (s # {} /\ iter[s \ {LastOf(s)}] \in A) =>
         iter[s] = step[<<LastOf(s), iter[s \ {LastOf(s)}]>>]
  <2>. SUFFICES ASSUME NEW s \in SUBSET (1..n), s # {}, iter[s \ {LastOf(s)}] \in A
                PROVE  iter[s] = step[<<LastOf(s), iter[s \ {LastOf(s)}]>>]
    OBVIOUS
  <2>1. LastOf(s) \in 1..n
    BY <1>1, LastOfPart
  <2>2. iter[s] = Tag(text, g, iter[s \ {LastOf(s)}], ents[LastOf(s)])
    BY <1>1, <1>10
  <2>. QED BY <1>8, <2>1, <2>2
<1>13. Iterates(iter, found, step, A, n)
  BY <1>11, <1>12 DEF Iterates
<1>14. PICK f : IsTraceOf(f, iter, found, step, A, n)
  BY <1>1, <1>7, <1>13, FoldTrace
<1>15. f[n] \in A /\ f[0] = found /\ f[n] = NerPass(text, g, found)
  BY <1>1, <1>2, <1>14 DEF IsTraceOf, Steps
<1>16. \A m \in f[n] : m \in found \/ m \in M
  BY <1>15 DEF A
<1>. QED BY <1>3, <1>4, <1>15, <1>16 DEF ents

(* What the resolver names, and why.                                       *)
LEMMA SubjectsSpec ==
  ASSUME NEW g, IsGazetteer(g), NEW text \in DOMAIN Entities, NEW cycle,
         NEW subject \in Subjects(text, g, cycle)
  PROVE  /\ IsNamed(subject, text, g)
         /\ \/ \E i \in DOMAIN g : subject = [kind |-> g[i].kind, id |-> g[i].id]
            \/ \E p \in DOMAIN cycle : subject = [kind |-> "candidate", id |-> cycle[p]]
<1>. DEFINE norm == Normalize(text)
            found == GazetteerPass(norm, g)
<1>1. norm \in Normalised
  BY NormalizeSpec, ResolverAssumption
<1>2. PICK m \in NerPass(text, g, found) \cup TriggerPass(text, norm, g, cycle) :
         subject = [kind |-> m.kind, id |-> m.id]
  BY DEF Subjects, Resolve
<1>3. ASSUME m \in found
      PROVE  \E o \in Taken(norm, g) : /\ o \in Occurrences(norm, g) /\ o[1] \in DOMAIN g
                                       /\ subject = [kind |-> g[o[1]].kind, id |-> g[o[1]].id]
  <2>1. PICK o \in Taken(norm, g) : m = Mention(Span(g, o), g[o[1]])
    BY <1>3 DEF GazetteerPass
  <2>2. o \in Occurrences(norm, g)
    <3>1. PICK f : Scan(f, norm, g)
      BY <1>1, TakenSpec
    <3>2. Cardinality(Occurrences(norm, g)) \in Nat
      BY <1>1, ScannedSpec
    <3>3. Taken(norm, g) \in SUBSET Occurrences(norm, g)
      BY <3>1, <3>2 DEF Scan
    <3>. QED BY <3>3
  <2>3. m.kind = g[o[1]].kind /\ m.id = g[o[1]].id
    BY <2>1 DEF Mention
  <2>4. o[1] \in DOMAIN g
    BY <2>2 DEF Occurrences
  <2>. QED BY <1>2, <2>2, <2>3, <2>4
<1>4. ASSUME m \in TriggerPass(text, norm, g, cycle)
      PROVE  /\ subject.kind = "candidate" /\ \E k \in DOMAIN text : text[k] = Trigger
             /\ \E p \in DOMAIN cycle : subject = [kind |-> "candidate", id |-> cycle[p]]
  <2>1. /\ m.kind = "candidate" /\ \E p \in DOMAIN cycle : m.id = cycle[p]
        /\ \E k \in DOMAIN text : text[k] = Trigger
    <3>1. PICK i \in DOMAIN text :
            /\ text[i] = Trigger /\ PartyAt(norm, g, i).id \in DOMAIN cycle
            /\ m = [span |-> i..(i + Len(PartyAt(norm, g, i).surface)), kind |-> "candidate",
                    id |-> cycle[PartyAt(norm, g, i).id]]
      BY <1>4 DEF TriggerPass
    <3>. QED BY <3>1
  <2>. QED BY <1>2, <2>1
<1>. HIDE DEF norm, found
<1>5. CASE m \in found
  <2>1. PICK o \in Taken(norm, g) : /\ o \in Occurrences(norm, g) /\ o[1] \in DOMAIN g
                                    /\ subject = [kind |-> g[o[1]].kind, id |-> g[o[1]].id]
    BY <1>3, <1>5
  <2>2. \A p \in Plain(norm, g) : Span(g, o) \cap Span(g, p) # {} => Span(g, o) = Span(g, p)
    BY <1>1, TakenIsApart
  <2>3. IsNamed(subject, text, g)
    BY <2>1, <2>2 DEF IsNamed, norm
  <2>. QED BY <2>1, <2>3
<1>6. CASE m \in TriggerPass(text, norm, g, cycle)
  BY <1>4, <1>6 DEF IsNamed
<1>7. CASE m \in NerPass(text, g, found) /\ m \notin found
  <2>1. PICK i \in DOMAIN g : m.kind = g[i].kind /\ m.id = g[i].id
    BY <1>7, NerSpec
  <2>2. Entities[text] # <<>>
    BY <1>7, NerSpec
  <2>. QED BY <1>2, <2>1, <2>2 DEF IsNamed
<1>. QED BY <1>2, <1>5, <1>6, <1>7

(* The resolver that a run builds.                                         *)
NamedEntry(kind, ids) == [surface : Normalised, kind : {kind}, id : ids]
IsTable(table, ids) == IsFiniteSet(table) /\ \A x \in table : x[1] \in ids /\ x[2] \in Text

LEMMA EntriesSpec ==
  ASSUME NEW kind, NEW ids, NEW table, IsTable(table, ids)
  PROVE  EntriesOf(kind, table) \in Seq(NamedEntry(kind, ids))
<1>. DEFINE n == Cardinality(table)
            q == Seqs!SetToSeq(table)
<1>1. n \in Nat /\ q \in [1..n -> table]
  BY Listing DEF IsTable
<1>2. EntriesOf(kind, table) = [k \in DOMAIN q |-> GazetteerEntry(q[k][2], kind, q[k][1])]
  BY DEF EntriesOf
<1>. HIDE DEF n, q
<1>3. ASSUME NEW k \in 1..n PROVE GazetteerEntry(q[k][2], kind, q[k][1]) \in NamedEntry(kind, ids)
  <2>1. q[k][1] \in ids /\ q[k][2] \in Text
    BY <1>1 DEF IsTable
  <2>2. Normalize(q[k][2]) \in Normalised
    BY <2>1, NormalizeSpec
  <2>. QED BY <2>1, <2>2 DEF GazetteerEntry, NamedEntry
<1>4. EntriesOf(kind, table) = [k \in 1..n |-> GazetteerEntry(q[k][2], kind, q[k][1])]
  BY <1>1, <1>2
<1>. HIDE DEF NamedEntry
<1>5. EntriesOf(kind, table) \in [1..n -> NamedEntry(kind, ids)]
  BY <1>3, <1>4
<1>. QED BY <1>1, <1>5

(* The tables of the names and of the aliases of some rows, each of which  *)
(* has an id and is known by a name.                                       *)
NameTable(S, id, name) == {<<id[x], Surface[name[x]]>> : x \in S}
AliasTable(S, id, name) == UNION {{<<id[x], a>> : a \in Aliases[name[x]]} : x \in S}

LEMMA TablesSpec ==
  ASSUME NEW S, IsFiniteSet(S), NEW id, DOMAIN id = S, NEW name, DOMAIN name = S,
         NEW ids, \A x \in S : name[x] \in DOMAIN Surface /\ id[x] \in ids
  PROVE  IsTable(NameTable(S, id, name), ids) /\ IsTable(AliasTable(S, id, name), ids)
<1>. DEFINE Row(x) == <<id[x], Surface[name[x]]>>
            AliasRows(x) == {<<id[x], a>> : a \in Aliases[name[x]]}
<1>1. \A x \in S : /\ id[x] \in ids
                   /\ Surface[name[x]] \in Text /\ IsFiniteSet(Aliases[name[x]]) /\ \A a \in Aliases[name[x]] : a \in Text
  BY NamesAssumption
<1>2. IsFiniteSet({Row(x) : x \in S})
  <2>. DEFINE f == [x \in S |-> Row(x)]
  <2>1. {Row(x) : x \in S} = {f[x] : x \in DOMAIN f}
    OBVIOUS
  <2>2. DOMAIN f = S
    OBVIOUS
  <2>. HIDE DEF f
  <2>. QED BY <2>1, <2>2, FiniteRange
<1>3. \A y \in {Row(x) : x \in S} : y[1] \in ids /\ y[2] \in Text
  BY <1>1
<1>4. ASSUME NEW x \in S PROVE IsFiniteSet(AliasRows(x))
  <2>. DEFINE f == [a \in Aliases[name[x]] |-> <<id[x], a>>]
  <2>1. AliasRows(x) = {f[a] : a \in DOMAIN f}
    OBVIOUS
  <2>2. DOMAIN f = Aliases[name[x]]
    OBVIOUS
  <2>. HIDE DEF f
  <2>. QED BY <1>1, <2>1, <2>2, FiniteRange
<1>5. IsFiniteSet({AliasRows(x) : x \in S})
  <2>. DEFINE f == [x \in S |-> AliasRows(x)]
  <2>1. {AliasRows(x) : x \in S} = {f[x] : x \in DOMAIN f}
    OBVIOUS
  <2>2. DOMAIN f = S
    OBVIOUS
  <2>. HIDE DEF f
  <2>. QED BY <2>1, <2>2, FiniteRange
<1>6. IsFiniteSet(UNION {AliasRows(x) : x \in S})
  BY <1>4, <1>5, FS_UNION
<1>7. \A y \in UNION {AliasRows(x) : x \in S} : y[1] \in ids /\ y[2] \in Text
  BY <1>1
<1>8. IsTable(NameTable(S, id, name), ids)
  BY <1>2, <1>3 DEF IsTable, NameTable
<1>9. IsTable(AliasTable(S, id, name), ids)
  BY <1>6, <1>7 DEF IsTable, AliasTable
<1>. QED BY <1>8, <1>9

CandidateIds == {c.id : c \in candidates}
NamedEntries == NamedEntry("candidate", CandidateIds) \cup NamedEntry("party", parties)

(* What a resolver is built from has surfaces.                             *)
Catalogue ==
  /\ IsFiniteSet(candidates) /\ IsFiniteSet(parties)
  /\ \A c \in candidates : c.name \in DOMAIN Surface /\ c.id \in Nat
  /\ \A p \in parties : p \in DOMAIN Surface

(* A resolver knows committed candidates and parties only.                 *)
IsResolver(g) ==
  /\ g.entries \in Seq(NamedEntries)
  /\ \A p \in DOMAIN g.cycle : g.cycle[p] \in CandidateIds

LEMMA ResolversAreGazetteers ==
  ASSUME NEW g, IsResolver(g)
  PROVE  IsGazetteer(g.entries)
<1>1. \A e \in NamedEntries : e.surface \in Normalised
  BY DEF NamedEntries, NamedEntry
<1>2. g.entries \in Seq(NamedEntries)
  BY DEF IsResolver
<1>. HIDE DEF NamedEntries
<1>. QED BY <1>1, <1>2 DEF IsGazetteer

LEMMA ResolverSpec ==
  ASSUME Catalogue
  PROVE  IsResolver(ResolverNow)
<1>. DEFINE id == [c \in candidates |-> c.id]
            name == [c \in candidates |-> c.name]
            itself == [p \in parties |-> p]
            E1 == EntriesOf("candidate", {<<c.id, Surface[c.name]>> : c \in candidates})
            E2 == EntriesOf("candidate", UNION {{<<c.id, a>> : a \in Aliases[c.name]} : c \in candidates})
            E3 == EntriesOf("party", {<<p, Surface[p]>> : p \in parties})
            E4 == EntriesOf("party", UNION {{<<p, a>> : a \in Aliases[p]} : p \in parties})
<1>1. E1 \in Seq(NamedEntry("candidate", CandidateIds)) /\ E2 \in Seq(NamedEntry("candidate", CandidateIds))
  <2>1. /\ IsFiniteSet(candidates) /\ DOMAIN id = candidates /\ DOMAIN name = candidates
        /\ \A c \in candidates : id[c] = c.id /\ name[c] = c.name /\ name[c] \in DOMAIN Surface /\ id[c] \in CandidateIds
    BY DEF Catalogue, CandidateIds
  <2>. HIDE DEF id, name
  <2>2. NameTable(candidates, id, name) = {<<c.id, Surface[c.name]>> : c \in candidates}
    BY <2>1 DEF NameTable
  <2>3. AliasTable(candidates, id, name) = UNION {{<<c.id, a>> : a \in Aliases[c.name]} : c \in candidates}
    <3>1. \A c \in candidates : {<<id[c], a>> : a \in Aliases[name[c]]} = {<<c.id, a>> : a \in Aliases[c.name]}
      BY <2>1
    <3>. QED BY <3>1 DEF AliasTable
  <2>4. IsTable(NameTable(candidates, id, name), CandidateIds) /\ IsTable(AliasTable(candidates, id, name), CandidateIds)
    BY <2>1, TablesSpec
  <2>. QED BY <2>2, <2>3, <2>4, EntriesSpec
<1>2. E3 \in Seq(NamedEntry("party", parties)) /\ E4 \in Seq(NamedEntry("party", parties))
  <2>1. /\ IsFiniteSet(parties) /\ DOMAIN itself = parties
        /\ \A p \in parties : itself[p] = p /\ itself[p] \in DOMAIN Surface /\ itself[p] \in parties
    BY DEF Catalogue
  <2>. HIDE DEF itself
  <2>2. NameTable(parties, itself, itself) = {<<p, Surface[p]>> : p \in parties}
    BY <2>1 DEF NameTable
  <2>3. AliasTable(parties, itself, itself) = UNION {{<<p, a>> : a \in Aliases[p]} : p \in parties}
    <3>1. \A p \in parties : {<<itself[p], a>> : a \in Aliases[itself[p]]} = {<<p, a>> : a \in Aliases[p]}
      BY <2>1
    <3>. QED BY <3>1 DEF AliasTable
  <2>4. IsTable(NameTable(parties, itself, itself), parties) /\ IsTable(AliasTable(parties, itself, itself), parties)
    BY <2>1, TablesSpec
  <2>. QED BY <2>2, <2>3, <2>4, EntriesSpec
<1>3. ResolverNow.entries = E1 \o E2 \o E3 \o E4
  BY DEF ResolverNow
<1>4. E1 \o E2 \o E3 \o E4 \in Seq(NamedEntries)
  <2>. HIDE DEF E1, E2, E3, E4
  <2>. DEFINE A == NamedEntry("candidate", CandidateIds)
              B == NamedEntry("party", parties)
  <2>1. NamedEntries = A \cup B
    BY DEF NamedEntries
  <2>2. E1 \in Seq(A) /\ E2 \in Seq(A) /\ E3 \in Seq(B) /\ E4 \in Seq(B)
    BY <1>1, <1>2
  <2>. HIDE DEF A, B
  <2>3. E1 \in Seq(A \cup B) /\ E2 \in Seq(A \cup B) /\ E3 \in Seq(A \cup B) /\ E4 \in Seq(A \cup B)
    BY <2>2
  <2>4. E1 \o E2 \in Seq(A \cup B)
    BY <2>3
  <2>5. (E1 \o E2) \o E3 \in Seq(A \cup B)
    BY <2>3, <2>4
  <2>6. ((E1 \o E2) \o E3) \o E4 \in Seq(A \cup B)
    BY <2>3, <2>5
  <2>. QED BY <2>1, <2>6
<1>5. ASSUME NEW p \in DOMAIN ResolverNow.cycle PROVE ResolverNow.cycle[p] \in CandidateIds
  <2>. DEFINE Ids(code) == {c.id : c \in {x \in candidates : x.name = CycleOf[code]}}
  <2>1. Ids(p) # {} /\ ResolverNow.cycle[p] = Sets!Min(Ids(p))
    BY <1>5 DEF ResolverNow
  <2>2. Ids(p) \subseteq CandidateIds /\ Ids(p) \subseteq Nat
    BY DEF CandidateIds, Catalogue
  <2>. HIDE DEF Ids
  <2>3. Sets!Min(Ids(p)) = CHOOSE x \in Ids(p) : \A y \in Ids(p) : x <= y
    BY DEF Sets!Min
  <2>4. \E x \in Ids(p) : \A y \in Ids(p) : x <= y
    BY <2>1, <2>2, NatLeast
  <2>. QED BY <2>1, <2>2, <2>3, <2>4
<1>. QED BY <1>3, <1>4, <1>5 DEF IsResolver

-----------------------------------------------------------------------------
(* The subjects of the rows.                                               *)

(* A row is of a sentence and of a subject that its run finds there.       *)
IsReading(s) ==
  /\ s.by \in Scorers
  /\ s.doc \in documents /\ s.at \in DOMAIN Sentences[s.doc]
  /\ s.subject \in SubjectsOf(s.by, Sentences[s.doc][s.at])

Work ==
  /\ documents \subseteq Documents
  /\ \A r \in Scorers :
       /\ todo[r] \subseteq documents /\ scored[r] \subseteq documents /\ todo[r] \cap scored[r] = {}
       /\ stage[r] = "articles" => scored[r] \cup todo[r] \subseteq Articles
  /\ \A r, q \in Scorers : stage[r] = "refreshing" /\ stage[q] = "refreshing" => r = q

Readings ==
  /\ \A r \in Scorers : IsResolver(gazetteer[r])
  /\ \A s \in scores : IsReading(s)
  /\ \A r \in Scorers : \A s \in own[r] : IsReading(s)

SubjectInv == Catalogue /\ Work /\ Readings

LEMMA InitSubject == Init => SubjectInv
<1>. SUFFICES ASSUME Init PROVE SubjectInv
  OBVIOUS
<1>1. Catalogue
  BY FS_EmptySet DEF Init, LoadInit, Catalogue
<1>2. Work
  BY DEF Init, ScoringInit, Work, Documents
<1>3. \A r \in Scorers : gazetteer[r] = [entries |-> <<>>, cycle |-> <<>>] /\ own[r] = {}
  BY DEF Init, ScoringInit
<1>4. scores = {}
  BY DEF Init, ScoringInit
<1>5. IsResolver([entries |-> <<>>, cycle |-> <<>>])
  BY DEF IsResolver
<1>. QED BY <1>1, <1>2, <1>3, <1>4, <1>5 DEF SubjectInv, Readings

(* Only a commit adds to the tables that a resolver is built from.         *)
LEMMA CatalogueGrows ==
  ASSUME LoadInv, Catalogue, [Next]_vars
  PROVE  Catalogue' /\ candidates \subseteq candidates' /\ parties \subseteq parties'
<1>1. ASSUME candidates' = candidates, parties' = parties
      PROVE  Catalogue' /\ candidates \subseteq candidates' /\ parties \subseteq parties'
  BY <1>1 DEF Catalogue
<1>2. ASSUME NEW s \in Sources, Commit(s)
      PROVE  Catalogue' /\ candidates \subseteq candidates' /\ parties \subseteq parties'
  <2>. DEFINE rows == file[s].rows
  <2>1. candidates' = candidates \cup Inserted(s) /\ parties' = parties \cup PartiesOf(s)
    BY <1>2 DEF Commit
  <2>2. IsFiniteSet(DOMAIN chosen[s]) /\ IsFiniteSet(DOMAIN rows)
    <3>1. chosen[s] \in Seq(Nat)
      BY DEF LoadInv, LoadTypes
    <3>2. DOMAIN chosen[s] = 1..Len(chosen[s]) /\ Len(chosen[s]) \in Nat
      BY <3>1
    <3>3. DOMAIN rows = 1..Len(rows) /\ Len(rows) \in Nat
      BY <1>2, CommitFile
    <3>4. IsFiniteSet(DOMAIN chosen[s])
      BY <3>2, FS_Interval
    <3>. HIDE DEF rows
    <3>5. IsFiniteSet(DOMAIN rows)
      BY <3>3, FS_Interval
    <3>. QED BY <3>4, <3>5
  <2>3. IsFiniteSet(Inserted(s))
    <3>. DEFINE f == [k \in DOMAIN chosen[s] |-> [id |-> chosen[s][k], name |-> Lookups(s)[k]]]
    <3>1. DOMAIN f = DOMAIN chosen[s] /\ Inserted(s) = {f[k] : k \in DOMAIN f}
      BY DEF Inserted
    <3>. HIDE DEF f
    <3>. QED BY <2>2, <3>1, FiniteRange
  <2>4. IsFiniteSet(PartiesOf(s))
    <3>. DEFINE f == [i \in DOMAIN rows |-> rows[i].party]
    <3>1. DOMAIN f = DOMAIN rows /\ PartiesOf(s) \subseteq {f[i] : i \in DOMAIN f}
      BY DEF PartiesOf
    <3>. HIDE DEF f
    <3>2. IsFiniteSet({f[i] : i \in DOMAIN f})
      BY <2>2, <3>1, FiniteRange
    <3>. QED BY <3>1, <3>2, FS_Subset
  <2>5. \A i \in DOMAIN rows : rows[i].name \in DOMAIN Surface /\ rows[i].party \in DOMAIN Surface \cup {"none"}
    <3>1. file[s] \in Files[s]
      BY <1>2, CommitFile
    <3>. QED BY <3>1, NamesAssumption
  <2>6. \A c \in Inserted(s) : c.name \in DOMAIN Surface /\ c.id \in Nat
    <3>1. \A c \in Inserted(s) : c \in Known
      BY KnownRow
    <3>2. lastId \in Nat /\ \A c \in Inserted(s) : c.id \in 1..lastId
      BY <3>1 DEF LoadInv, LoadTypes, Identities
    <3>3. \A c \in Inserted(s) : \E i \in DOMAIN rows : c = Entry(s, i)
      BY <1>2, CommitEntries
    <3>. QED BY <2>5, <3>2, <3>3 DEF Entry
  <2>7. \A p \in PartiesOf(s) : p \in DOMAIN Surface
    BY <2>5 DEF PartiesOf
  <2>8. IsFiniteSet(candidates') /\ IsFiniteSet(parties')
    BY <2>1, <2>3, <2>4, FS_Union DEF Catalogue
  <2>. QED BY <2>1, <2>6, <2>7, <2>8 DEF Catalogue
<1>3. ASSUME NEW s \in Sources, Load(s) PROVE (candidates' = candidates /\ parties' = parties) \/ Commit(s)
  BY <1>3 DEF Load, Begin, Ensure, StampSuccess, Fail, Rollback, StampFailure, Die
<1>. QED BY <1>1, <1>2, <1>3 DEF Next, Seeder, Seed, Loader, Scorer, Scraper, vars, loadVars

(* Rows stay readings while their runs keep their resolvers.               *)
LEMMA ReadingKeeps ==
  ASSUME NEW s, IsReading(s), documents \subseteq documents', gazetteer'[s.by] = gazetteer[s.by]
  PROVE  IsReading(s)'
BY DEF IsReading, SubjectsOf

LEMMA ResolverKeeps ==
  ASSUME NEW g, IsResolver(g), candidates \subseteq candidates', parties \subseteq parties'
  PROVE  IsResolver(g)'
<1>1. CandidateIds \subseteq CandidateIds'
  BY DEF CandidateIds
<1>2. NamedEntries \subseteq NamedEntries'
  BY <1>1 DEF NamedEntries, NamedEntry
<1>. HIDE DEF NamedEntries, CandidateIds
<1>3. g.entries \in Seq(NamedEntries')
  BY <1>2 DEF IsResolver
<1>. QED BY <1>1, <1>3 DEF IsResolver

LEMMA StepWork ==
  ASSUME ViewInv, ReadingInv, Work, [Next]_vars
  PROVE  Work'
<1>. USE DEF ViewInv, Domains
<1>1. ASSUME NEW r \in Scorers, Start(r, ResolverNow) PROVE Work'
  <2>1. /\ scored[r] = {} /\ Unscored(Articles) \subseteq documents \cap Articles
        /\ UNCHANGED <<documents, scored>>
        /\ stage' = [stage EXCEPT ![r] = "articles"] /\ todo' = [todo EXCEPT ![r] = Unscored(Articles)]
    BY <1>1 DEF Start, ReadingInv, KeysStored, Unscored
  <2>. QED BY <2>1 DEF Work
<1>2. ASSUME NEW r \in Scorers, ReadPosts(r) PROVE Work'
  <2>1. /\ Unscored(Posts) \subseteq documents \cap Posts /\ scored[r] \subseteq Articles
        /\ UNCHANGED <<documents, scored>>
        /\ stage' = [stage EXCEPT ![r] = "posts"] /\ todo' = [todo EXCEPT ![r] = Unscored(Posts)]
    BY <1>2 DEF ReadPosts, Work, Unscored
  <2>2. Articles \cap Posts = {}
    BY ScoringAssumption
  <2>. QED BY <2>1, <2>2 DEF Work
<1>3. ASSUME NEW r \in Scorers, Write(r) PROVE Work'
  <2>1. PICK d \in todo[r] : /\ todo' = [todo EXCEPT ![r] = @ \ {d}]
                             /\ scored' = [scored EXCEPT ![r] = @ \cup {d}]
    BY <1>3 DEF Write
  <2>2. UNCHANGED <<documents, stage>>
    BY <1>3 DEF Write
  <2>. QED BY <2>1, <2>2 DEF Work
<1>4. ASSUME NEW r \in Scorers, RequestRefresh(r) \/ LockGranted(r) PROVE Work'
  <2>1. /\ UNCHANGED <<documents, todo, scored>>
        /\ \/ stage' = [stage EXCEPT ![r] = "waiting"]
           \/ stage' = [stage EXCEPT ![r] = "refreshing"] /\ \A q \in Scorers : stage[q] # "refreshing"
    BY <1>4 DEF RequestRefresh, LockGranted
  <2>. QED BY <2>1 DEF Work
<1>5. ASSUME NEW r \in Scorers, Finish(r) \/ FinishEmpty(r) \/ Abandon(r) PROVE Work'
  <2>1. /\ UNCHANGED <<documents, scored>> /\ (todo' = todo \/ todo' = [todo EXCEPT ![r] = {}])
        /\ (stage' = [stage EXCEPT ![r] = "done"] \/ stage' = [stage EXCEPT ![r] = "failed"])
    BY <1>5 DEF Finish, FinishEmpty, Abandon
  <2>. QED BY <2>1 DEF Work
<1>6. ASSUME NEW d \in Documents, Arrive(d) PROVE Work'
  BY <1>6 DEF Arrive, Work
<1>7. ASSUME UNCHANGED scoringVars PROVE Work'
  BY <1>7 DEF scoringVars, Work
<1>. QED BY <1>1, <1>2, <1>3, <1>4, <1>5, <1>6, <1>7
         DEF Next, Seeder, Loader, Scorer, Scraper, ScoringRun, vars

LEMMA StepReadings ==
  ASSUME ViewInv, LoadInv, SubjectInv, [Next]_vars
  PROVE  Readings'
<1>1. candidates \subseteq candidates' /\ parties \subseteq parties'
  BY CatalogueGrows DEF SubjectInv
<1>2. \A r \in Scorers : IsResolver(gazetteer[r])'
  <2>1. \A r \in Scorers : gazetteer'[r] = gazetteer[r] \/ gazetteer'[r] = ResolverNow
    BY DEF Next, Seeder, Loader, Scorer, Scraper, vars, scoringVars, ScoringRun, Start, Write, ReadPosts,
           RequestRefresh, LockGranted, Finish, FinishEmpty, Abandon, Arrive, ViewInv, Domains
  <2>2. IsResolver(ResolverNow)
    BY ResolverSpec DEF SubjectInv
  <2>3. ASSUME NEW g, IsResolver(g) PROVE IsResolver(g)'
    BY <1>1, <2>3, ResolverKeeps
  <2>. QED BY <2>1, <2>2, <2>3 DEF SubjectInv, Readings
<1>3. \A s : IsReading(s) /\ gazetteer'[s.by] = gazetteer[s.by] => IsReading(s)'
  <2>1. documents \subseteq documents'
    BY DEF Next, Seeder, Loader, Scorer, Scraper, vars, scoringVars, ScoringRun, Start, Write, ReadPosts,
           RequestRefresh, LockGranted, Finish, FinishEmpty, Abandon, Arrive
  <2>. QED BY <2>1, ReadingKeeps
<1>4. \A s \in scores : IsReading(s) /\ s.by \in Scorers /\ stage[s.by] = "done"
  BY DEF SubjectInv, Readings, ViewInv, Ownership
<1>5. \A r \in Scorers : \A s \in own[r] : IsReading(s) /\ s.by = r /\ stage[r] # "idle"
  BY DEF SubjectInv, Readings, ViewInv, Ownership, Active
<1>6. ASSUME UNCHANGED gazetteer PROVE \A s : IsReading(s) => IsReading(s)'
  BY <1>3, <1>6
<1>7. ASSUME NEW r \in Scorers, Start(r, ResolverNow) PROVE Readings'
  <2>1. stage[r] = "idle" /\ \A q \in Scorers : q # r => gazetteer'[q] = gazetteer[q]
    BY <1>7 DEF Start, ViewInv, Domains
  <2>2. UNCHANGED <<scores, own>>
    BY <1>7 DEF Start
  <2>. QED BY <1>2, <1>3, <1>4, <1>5, <2>1, <2>2 DEF Readings
<1>8. ASSUME NEW r \in Scorers, Write(r) PROVE Readings'
  <2>1. PICK d \in todo[r] : own' = [own EXCEPT ![r] = @ \cup {a \in RowsOf(r, d) : \A b \in scores : ~SameKey(a, b)}]
    BY <1>8 DEF Write
  <2>2. UNCHANGED <<scores, gazetteer>>
    BY <1>8 DEF Write
  <2>3. \A a \in RowsOf(r, d) : IsReading(a)
    <3>1. d \in documents
      BY DEF SubjectInv, Work
    <3>. QED BY <3>1, RowsAreReadings DEF IsReading
  <2>4. /\ \A q \in Scorers \ {r} : own'[q] = own[q]
        /\ \A a \in own'[r] : a \in own[r] \/ a \in RowsOf(r, d)
    BY <2>1 DEF ViewInv, Domains
  <2>. QED BY <1>2, <1>4, <1>5, <1>6, <2>2, <2>3, <2>4 DEF Readings
<1>9. ASSUME UNCHANGED gazetteer,
             \A s \in scores' : s \in scores \/ \E r \in Scorers : s \in own[r],
             \A r \in Scorers : own'[r] \subseteq own[r]
      PROVE  Readings'
  BY <1>2, <1>4, <1>5, <1>6, <1>9 DEF Readings
<1>10. ASSUME NEW r \in Scorers,
              ReadPosts(r) \/ RequestRefresh(r) \/ LockGranted(r) \/ Finish(r) \/ FinishEmpty(r) \/ Abandon(r)
       PROVE  Readings'
  BY <1>9, <1>10 DEF ReadPosts, RequestRefresh, LockGranted, Finish, FinishEmpty, Abandon, Undo, ViewInv, Domains
<1>11. ASSUME UNCHANGED scoringVars \/ \E d \in Documents : Arrive(d) PROVE Readings'
  BY <1>9, <1>11 DEF scoringVars, Arrive
<1>. QED BY <1>7, <1>8, <1>10, <1>11 DEF Next, Seeder, Loader, Scorer, Scraper, ScoringRun, vars

LEMMA SubjectInvariance == Spec => []SubjectInv
<1>1. ViewInv /\ ReadingInv /\ LoadInv /\ SubjectInv /\ [Next]_vars => SubjectInv'
  BY CatalogueGrows, StepWork, StepReadings DEF SubjectInv
<1>2. Spec => []ReadingInv
  BY InitReading, StepReading, ViewInvariance, PTL DEF Spec
<1>. QED BY <1>1, <1>2, InitSubject, ViewInvariance, LoadInvariance, PTL DEF Spec

LEMMA ReadingText ==
  ASSUME SubjectInv, NEW s \in scores
  PROVE  Sentences[s.doc][s.at] \in DOMAIN Entities
<1>1. s.doc \in Articles \cup Posts /\ s.at \in DOMAIN Sentences[s.doc]
  BY DEF SubjectInv, Work, Readings, IsReading, Documents
<1>2. Sentences[s.doc] \in Seq(DOMAIN Entities)
  BY <1>1, ScoringAssumption
<1>. QED BY <1>1, <1>2

(* A resolver names what is in the tables.                                 *)
LEMMA NamesCommitted ==
  ASSUME NEW g, IsResolver(g), NEW text \in DOMAIN Entities, NEW subject \in Subjects(text, g.entries, g.cycle)
  PROVE  \/ subject.kind = "party" /\ subject.id \in parties
         \/ subject.kind = "candidate" /\ \E c \in candidates : c.id = subject.id
<1>1. \A e \in NamedEntries : (e.kind = "party" /\ e.id \in parties) \/ (e.kind = "candidate" /\ e.id \in CandidateIds)
  BY DEF NamedEntries, NamedEntry
<1>2. /\ g.entries \in Seq(NamedEntries)
      /\ \A p \in DOMAIN g.cycle : g.cycle[p] \in CandidateIds
  BY DEF IsResolver
<1>3. \A i \in DOMAIN g.entries : g.entries[i] \in NamedEntries
  BY <1>2
<1>4. \/ \E i \in DOMAIN g.entries : subject = [kind |-> g.entries[i].kind, id |-> g.entries[i].id]
      \/ \E p \in DOMAIN g.cycle : subject = [kind |-> "candidate", id |-> g.cycle[p]]
  BY ResolversAreGazetteers, SubjectsSpec
<1>5. (subject.kind = "party" /\ subject.id \in parties) \/ (subject.kind = "candidate" /\ subject.id \in CandidateIds)
  BY <1>1, <1>2, <1>3, <1>4
<1>. QED BY <1>5 DEF CandidateIds

(* Loaders and scoring runs in any interleaving: the rows of both refer to *)
(* what is stored, and a sentence is about a candidate or a party that is  *)
(* in the tables, never of one whose load was rolled back.                 *)
THEOREM TypeCorrect == Spec => []TypeOK
<1>1. ViewInv /\ SubjectInv => ScoringTypeOK
  <2>. SUFFICES ASSUME ViewInv, SubjectInv PROVE ScoringTypeOK
    OBVIOUS
  <2>1. Cardinality({r \in Scorers : stage[r] = "refreshing"}) <= 1
    <3>. DEFINE S == {r \in Scorers : stage[r] = "refreshing"}
    <3>1. \A r, q \in S : r = q
      BY DEF SubjectInv, Work
    <3>2. S = {} \/ \E r : S = {r}
      BY <3>1
    <3>. HIDE DEF S
    <3>3. Cardinality(S) = 0 \/ Cardinality(S) = 1
      BY <3>2, FS_EmptySet, FS_Singleton
    <3>. QED BY <3>3 DEF S
  <2>2. \A s \in scores : s.doc \in documents /\ s.at \in DOMAIN Sentences[s.doc] /\ stage[s.by] = "done"
    BY DEF ViewInv, Ownership, SubjectInv, Readings, IsReading
  <2>. QED BY <2>1, <2>2 DEF ViewInv, Domains, Stages, Ownership, SubjectInv, Work, ScoringTypeOK
<1>2. SubjectInv => \A s \in scores : CASE s.subject.kind = "overall" -> s.subject = Overall
                         [] s.subject.kind = "party" -> s.subject.id \in parties
                         [] s.subject.kind = "candidate" -> \E c \in candidates : c.id = s.subject.id
  <2>. SUFFICES ASSUME SubjectInv, NEW s \in scores
                PROVE  CASE s.subject.kind = "overall" -> s.subject = Overall
                         [] s.subject.kind = "party" -> s.subject.id \in parties
                         [] s.subject.kind = "candidate" -> \E c \in candidates : c.id = s.subject.id
    OBVIOUS
  <2>1. s.subject = Overall \/ s.subject \in Subjects(Sentences[s.doc][s.at], gazetteer[s.by].entries, gazetteer[s.by].cycle)
    BY DEF SubjectInv, Readings, IsReading, SubjectsOf
  <2>2. s.by \in Scorers /\ IsResolver(gazetteer[s.by]) /\ Sentences[s.doc][s.at] \in DOMAIN Entities
    BY ReadingText DEF SubjectInv, Readings, IsReading
  <2>3. \/ s.subject = Overall
        \/ s.subject.kind = "party" /\ s.subject.id \in parties
        \/ s.subject.kind = "candidate" /\ \E c \in candidates : c.id = s.subject.id
    BY <2>1, <2>2, NamesCommitted
  <2>4. CASE s.subject = Overall
    BY <2>4 DEF Overall
  <2>5. CASE s.subject.kind = "party" /\ s.subject.id \in parties
    BY <2>5
  <2>6. CASE s.subject.kind = "candidate" /\ \E c \in candidates : c.id = s.subject.id
    BY <2>6
  <2>. QED BY <2>3, <2>4, <2>5, <2>6
<1>. QED BY <1>1, <1>2, LoadTypeCorrect, ViewInvariance, SubjectInvariance, PTL DEF TypeOK

(* score_source_text on every row that is there: a document is scored      *)
(* whole, by one run or by runs that overlapped and knew different names,  *)
(* and each row is about somebody the sentence names: nobody is found      *)
(* inside a longer name that stands there for itself.                      *)
THEOREM ReadingsHold == Spec => []ReadingsAreTrue
<1>1. SubjectInv => SubjectsAreNamed
  <2>. SUFFICES ASSUME SubjectInv, NEW s \in scores, s.subject # Overall
                PROVE  IsNamed(s.subject, Sentences[s.doc][s.at], gazetteer[s.by].entries)
    BY DEF SubjectsAreNamed
  <2>. DEFINE text == Sentences[s.doc][s.at]
  <2>1. s.subject \in Subjects(text, gazetteer[s.by].entries, gazetteer[s.by].cycle)
    BY DEF SubjectInv, Readings, IsReading, SubjectsOf
  <2>2. text \in DOMAIN Entities
    BY ReadingText
  <2>3. IsGazetteer(gazetteer[s.by].entries)
    BY ResolversAreGazetteers DEF SubjectInv, Readings, IsReading
  <2>. HIDE DEF text
  <2>4. IsNamed(s.subject, text, gazetteer[s.by].entries)
    BY <2>1, <2>2, <2>3, SubjectsSpec
  <2>. QED BY <2>4 DEF text
<1>. QED BY <1>1, ReadingsAreWhole, SubjectInvariance, PTL DEF ReadingsAreTrue

-----------------------------------------------------------------------------
(* The Memoria.                                                            *)
IsList(rows) == \E n \in Nat : DOMAIN rows = 1..n
Arranges(s, rows) ==
  /\ s \in [DOMAIN rows -> DOMAIN rows]
  /\ \A i, k \in DOMAIN rows : s[i] = s[k] => i = k
  /\ \A i \in DOMAIN rows : \E k \in DOMAIN rows : s[k] = i
Grouped(s, rows, cycle) ==
  Arranges(s, rows) /\ Municipal(rows, cycle) = [n \in DOMAIN rows |-> Typed(rows[s[n]], cycle)]

LEMMA MunicipalSpec ==
  ASSUME NEW rows, IsList(rows), NEW cycle
  PROVE  \E s : Grouped(s, rows, cycle)
<1>. DEFINE D == DOMAIN rows
            R == {p \in D \X D : Precedes(rows, p[1], p[2])}
            at(n) == CHOOSE x \in D : Cardinality({y \in D : Precedes(rows, y, x)}) = n - 1
            s == [n \in 1..Cardinality(D) |-> CHOOSE x \in D : Cardinality(Before(R, D, x)) = n - 1]
<1>0. PICK n \in Nat : D = 1..n
  BY DEF IsList
<1>1. IsFiniteSet(D) /\ Cardinality(D) = n
  BY <1>0, FS_Interval
<1>2. ASSUME NEW i \in D PROVE Opening(rows, i) \in Nat
  <2>. DEFINE T == {k \in D : rows[k].municipality = rows[i].municipality}
  <2>1. T \in SUBSET Nat /\ T # {}
    BY <1>0
  <2>2. Opening(rows, i) = CHOOSE x \in T : \A y \in T : x <= y
    BY DEF Opening, Sets!Min
  <2>. HIDE DEF T
  <2>3. \E x \in T : \A y \in T : x <= y
    BY <2>1, NatLeast
  <2>. QED BY <2>1, <2>2, <2>3
<1>3. \A i, k \in D : <<i, k>> \in R <=>
        \/ Opening(rows, i) < Opening(rows, k)
        \/ Opening(rows, i) = Opening(rows, k) /\ i < k
  BY DEF Precedes
<1>4. \A i \in D : i \in Nat
  BY <1>0
<1>5. \A x \in D : Before(R, D, x) = {y \in D : Precedes(rows, y, x)}
  BY DEF Before
<1>. HIDE DEF R
<1>6. IsOrder(R, D)
  <2>. HIDE DEF D
  <2>0. \A i \in D : i \in Nat /\ Opening(rows, i) \in Nat
    BY <1>2, <1>4
  <2>1. ASSUME NEW x \in D, NEW y \in D PROVE x = y \/ <<x, y>> \in R \/ <<y, x>> \in R
    <3>1. Opening(rows, x) \in Nat /\ Opening(rows, y) \in Nat /\ x \in Nat /\ y \in Nat
      BY <2>0
    <3>. QED BY <1>3, <3>1
  <2>2. \A x \in D : <<x, x>> \notin R
    BY <1>2, <1>3, <1>4
  <2>3. \A x, y, z \in D : <<x, y>> \in R /\ <<y, z>> \in R => <<x, z>> \in R
    BY <1>2, <1>3, <1>4
  <2>. QED BY <2>1, <2>2, <2>3 DEF IsOrder
<1>7. Sorted(s, D, R)
  <2>. HIDE DEF D
  <2>. QED BY <1>1, <1>6, NthSorts
<1>8. \A k \in D : s[k] = at(k)
  BY <1>0, <1>1, <1>5
<1>9. Municipal(rows, cycle) = [k \in D |-> Typed(rows[at(k)], cycle)]
  BY DEF Municipal, Nth
<1>. HIDE DEF s, at, D
<1>10. /\ s \in [D -> D]
       /\ \A x \in D : \E k \in D : s[k] = x
       /\ \A j, k \in D : <<s[j], s[k]>> \in R <=> j < k
  BY <1>0, <1>1, <1>7 DEF Sorted
<1>11. \A j, k \in D : s[j] = s[k] => j = k
  <2>. SUFFICES ASSUME NEW j \in D, NEW k \in D, s[j] = s[k] PROVE j = k
    OBVIOUS
  <2>1. <<s[j], s[k]>> \notin R /\ <<s[k], s[j]>> \notin R
    BY <1>6, <1>10 DEF IsOrder
  <2>. QED BY <1>4, <1>10, <2>1
<1>12. Arranges(s, rows)
  BY <1>10, <1>11 DEF Arranges, D
<1>13. Municipal(rows, cycle) = [k \in D |-> Typed(rows[s[k]], cycle)]
  BY <1>8, <1>9
<1>14. Grouped(s, rows, cycle)
  BY <1>12, <1>13 DEF Grouped, D
<1>. QED BY <1>14

(* Sequences of rows of one cycle.                                         *)
Stamped(q, cycle) == q \in Seq(Seqs!ToSet(q)) /\ \A i \in DOMAIN q : q[i].cycle = cycle

LEMMA StampedRows ==
  ASSUME NEW q, NEW cycle, IsList(q), q = [i \in DOMAIN q |-> q[i]], \A i \in DOMAIN q : q[i].cycle = cycle
  PROVE  Stamped(q, cycle)
<1>1. PICK n \in Nat : DOMAIN q = 1..n
  BY DEF IsList
<1>2. \A i \in 1..n : q[i] \in Seqs!ToSet(q)
  BY <1>1 DEF Seqs!ToSet
<1>3. q \in [1..n -> Seqs!ToSet(q)]
  BY <1>1, <1>2
<1>. QED BY <1>1, <1>3 DEF Stamped

LEMMA StampedEmpty ==
  ASSUME NEW cycle
  PROVE  Stamped(<<>>, cycle)
BY DEF Stamped, Seqs!ToSet

LEMMA StampedJoin ==
  ASSUME NEW q, NEW z, NEW cycle, Stamped(q, cycle), Stamped(z, cycle)
  PROVE  Stamped(q \o z, cycle)
<1>. DEFINE S == Seqs!ToSet(q)
            T == Seqs!ToSet(z)
            both == q \o z
<1>1. q \in Seq(S) /\ z \in Seq(T) /\ (\A i \in DOMAIN q : q[i].cycle = cycle) /\ \A i \in DOMAIN z : z[i].cycle = cycle
  BY DEF Stamped
<1>. HIDE DEF S, T
<1>2. /\ both \in Seq(S \cup T) /\ DOMAIN both = 1..(Len(q) + Len(z)) /\ Len(q) \in Nat /\ Len(z) \in Nat
      /\ \A i \in 1..(Len(q) + Len(z)) : both[i] = IF i <= Len(q) THEN q[i] ELSE z[i - Len(q)]
      /\ DOMAIN q = 1..Len(q) /\ DOMAIN z = 1..Len(z)
  BY <1>1
<1>. HIDE DEF both
<1>3. ASSUME NEW i \in DOMAIN both PROVE both[i].cycle = cycle
  <2>1. CASE i <= Len(q)
    BY <1>1, <1>2, <2>1
  <2>2. CASE ~(i <= Len(q))
    <3>1. i - Len(q) \in DOMAIN z /\ both[i] = z[i - Len(q)]
      BY <1>2, <2>2
    <3>. QED BY <1>1, <3>1
  <2>. QED BY <2>1, <2>2
<1>4. IsList(both)
  BY <1>2 DEF IsList
<1>5. both = [i \in DOMAIN both |-> both[i]]
  BY <1>2
<1>6. Stamped(both, cycle)
  BY <1>3, <1>4, <1>5, StampedRows
<1>. QED BY <1>6 DEF both

LEMMA TablesAreLists ==
  ASSUME NEW t \in Memorias, NEW k \in DOMAIN t \ {"cycle"}, t[k] # Absent
  PROVE  IsList(t[k])
<1>1. t[k] \in Seq(Seqs!ToSet(t[k]))
  BY MemoriaAssumption
<1>2. Len(t[k]) \in Nat /\ DOMAIN t[k] = 1..Len(t[k])
  BY <1>1
<1>. QED BY <1>2 DEF IsList

(* The tables supplied come out whole, under the cycle that was asked for; *)
(* a municipality keeps its winner.                                        *)
LEMMA ExtractionSpec ==
  ASSUME NEW t \in Memorias, Extracts(t)
  PROVE  LET x == ExtractionOf(t)
         IN /\ Stamped(x.presidential, t.cycle) /\ Stamped(x.congress, t.cycle) /\ Stamped(x.municipal, t.cycle)
            /\ t.municipal = Absent => x.municipal = <<>>
            /\ t.municipal # Absent => x.municipal = Municipal(t.municipal, t.cycle)
<1>. DEFINE cycle == t.cycle
            x == Extraction(t, cycle)
            Part(k, parsed) == IF t[k] = Absent THEN <<>> ELSE parsed
            P1 == Part("round1", Presidential(t.round1, 1, cycle))
            P2 == Part("round2", Presidential(t.round2, 2, cycle))
            C1 == Part("congress_distrital", Congress(t.congress_distrital, "congress_distrital", cycle))
            C2 == Part("congress_nacional", Congress(t.congress_nacional, "congress_nacional", cycle))
            C3 == Part("parlacen", Congress(t.parlacen, "parlacen", cycle))
            M == Part("municipal", Municipal(t.municipal, cycle))
<1>1. ExtractionOf(t) = x
  BY MemoriaAssumption DEF ExtractionOf, Memoria2007, Memoria2011, Memoria2015, Memoria2019
<1>2. x.presidential = P1 \o P2 /\ x.congress = C1 \o C2 \o C3 /\ x.municipal = M
  BY DEF Extraction
<1>3. {"round1", "round2", "municipal", "congress_distrital", "congress_nacional", "parlacen"} \subseteq DOMAIN t \ {"cycle"}
  BY MemoriaAssumption DEF Chambers
<1>4. ASSUME NEW rows, IsList(rows), NEW n PROVE Stamped(Presidential(rows, n, cycle), cycle)
  <2>. DEFINE q == Presidential(rows, n, cycle)
  <2>1. DOMAIN q = DOMAIN rows /\ q = [i \in DOMAIN q |-> q[i]] /\ \A i \in DOMAIN q : q[i].cycle = cycle
    BY DEF Presidential
  <2>. HIDE DEF q
  <2>2. IsList(q)
    BY <1>4, <2>1 DEF IsList
  <2>3. Stamped(q, cycle)
    BY <2>1, <2>2, StampedRows
  <2>. QED BY <2>3 DEF q
<1>5. ASSUME NEW rows, IsList(rows), NEW chamber PROVE Stamped(Congress(rows, chamber, cycle), cycle)
  <2>. DEFINE q == Congress(rows, chamber, cycle)
  <2>1. DOMAIN q = DOMAIN rows /\ q = [i \in DOMAIN q |-> q[i]] /\ \A i \in DOMAIN q : q[i].cycle = cycle
    BY DEF Congress
  <2>. HIDE DEF q
  <2>2. IsList(q)
    BY <1>5, <2>1 DEF IsList
  <2>3. Stamped(q, cycle)
    BY <2>1, <2>2, StampedRows
  <2>. QED BY <2>3 DEF q
<1>6. ASSUME NEW rows, IsList(rows) PROVE Stamped(Municipal(rows, cycle), cycle)
  <2>. DEFINE q == Municipal(rows, cycle)
  <2>1. DOMAIN q = DOMAIN rows /\ q = [i \in DOMAIN q |-> q[i]] /\ \A i \in DOMAIN q : q[i].cycle = cycle
    BY DEF Municipal, Typed
  <2>. HIDE DEF q
  <2>2. IsList(q)
    BY <1>6, <2>1 DEF IsList
  <2>3. Stamped(q, cycle)
    BY <2>1, <2>2, StampedRows
  <2>. QED BY <2>3 DEF q
<1>7. Stamped(P1, cycle) /\ Stamped(P2, cycle)
  BY <1>3, <1>4, TablesAreLists, StampedEmpty
<1>8. Stamped(C1, cycle) /\ Stamped(C2, cycle) /\ Stamped(C3, cycle)
  BY <1>3, <1>5, TablesAreLists, StampedEmpty
<1>9. Stamped(M, cycle)
  BY <1>3, <1>6, TablesAreLists, StampedEmpty
<1>. HIDE DEF P1, P2, C1, C2, C3, x
<1>10. Stamped(P1 \o P2, cycle) /\ Stamped((C1 \o C2) \o C3, cycle)
  BY <1>7, <1>8, StampedJoin
<1>. HIDE DEF Part
<1>11. Stamped(x.presidential, cycle) /\ Stamped(x.congress, cycle) /\ Stamped(x.municipal, cycle)
  BY <1>2, <1>9, <1>10
<1>12. x.municipal = IF t.municipal = Absent THEN <<>> ELSE Municipal(t.municipal, cycle)
  BY <1>2 DEF Part
<1>. HIDE DEF M
<1>. QED BY <1>1, <1>11, <1>12

LEMMA AtMostOne ==
  ASSUME NEW S, IsFiniteSet(S), Cardinality(S) <= 1, NEW a \in S, NEW b \in S
  PROVE  a = b
<1>1. /\ IsFiniteSet(S \ {a}) /\ Cardinality(S) \in Nat /\ Cardinality(S \ {a}) = Cardinality(S) - 1
  BY TakeOut
<1>2. Cardinality(S \ {a}) \in Nat
  BY <1>1, FS_CardinalityType
<1>3. Cardinality(S \ {a}) = 0
  BY <1>1, <1>2
<1>4. S \ {a} = {}
  BY <1>1, <1>3, FS_EmptySet
<1>. QED BY <1>4

(* Every row of the table is there, and a municipality has one winner.     *)
LEMMA MunicipalHolds ==
  ASSUME NEW t \in Memorias, Extracts(t), t.municipal # Absent
  PROVE  LET m == Municipal(t.municipal, t.cycle)
         IN /\ Len(m) = Len(t.municipal)
            /\ \A i \in DOMAIN t.municipal : Typed(t.municipal[i], t.cycle) \in Seqs!ToSet(m)
            /\ \A i, k \in DOMAIN m :
                 (m[i].municipality = m[k].municipality /\ m[i].won /\ m[k].won) => i = k
<1>. DEFINE rows == t.municipal
            m == Municipal(rows, t.cycle)
            Winners(muni) == {i \in DOMAIN rows : rows[i].municipality = muni /\ rows[i].won}
<1>1. IsList(rows) /\ rows \in Seq(Seqs!ToSet(rows))
  <2>1. "municipal" \in DOMAIN t \ {"cycle"} /\ t["municipal"] # Absent
    BY MemoriaAssumption
  <2>2. IsList(t["municipal"])
    BY <2>1, TablesAreLists
  <2>. QED BY <2>1, <2>2, MemoriaAssumption
<1>2. \A i \in DOMAIN rows : Cardinality(Winners(rows[i].municipality)) <= 1
  BY DEF Extracts, MunicipalParses
<1>3. PICK n \in Nat : DOMAIN rows = 1..n
  BY <1>1 DEF IsList
<1>4. IsFiniteSet(DOMAIN rows)
  BY <1>3, FS_Interval
<1>5. \A i \in DOMAIN rows : IsFiniteSet(Winners(rows[i].municipality))
  <2>1. \A muni : Winners(muni) \subseteq DOMAIN rows
    OBVIOUS
  <2>. HIDE DEF Winners
  <2>. QED BY <1>4, <2>1, FS_Subset
<1>6. PICK s : Grouped(s, rows, t.cycle)
  BY <1>1, MunicipalSpec
<1>7. /\ Arranges(s, rows) /\ m = [k \in DOMAIN rows |-> Typed(rows[s[k]], t.cycle)]
      /\ DOMAIN m = DOMAIN rows /\ \A k \in DOMAIN rows : m[k] = Typed(rows[s[k]], t.cycle)
  BY <1>6 DEF Grouped
<1>. HIDE DEF m, rows
<1>8. Len(m) = Len(rows)
  <2>1. Len(rows) \in Nat /\ DOMAIN rows = 1..Len(rows)
    BY <1>1
  <2>2. m \in [1..Len(rows) -> Seqs!ToSet(m)]
    BY <1>7, <2>1 DEF Seqs!ToSet
  <2>. QED BY <2>1, <2>2
<1>9. \A i \in DOMAIN rows : Typed(rows[i], t.cycle) \in Seqs!ToSet(m)
  BY <1>7 DEF Arranges, Seqs!ToSet
<1>10. ASSUME NEW i \in DOMAIN m, NEW k \in DOMAIN m, m[i].municipality = m[k].municipality, m[i].won, m[k].won
       PROVE  i = k
  <2>1. /\ s[i] \in DOMAIN rows /\ s[k] \in DOMAIN rows
        /\ m[i] = Typed(rows[s[i]], t.cycle) /\ m[k] = Typed(rows[s[k]], t.cycle)
    BY <1>7 DEF Arranges
  <2>2. rows[s[i]].municipality = rows[s[k]].municipality /\ rows[s[i]].won /\ rows[s[k]].won
    BY <1>10, <2>1 DEF Typed
  <2>3. s[i] \in Winners(rows[s[i]].municipality) /\ s[k] \in Winners(rows[s[i]].municipality)
    BY <2>1, <2>2
  <2>. HIDE DEF Winners
  <2>4. s[i] = s[k]
    BY <1>2, <1>5, <2>1, <2>3, AtMostOne
  <2>. QED BY <1>7, <2>4 DEF Arranges
<1>. QED BY <1>8, <1>9, <1>10 DEF m, rows

(* Every result is of a row of a file that its source has committed.       *)
OfFile(x, s, f, known) == \E i \in DOMAIN f.rows : \E c \in known : c.name = f.rows[i].name /\ x = ResultOf(s, f.rows[i], c)
Sourced == \A x \in results : \E s \in Sources : \E j \in DOMAIN last[s] : OfFile(x, s, last[s][j], candidates)

LEMMA SourcedStep == LoadInv /\ Sourced /\ [Next]_vars => Sourced'
<1>. SUFFICES ASSUME LoadInv, Sourced, [Next]_vars PROVE Sourced'
  OBVIOUS
<1>1. ASSUME UNCHANGED <<candidates, results, last>> PROVE Sourced'
  BY <1>1 DEF Sourced, OfFile
<1>2. ASSUME NEW s \in Sources, Commit(s) PROVE Sourced'
  <2>1. /\ candidates' = candidates \cup Inserted(s)
        /\ results' = {x \in results : \A y \in Rows(s) : x.key # y.key} \cup Rows(s)
        /\ \A q \in Sources \ {s} : last'[q] = last[q]
        /\ last'[s] = Append(last[s], file[s])
    BY <1>2, CommitStep
  <2>2. last[s] \in Seq(Files[s]) /\ file[s] \in Files[s]
    BY <1>2, CommitFile DEF LoadInv, LoadTypes
  <2>3. /\ DOMAIN last[s] \subseteq DOMAIN last'[s] /\ \A j \in DOMAIN last[s] : last'[s][j] = last[s][j]
        /\ Len(last[s]) + 1 \in DOMAIN last'[s] /\ last'[s][Len(last[s]) + 1] = file[s]
    BY <2>1, <2>2
  <2>4. ASSUME NEW x \in results PROVE \E q \in Sources : \E j \in DOMAIN last'[q] : OfFile(x, q, last'[q][j], candidates')
    <3>1. PICK q \in Sources : \E j \in DOMAIN last[q] : OfFile(x, q, last[q][j], candidates)
      BY DEF Sourced
    <3>0. PICK j \in DOMAIN last[q] : OfFile(x, q, last[q][j], candidates)
      BY <3>1
    <3>2. j \in DOMAIN last'[q] /\ last'[q][j] = last[q][j]
      BY <2>1, <2>3
    <3>3. OfFile(x, q, last'[q][j], candidates')
      BY <2>1, <3>0, <3>2 DEF OfFile
    <3>. QED BY <3>2, <3>3
  <2>5. ASSUME NEW x \in Rows(s) PROVE \E q \in Sources : \E j \in DOMAIN last'[q] : OfFile(x, q, last'[q][j], candidates')
    <3>1. PICK i \in DOMAIN file[s].rows : x = RowOf(s, i)
      BY <1>2, CommitRows
    <3>2. Entry(s, i) \in candidates' /\ Entry(s, i).name = file[s].rows[i].name
      BY <1>2, <2>1, CommitEntries DEF Entry
    <3>3. x = ResultOf(s, file[s].rows[i], Entry(s, i))
      BY <3>1 DEF RowOf, ResultOf, ResultKey, Entry
    <3>4. OfFile(x, s, file[s], candidates')
      <4>1. \E k \in DOMAIN file[s].rows : \E c \in candidates' :
              c.name = file[s].rows[k].name /\ x = ResultOf(s, file[s].rows[k], c)
        BY <3>2, <3>3
      <4>2. file' = file
        BY <1>2, CommitStep
      <4>. QED BY <4>1, <4>2 DEF OfFile, ResultOf
    <3>5. OfFile(x, s, last'[s][Len(last[s]) + 1], candidates')
      <4>1. file' = file
        BY <1>2, CommitStep
      <4>. QED BY <2>3, <3>4, <4>1 DEF OfFile
    <3>. QED BY <2>3, <3>5
  <2>. QED BY <2>1, <2>4, <2>5 DEF Sourced
<1>3. ASSUME NEW s \in Sources, Load(s) PROVE Sourced'
  <2>1. Ensure(s) \/ Commit(s) \/ Quiet(s)
    BY <1>3 DEF Load, Quiet
  <2>2. CASE Ensure(s)
    BY <1>1, <2>2 DEF Ensure
  <2>3. CASE Quiet(s)
    BY <1>1, <2>3, QuietFacts DEF LoadInv
  <2>. QED BY <1>2, <2>1, <2>2, <2>3
<1>. QED BY <1>1, <1>3 DEF Next, Seeder, Seed, Loader, Scorer, Scraper, vars, loadVars

LEMMA SourcedInvariance == Spec => []Sourced
<1>1. Init => Sourced
  BY DEF Init, LoadInit, Sourced
<1>. QED BY <1>1, SourcedStep, LoadInvariance, PTL DEF Spec

(* What is stored for a round adds up to what the only file has for it.    *)
LEMMA StoredTotals ==
  ASSUME LoadInv, Sourced, Len(last["2019"]) = 1, UniqueNames, NEW n,
         \A i, k \in DOMAIN LastFile("2019").rows :
           LET rows == LastFile("2019").rows
           IN <<rows[i].round, rows[i].name, rows[i].geo>> = <<rows[k].round, rows[k].name, rows[k].geo>> => i = k
  PROVE  StoredTotal("2019", n) = NationalTotal(LastFile("2019").rows, n)
<1>. DEFINE f == LastFile("2019")
            rows == f.rows
            S == {i \in DOMAIN rows : rows[i].round = n}
            h == [i \in DOMAIN rows |-> rows[i].votes]
            R == {y \in results : y.key.election = <<"2019", n>>}
            g == [y \in R |-> y.votes]
            Of(i) == CHOOSE c \in candidates : c.name = rows[i].name
            b == [i \in S |-> ResultOf("2019", rows[i], Of(i))]
<1>1. "2019" \in Sources /\ last["2019"] \in Seq(Files["2019"])
  BY LoadAssumption DEF LoadInv, LoadTypes
<1>2. last["2019"] # <<>> /\ DOMAIN last["2019"] = {1} /\ f = last["2019"][1] /\ f \in Files["2019"]
  BY <1>1 DEF LastFile
<1>3. Listed(f) /\ \A i \in DOMAIN rows : rows[i].votes \in Int
  BY <1>1, <1>2, FilesListed, LoadAssumption
<1>4. /\ Len(rows) \in Nat /\ DOMAIN rows = 1..Len(rows) /\ IsFiniteSet(DOMAIN rows)
  BY <1>3, RowNumbers, FS_Interval
<1>5. \A i, k \in DOMAIN rows :
        rows[i].round = rows[k].round /\ rows[i].name = rows[k].name /\ rows[i].geo = rows[k].geo => i = k
  OBVIOUS
<1>6. Stored("2019", f)
  BY <1>1, <1>2 DEF LoadInv, Results
<1>7. StoredTotal("2019", n) = SumOver(g, R) /\ NationalTotal(rows, n) = SumOver(h, S)
  BY DEF StoredTotal, NationalTotal, SumOf
<1>8. \A c, d \in candidates : c.name = d.name => c = d
  BY DEF UniqueNames
<1>9. \A c, d \in candidates : c.id = d.id => c = d
  <2>1. candidates \subseteq Known
    BY DEF Known
  <2>. QED BY <2>1 DEF LoadInv, Identities
<1>. HIDE DEF f
<1>10. ASSUME NEW i \in DOMAIN rows
       PROVE  Of(i) \in candidates /\ Of(i).name = rows[i].name /\ ResultOf("2019", rows[i], Of(i)) \in results
  <2>1. NoLater(f, i)
    <3>. SUFFICES ASSUME NEW k \in (i + 1)..Len(rows), rows[k].round = rows[i].round, rows[k].name = rows[i].name,
                         rows[k].geo = rows[i].geo
                  PROVE  FALSE
      BY DEF NoLater
    <3>1. k \in DOMAIN rows /\ k # i
      BY <1>4
    <3>. QED BY <1>5, <3>1
  <2>2. PICK c \in candidates : c.name = rows[i].name /\ ResultOf("2019", rows[i], c) \in results
    BY <1>6, <2>1 DEF Stored
  <2>3. Of(i) = c
    BY <1>8, <2>2
  <2>. QED BY <2>2, <2>3
<1>11. ASSUME NEW i \in S PROVE b[i] \in R /\ g[b[i]] = h[i]
  <2>1. b[i] = ResultOf("2019", rows[i], Of(i)) /\ h[i] = rows[i].votes /\ rows[i].round = n
    OBVIOUS
  <2>2. b[i] \in results
    BY <1>10, <2>1
  <2>3. b[i].key.election = <<"2019", n>> /\ b[i].votes = rows[i].votes
    BY <2>1 DEF ResultOf
  <2>. HIDE DEF b
  <2>. QED BY <2>1, <2>2, <2>3
<1>12. ASSUME NEW i \in S, NEW k \in S, b[i] = b[k] PROVE i = k
  <2>1. b[i] = ResultOf("2019", rows[i], Of(i)) /\ b[k] = ResultOf("2019", rows[k], Of(k))
    OBVIOUS
  <2>2. b[i].key.id = Of(i).id /\ b[i].key.geo = rows[i].geo /\ b[k].key.id = Of(k).id /\ b[k].key.geo = rows[k].geo
    BY <2>1 DEF ResultOf
  <2>3. Of(i).id = Of(k).id /\ rows[i].geo = rows[k].geo
    BY <1>12, <2>2
  <2>4. Of(i) \in candidates /\ Of(k) \in candidates /\ Of(i).name = rows[i].name /\ Of(k).name = rows[k].name
    BY <1>10
  <2>5. Of(i) = Of(k)
    BY <1>9, <2>3, <2>4
  <2>6. rows[i].name = rows[k].name
    BY <2>4, <2>5
  <2>. QED BY <1>5, <2>3, <2>6
<1>13. ASSUME NEW y \in R PROVE \E i \in S : b[i] = y
  <2>1. PICK s \in Sources : \E j \in DOMAIN last[s] : OfFile(y, s, last[s][j], candidates)
    BY DEF Sourced
  <2>0. PICK j \in DOMAIN last[s] : OfFile(y, s, last[s][j], candidates)
    BY <2>1
  <2>2. PICK i \in DOMAIN last[s][j].rows, c \in candidates :
          c.name = last[s][j].rows[i].name /\ y = ResultOf(s, last[s][j].rows[i], c)
    BY <2>0 DEF OfFile
  <2>3. y.key.election = <<s, last[s][j].rows[i].round>>
    BY <2>2 DEF ResultOf
  <2>4. s = "2019" /\ last[s][j].rows[i].round = n
    BY <2>3
  <2>5. last[s][j] = f
    BY <1>2, <2>0, <2>4
  <2>6. i \in S /\ c.name = rows[i].name /\ y = ResultOf("2019", rows[i], c)
    BY <2>2, <2>4, <2>5
  <2>7. Of(i) = c
    BY <1>8, <1>10, <2>6
  <2>. QED BY <2>6, <2>7
<1>14. Numbers(h, S)
  <2>1. IsFiniteSet(S)
    BY <1>4, FS_Subset
  <2>2. \A i \in S : h[i] \in Int
    BY <1>3
  <2>. QED BY <2>1, <2>2 DEF Numbers
<1>15. SumOver(g, R) = SumOver(h, S)
  <2>. HIDE DEF g, R, h, S, b
  <2>. QED BY <1>11, <1>12, <1>13, <1>14, SumReindexed
<1>. QED BY <1>7, <1>15 DEF f

(* memoria_2019.py: tables become rows without loss, under their cycle and *)
(* with one mayor per municipality; and a Memoria that agrees with the     *)
(* file of the only load agrees with what is stored.                       *)
THEOREM MemoriasConfirm == Spec => []MemoriaConfirmsResults
<1>1. LoadInv /\ Sourced => MemoriaConfirmsResults
  <2>. SUFFICES ASSUME LoadInv, Sourced, NEW t \in Memorias, Extracts(t)
                PROVE  LET x == ExtractionOf(t)
                           rows == LastFile("2019").rows
                           Cell(i) == <<rows[i].round, rows[i].name, rows[i].geo>>
                       IN /\ t.municipal # Absent =>
                               /\ Len(x.municipal) = Len(t.municipal)
                               /\ \A i \in DOMAIN t.municipal : Typed(t.municipal[i], t.cycle) \in Seqs!ToSet(x.municipal)
                          /\ \A i, k \in DOMAIN x.municipal :
                               (x.municipal[i].municipality = x.municipal[k].municipality /\ x.municipal[i].won /\ x.municipal[k].won) => i = k
                          /\ \A r \in Seqs!ToSet(x.presidential) \cup Seqs!ToSet(x.congress) \cup Seqs!ToSet(x.municipal) : r.cycle = t.cycle
                          /\ ( /\ Len(last["2019"]) = 1 /\ UniqueNames
                               /\ \A i, k \in DOMAIN rows : Cell(i) = Cell(k) => i = k
                               /\ CrossValidates(x.presidential, rows) )
                               => \A n \in {1, 2} : NationalTotal(x.presidential, n) = StoredTotal("2019", n)
    BY DEF MemoriaConfirmsResults
  <2>. DEFINE x == ExtractionOf(t)
              rows == LastFile("2019").rows
              Cell(i) == <<rows[i].round, rows[i].name, rows[i].geo>>
  <2>1. /\ Stamped(x.presidential, t.cycle) /\ Stamped(x.congress, t.cycle) /\ Stamped(x.municipal, t.cycle)
        /\ t.municipal = Absent => x.municipal = <<>>
        /\ t.municipal # Absent => x.municipal = Municipal(t.municipal, t.cycle)
    BY ExtractionSpec
  <2>2. t.municipal # Absent =>
          /\ Len(x.municipal) = Len(t.municipal)
          /\ \A i \in DOMAIN t.municipal : Typed(t.municipal[i], t.cycle) \in Seqs!ToSet(x.municipal)
    BY <2>1, MunicipalHolds
  <2>3. \A i, k \in DOMAIN x.municipal :
          (x.municipal[i].municipality = x.municipal[k].municipality /\ x.municipal[i].won /\ x.municipal[k].won) => i = k
    <3>1. CASE t.municipal = Absent
      BY <2>1, <3>1
    <3>2. CASE t.municipal # Absent
      BY <2>1, <3>2, MunicipalHolds
    <3>. QED BY <3>1, <3>2
  <2>4. \A r \in Seqs!ToSet(x.presidential) \cup Seqs!ToSet(x.congress) \cup Seqs!ToSet(x.municipal) : r.cycle = t.cycle
    <3>. HIDE DEF x
    <3>. QED BY <2>1 DEF Stamped, Seqs!ToSet
  <2>5. ASSUME Len(last["2019"]) = 1, UniqueNames, \A i, k \in DOMAIN rows : Cell(i) = Cell(k) => i = k,
               CrossValidates(x.presidential, rows), NEW n \in {1, 2}
        PROVE  NationalTotal(x.presidential, n) = StoredTotal("2019", n)
    <3>1. StoredTotal("2019", n) = NationalTotal(rows, n)
      BY <2>5, StoredTotals
    <3>2. NationalTotal(x.presidential, n) = NationalTotal(rows, n)
      BY <2>5 DEF CrossValidates
    <3>. QED BY <3>1, <3>2
  <2>. QED BY <2>2, <2>3, <2>4, <2>5
<1>. QED BY <1>1, LoadInvariance, SourcedInvariance, PTL
================================================================================
