--------------------------- MODULE SentimentScoring ---------------------------
(***************************************************************************)
(* Scoring runs (scorer.py): each is one transaction that reads the        *)
(* articles without scores, then the posts, inserts a row per sentence and *)
(* subject and refreshes the materialized view.  Runs may overlap and may  *)
(* fail at any step.                                                       *)
(*                                                                         *)
(* Score and label are functions of the sentence; a row stands for both.   *)
(***************************************************************************)
EXTENDS EntityResolver, FiniteSets

CONSTANTS
  Scorers,    \* calls of run
  Articles,   \* ids of news_articles
  Posts,      \* ids of social_posts
  Sentences   \* document -> its sentences

ASSUME ScoringAssumption ==
  /\ Articles \subseteq Nat /\ Posts \subseteq Nat /\ Articles \cap Posts = {}
  /\ \A d \in Articles \cup Posts : Sentences[d] \in Seq(DOMAIN Entities)

Documents == Articles \cup Posts
Overall == [kind |-> "overall", id |-> 0]

VARIABLES
  documents,  \* rows of news_articles and social_posts
  scores,     \* committed rows: [doc, at, subject, by]
  view,       \* the rows sentiment_per_source_subject was computed from
  stage,      \* progress of each run
  todo,       \* documents its last SELECT returned and it has not scored
  own,        \* its rows, uncommitted
  scored,     \* the documents it has scored
  gazetteer,  \* its resolver: entries and the candidates of parties
  snapshot,   \* what its REFRESH reads
  before      \* history: runs that had ended when it started

scoringVars == <<documents, scores, view, stage, todo, own, scored, gazetteer, snapshot, before>>

Ended == {r \in Scorers : stage[r] \in {"done", "failed"}}
Active == {r \in Scorers : stage[r] \in {"articles", "posts", "waiting", "refreshing"}}
Overlapped(r, q) == q \notin before[r] /\ r \notin before[q]

SameKey(a, b) == a.doc = b.doc /\ a.at = b.at /\ a.subject = b.subject

(* Mutant of Unscored: without the NOT EXISTS.                             *)
EveryDocument(kind) == {d \in documents \cap kind : Sentences[d] # <<>>}

(* Documents that have text and no score, committed or of another kind of  *)
(* this transaction.                                                       *)
Unscored(kind) ==
  {d \in documents \cap kind : Sentences[d] # <<>> /\ \A s \in scores : s.doc # d}

(* score_source_text: a row per subject of a sentence, or one overall.     *)
SubjectsOf(r, text) ==
  LET named == Subjects(text, gazetteer[r].entries, gazetteer[r].cycle)
  IN IF named = {} THEN {Overall} ELSE named

RowsOf(r, d) ==
  UNION {{[doc |-> d, at |-> k, subject |-> s, by |-> r] : s \in SubjectsOf(r, Sentences[d][k])} :
           k \in DOMAIN Sentences[d]}

-----------------------------------------------------------------------------
(* A resolver is built from what is in the tables; the articles are read.  *)
(* An empty surface is refused, and there is no run.                       *)
Start(r, resolver) ==
  /\ stage[r] = "idle"
  /\ \A k \in DOMAIN resolver.entries : resolver.entries[k].surface # <<>>
  /\ stage' = [stage EXCEPT ![r] = "articles"]
  /\ gazetteer' = [gazetteer EXCEPT ![r] = resolver]
  /\ before' = [before EXCEPT ![r] = Ended]
  /\ todo' = [todo EXCEPT ![r] = Unscored(Articles)]
  /\ UNCHANGED <<documents, scores, view, own, scored, snapshot>>

(* _write_rows for the next document.  ON CONFLICT DO NOTHING skips the    *)
(* keys that are there and waits for the other run that has inserted one   *)
(* and not ended; if that one waits for this, PostgreSQL fails either.     *)
Write(r) ==
  /\ stage[r] \in {"articles", "posts"}
  /\ \E d \in todo[r] :
       /\ \A e \in todo[r] : d <= e
       /\ \A q \in Scorers \ {r}, a \in RowsOf(r, d) : \A b \in own[q] : ~SameKey(a, b)
       /\ own' = [own EXCEPT ![r] =
            @ \cup {a \in RowsOf(r, d) : \A b \in scores : ~SameKey(a, b)}]
       /\ todo' = [todo EXCEPT ![r] = @ \ {d}]
       /\ scored' = [scored EXCEPT ![r] = @ \cup {d}]
  /\ UNCHANGED <<documents, scores, view, stage, gazetteer, snapshot, before>>

ReadPosts(r) ==
  /\ stage[r] = "articles" /\ todo[r] = {}
  /\ stage' = [stage EXCEPT ![r] = "posts"]
  /\ todo' = [todo EXCEPT ![r] = Unscored(Posts)]
  /\ UNCHANGED <<documents, scores, view, own, scored, gazetteer, snapshot, before>>

(* Mutant of NeedsRefresh: posts alone do not count.                       *)
ArticlesNeedRefresh(r) == scored[r] \cap Articles # {}

NeedsRefresh(r) == scored[r] # {}

(* REFRESH takes its snapshot first and the exclusive lock on the view     *)
(* second: it may have to wait for the run that holds it.                  *)
RequestRefresh(r) ==
  /\ stage[r] = "posts" /\ todo[r] = {} /\ NeedsRefresh(r)
  /\ snapshot' = [snapshot EXCEPT ![r] = scores \cup own[r]]
  /\ stage' = [stage EXCEPT ![r] =
       IF \E q \in Scorers : stage[q] = "refreshing" THEN "waiting" ELSE "refreshing"]
  /\ UNCHANGED <<documents, scores, view, todo, own, scored, gazetteer, before>>

LockGranted(r) ==
  /\ stage[r] = "waiting"
  /\ \A q \in Scorers : stage[q] # "refreshing"
  /\ stage' = [stage EXCEPT ![r] = "refreshing"]
  /\ UNCHANGED <<documents, scores, view, todo, own, scored, gazetteer, snapshot, before>>

(* The rows, and the view computed from the snapshot, become visible.      *)
Finish(r) ==
  /\ stage[r] = "refreshing"
  /\ scores' = scores \cup own[r]
  /\ view' = snapshot[r]
  /\ stage' = [stage EXCEPT ![r] = "done"]
  /\ own' = [own EXCEPT ![r] = {}]
  /\ snapshot' = [snapshot EXCEPT ![r] = {}]
  /\ UNCHANGED <<documents, todo, scored, gazetteer, before>>

FinishEmpty(r) ==
  /\ stage[r] = "posts" /\ todo[r] = {} /\ ~NeedsRefresh(r)
  /\ scores' = scores \cup own[r]
  /\ stage' = [stage EXCEPT ![r] = "done"]
  /\ own' = [own EXCEPT ![r] = {}]
  /\ UNCHANGED <<documents, view, todo, scored, gazetteer, snapshot, before>>

(* Mutant of Undo: what is written is committed.                       *)
KeepRows(r) == scores' = scores \cup own[r]

Undo(r) == UNCHANGED scores

(* The classifier, a statement or the commit fails, PostgreSQL breaks a    *)
(* deadlock, or the process dies.                                          *)
Abandon(r) ==
  /\ r \in Active
  /\ Undo(r)
  /\ stage' = [stage EXCEPT ![r] = "failed"]
  /\ todo' = [todo EXCEPT ![r] = {}]
  /\ own' = [own EXCEPT ![r] = {}]
  /\ snapshot' = [snapshot EXCEPT ![r] = {}]
  /\ UNCHANGED <<documents, view, scored, gazetteer, before>>

(* A scraper commits a document.                                           *)
Arrive(d) ==
  /\ d \notin documents
  /\ documents' = documents \cup {d}
  /\ UNCHANGED <<scores, view, stage, todo, own, scored, gazetteer, snapshot, before>>

-----------------------------------------------------------------------------
ScoringInit ==
  /\ documents = Articles
  /\ scores = {} /\ view = {}
  /\ stage = [r \in Scorers |-> "idle"]
  /\ todo = [r \in Scorers |-> {}]
  /\ own = [r \in Scorers |-> {}]
  /\ scored = [r \in Scorers |-> {}]
  /\ gazetteer = [r \in Scorers |-> [entries |-> <<>>, cycle |-> <<>>]]
  /\ snapshot = [r \in Scorers |-> {}]
  /\ before = [r \in Scorers |-> {}]

ScoringRun(r, resolver) ==
  \/ Start(r, resolver)
  \/ Write(r)
  \/ ReadPosts(r)
  \/ RequestRefresh(r)
  \/ LockGranted(r)
  \/ Finish(r)
  \/ FinishEmpty(r)
  \/ Abandon(r)

-----------------------------------------------------------------------------
ScoringTypeOK ==
  /\ documents \subseteq Documents
  /\ \A s \in scores : s.doc \in documents /\ s.at \in DOMAIN Sentences[s.doc] /\ stage[s.by] = "done"
  /\ stage \in [Scorers -> {"idle", "articles", "posts", "waiting", "refreshing", "done", "failed"}]
  /\ \A r \in Scorers :
       /\ todo[r] \cup scored[r] \subseteq documents /\ todo[r] \cap scored[r] = {}
       /\ \A s \in own[r] : s.by = r /\ s.doc \in scored[r]
       /\ before[r] \subseteq Ended
  /\ Cardinality({r \in Scorers : stage[r] = "refreshing"}) <= 1

(* All or nothing: a document with a score has one for each sentence.  Two *)
(* runs share a document only when they overlapped and their resolvers     *)
(* knew different names; such a mixture is never completed or rescored.    *)
WholeReadings ==
  \A s \in scores :
    /\ \A k \in DOMAIN Sentences[s.doc] : \E x \in scores : x.doc = s.doc /\ x.at = k
    /\ \A x \in scores : (x.doc = s.doc /\ x.by # s.by) =>
         Overlapped(x.by, s.by) /\ gazetteer[x.by] # gazetteer[s.by]

(* A part of a longer name is not a mention: every subject has a surface   *)
(* in the sentence that overlaps no name plainly there, one longer than    *)
(* all that overlap it elsewhere; unless a phrase or spaCy has named it.   *)
Plain(norm, g) ==
  {p \in Occurrences(norm, g) : \A o \in Occurrences(norm, g) :
     Span(g, o) \cap Span(g, p) # {} /\ Span(g, o) # Span(g, p)
       => Length(g[o[1]].surface) < Length(g[p[1]].surface)}

IsNamed(subject, text, g) ==
  LET norm == Normalize(text)
  IN \/ \E o \in Occurrences(norm, g) :
          /\ subject = [kind |-> g[o[1]].kind, id |-> g[o[1]].id]
          /\ \A p \in Plain(norm, g) : Span(g, o) \cap Span(g, p) # {} => Span(g, o) = Span(g, p)
     \/ subject.kind = "candidate" /\ \E k \in DOMAIN text : text[k] = Trigger
     \/ Entities[text] # <<>>

SubjectsAreNamed ==
  \A s \in scores : s.subject # Overall => IsNamed(s.subject, Sentences[s.doc][s.at], gazetteer[s.by].entries)

(* The view shows committed rows only, and all of them but those of runs   *)
(* that another one overlapped.                                            *)
ViewFollowsScores ==
  /\ view \subseteq scores
  /\ \A s \in scores \ view : \E q \in Scorers \ {s.by} : stage[q] = "done" /\ Overlapped(s.by, q)
===============================================================================
