# Verification of polityk

Polityk forecasts the Guatemalan general election of 2027. Python jobs collect
polls, news and indicators, sample a Bayesian model and write a forecast row;
a calibration job decides whether the row is published; a Go API serves the
latest published row; an Android app shows it. By law nothing may be shown
during the electoral silence, so a blackout gate stands before the API's
forecast routes and the app obeys it. This directory holds TLA+ models of the
parts of that chain where several actors meet, the TLC configurations that
check them and TLAPS proofs about them.

## Inventory

| Component | State | Operations | Hard behaviour | What makes it correct |
|---|---|---|---|---|
| Forecast writer `predict.py` | `forecasts`, `posterior_archives` | take a timestamp, fit, load and apply interventions, build the payload, insert it and NOTIFY in one transaction | interventions committed while it fits; visible only at commit | a run starts unpublished; its payload is coherent |
| Calibration gate `calibrate.py` | `forecasts.is_published`, `calibration_failures` | judge by gates C1 to C6, check for a no-op, publish or record, commit | evaluations that overlap, abort, are repeated | published means passed; committed failures are recorded once |
| Listener `internal/listener` | a LISTEN connection | connect, wait, clear the cache, back off | lost notifications | the cache recovers all the same |
| Forecast cache `internal/forecastcache` | one entry per race type, a mutex | get, set, Clear | fills outside the mutex race with Clear and with one another | answers are published and not older than a bound |
| Handlers, store | none | answer 200, 404, 500, 503 | errors between steps | never an unpublished run |
| Blackout middleware | flag file, environment | decide each request | two reads with flips in between | a request obeys a value in force while it ran |
| Blackout command `internal/blackoutcli` | flag file, `blackout_overrides` | enable, disable, status | crashes between steps, several operators | a whole flag file; success is audited |
| ETag middleware | none (HTTP caches outside) | tag, max-age, 304 | the silence begins under way; revalidation | everyone is silent after a bound |
| Health, methodology | none | report | another source than the gate | agrees with the gate |
| Android presidential screen | Room row, UI state | load, store, wipe, fall back, retry | overlapping loads, failing storage, time passing | no expired forecast appears; the splash wipes |
| Android tabs, resume time | Room rows, preferences | probe, cache | cached answers outlive a release | staged tabs appear and disappear |
| D'Hondt allocator | a map of seats | allocate | ties, rounding | the textbook quotient table |
| Interventions `interventions.py`, `intervene.py` | `manual_interventions` | insert, load what is active, apply in order of ids | zero rows, order of application, windows | mass is conserved; who is removed stays out |
| Seed `seed/geographies.py` | `geographies` | upsert, then set parents | parents that come later in the file | places stand under their parents |
| Loaders of 2019 and 2023 results | `elections`, `candidates`, `parties`, `historical_results`, `scrape_runs` | check the file, find or create, upsert, stamp | failing midway, overlap, re-runs | all or nothing; a re-run changes nothing |
| Memoria parsers | none | tables to typed rows or an error; cross-validation | columns missing, totals that disagree | agreement with the file means equal totals |
| Sentiment `scorer.py`, `entity_resolver.py` | `sentiment_scores`, a materialized view | resolve names, score what is unscored, refresh the view | overlapping runs, waits on keys and locks | whole documents; the view follows the rows |
| Python scrapers | facts, `scrape_runs` | fetch, retry, insert, stamp | partial failure, crash before the stamp | stamps tell the truth |
| Go scrapers `internal/scrapers` | facts, `scrape_runs` | fetch, retry, insert row by row, stamp | partial failure | stamps tell the truth |
| Combiner `presidential.py` | none | blend poll and fundamental draws, count, pair | candidates without data, ties | halves of the payload agree |
| Fundamentals, poll aggregator, bias estimator, poll parser, backtests | none, or one column | sample, parse | numerics | not for a model checker |

Interactions: writer and gate meet in the database; the writer's NOTIFY
reaches the listener, which clears the cache the handlers read through; the
blackout middleware wraps the ETag middleware, which wraps the handlers; the
command and the systemd timer set what the blackout middleware reads; HTTP
caches and the app stand behind the API. Upstream, the seed, the loaders and the
scrapers fill the tables from which the sentiment runs build their resolvers and
the model its inputs; operators insert interventions while runs are under way.

## Plan

Order of work, the most important behaviour first:

1. serving: `ForecastServing` and the promise `StaleRegister` it implements (done);
2. the silence: `BlackoutControl` (done);
3. publication: `CalibrationGate` (done);
4. the app: `AndroidClient` (done);
5. delivery through HTTP caches: `ForecastDelivery` (done);
6. seats: `DHondt` (done);
7. interventions, payload and gates: `Posterior`, and `ForecastProduction`, which
   runs them (done);
8. the runs of the Python scrapers: `BatchScrape` (done);
9. seed, loaders, Memoria parsers and sentiment, composed on one database:
   `ResultsLoad`, `Memoria`, `EntityResolver`, `SentimentScoring`, `Ingestion` (done);
10. the Go scrapers, which insert row by row, tab availability and the resume time
    of the app, reconnection delays;
11. compositions: `CalibrationGate` as the database of `ForecastServing`, and the
    silence from the command to the app's screen.

Proofs follow the modules: types first, then the safety invariants of the runs.
Proved: every invariant and every action property of the runs that pass, and the
refinement of `StaleRegister` (see Proofs). Next are facts that no run asks for
yet: what 10 and 11 will need, and that the gate, the rows it publishes and the
answers of the API fit together in one specification.

## Modules

Each `MC*.tla` only names sets of model values for the configurations.

**StaleRegister** states what clients are promised: an answer carries a
published run that was the latest at most `Bound` ticks ago, or is an error. It
knows nothing of caches or notifications.

**Collections** names the community modules on sets and sequences and adds two
operators: `SumOver`, a sum over a finite set, and `Nth`, the n-th element of a
set in an order. Whatever the code sorts is written with `Nth`.

**ForecastServing** is the path from the table to the client. `rows` is the
`forecasts` table, `listener` and `notes` the goroutine and the notifications
queued on its connection, `entry` the cache entry, `req[h]` the request in each
handler. `PredictCommit` is `write_forecast` and the commit of its caller;
`CalibratePass` the gate's UPDATE; `Connect` to `BackoffElapses` are `Run` and
`listenOnce`; `LookupHit`, `LookupMiss`, `UpstreamRead`, `UpstreamError` and
`Fill` are the steps of `LatestPublishedPresidential`, one for each time the
mutex is taken or the database asked. Runs are numbered by `generated_at`; two
runs with equal timestamps are left out. `lag` and the fields `read` and `age`
are history.

**BlackoutControl** has the flag file (`content`, `owner`), the environment
(`env`), a program counter for each command and each request. The temporary
file is made with mode 0600, so the file belongs to the account that renamed
it; accounts are assumed not to be root. `seen[r]` collects the values in force
while request r runs.

**CalibrationGate** has one record of progress per evaluation. Reads see what is
committed (READ COMMITTED, psycopg's default); inserts and the UPDATE stay with
the session until `Commit`; `Publish` waits for the row lock. The six gates'
arithmetic is replaced by an arbitrary set of failed gates. At this commit the
command's backtest loader is a stub, so what is modelled is the library entry
`evaluate_and_apply_gates` with the transaction of `main`.

**AndroidClient** has the Room row, the view model's state, the screen last
composed and a program counter for each coroutine. Two loads overlap when the
retry button is tapped twice before the screen is composed again. Left out: a
payload without `generated_at` (the writer always sends one) and a stored
payload that does not parse. An exception of the Room read in the fallback ends
the process, which is `Leave`. The server's `cache_invalid_until` is modelled as
the contract has it, though the writer at this commit never sets it.

**ForecastDelivery** has one slot per request, the phase it is in and the time
since it passed the gate, and one HTTP cache that obeys the headers. Assumed of
that cache: it stores only answers with a max-age, counts from the arrival and
does not serve stale copies on errors. Tags are taken as distinct for distinct
bodies (64 bits of SHA-256), and nobody sends `If-None-Match: *`. `gone` and
`quiet` are history.

**BatchScrape** is `run` of the Google Trends, Telegram and Bluesky scrapers,
which share their transaction: one scraper per behaviour, several runs of it at
once. `wrote[r]` is the open transaction, `todo[r]` the parsed rows not inserted
yet, `last` is `last_call_at`; `took`, `idle` and `committed` are history. A row
stands for its unique key. PostgreSQL is external: an INSERT waits for the
transaction that has inserted the key (`WaitsFor`), and a cycle of waits is
broken (`DeadlockVictim`). A commit that raises may have happened or not. The
stamp and its commit are one step, since nobody sees the stamp before. The
conversions, the configuration files and the live clients are left out.

**DHondt** is `Allocate` with a step per comparison.

**Posterior** holds the pure functions between the models and a published
forecast. A share is a natural number out of `one`, and scaling multiplies both,
so rows are exact fractions and "sums to one" is an equation. The combiner is the
set of shares it may draw: sigmoid and logit are monotone, so a blend lies between
its two sides, and a candidate with one side has that side. `Renormalise`,
`ZeroOut`, `Override` and `Transformed` are `apply_interventions_to_samples` on a
draw; `Summary` and `RunoffMatrix` the payload; `FailedGates` the six gates.
Winner probabilities of the runoff model and wording are left out.

**ForecastProduction** runs them: operators insert interventions whose ids need
not appear in order, a run takes its timestamp (`Begin`), reads what is committed
(`Load`), writes (`Commit`). Only the row written last is kept: each property is
about one payload, and rows are never changed here. `earlier` is history.

**EntityResolver** is `resolve` with its three passes. A text is a sequence of
tokens, so a regular expression's word boundary is the end of a token; `Normal`
gives the tokens of a normalised one ("…" becomes three) and `Letters` their
length, since the gazetteer is ordered by the characters of its surfaces, and as
`from_db_rows` lists them where those are equal. `Scanned` is the order in which
occurrences are met and `Taken` the fold over it that takes each one that is still
free. spaCy and edit distance are external, as tables.

**SentimentScoring** is `run` of `scorer.py`. `own[r]` is the open transaction;
an insert skips a committed key and waits for an uncommitted one, PostgreSQL's
deadlock victim being one of the abandoned runs; REFRESH takes its snapshot before
it waits for the exclusive lock. A gazetteer with a surface
that normalises to nothing raises before the run begins (`entity_resolver.py:64`),
so `Start` is not enabled. The classifier's score and label are left out,
since no property tells them apart.

**ResultsLoad** is the seed and the two loaders. `Ensure` is a SELECT that finds
one of the candidates of a name or inserts a new one; the sequence behind the ids
is never rolled back. Upserts of a file that nobody else sees are one step with
the commit; that of 2019 stamps its success in a second transaction. Two loaders
of one source never run at once, as their comment says; one of each may.

**Memoria** is the parsers of all four cycles on tables their caller supplies, and
the cross-validation with an Excel file. Raised errors are the predicate
`Extracts`. The dictionary that groups rows by municipality is the order
`Precedes`: municipalities as they first appear, rows of one as they came.

**Ingestion** composes seed, loaders, scoring runs and scrapers on one database.
Its `ResolverNow` builds a run's resolver from what the loaders have committed,
which is where they meet; `MemoriaConfirmsResults` compares parsed tables with
what is stored.

## Runs

Runs that pass:

| Run | Shows | Instance |
|---|---|---|
| ForecastServing | types, bounded staleness, refinement of StaleRegister, eventual currency | 2 handlers, 2 runs, TTL 2, delay 1 |
| BlackoutControl | requests obey a value in force while they ran; whole flag file, truthful audit, override holds | 3 commands, 1 request, 2 accounts |
| CalibrationGate | published was passed, records are exact, a repeated verdict changes nothing | 2 runs, 2 gates, 3 evaluations |
| AndroidClient | screen and cache agree; no expired forecast appears; the loading screen gives way | 2 loads, failing storage, 3 instants, clocks a tick apart |
| ForecastDelivery | the silence reaches all; copies are recent | 2 requests, 2 forecasts, ages 2 and 1, delay 1 |
| BatchScrape | all or nothing, truthful stamps, spaced requests, every run ends | 2 runs, 2 rows, 2 calls of up to 2 rows, gap 1, backoff 2 |
| DHondt | highest averages, the textbook table | 3 parties, votes to 6, seats to 5 |
| ForecastProduction | mass is conserved, the removed stay out, later runs keep interventions, payloads are coherent, a pass means calibrated | 2 runs, 2 draws, 3 candidates in 2 parties, 2 interventions of 4 kinds, 2 instants, 3 backtests |
| Ingestion | whole readings of named subjects, the view follows, loads are true and repeatable, places nested, Memorias confirm | 2 scoring runs, 3 documents, 2 loads of 3 files, 2 seeds, 9 Memorias |

Why the bounds are enough. Two handlers are what a stale fill needs beside the
one it races with, two runs are a superseded one and its successor, and both may
be committed and published in either order. With TTL 2 an entry can be fresh,
ageing and gone, and a delay of 1 lets a fill straddle a tick. Three commands let
two overlap after a finished one; requests do not influence one another. Three
evaluations let two overlap after one that committed. Two requests are what it
takes for one to store a copy while the other revalidates. Two runs that insert
two rows in opposite orders deadlock. The clock of the app
runs past every age limit, and two loads are what a wipe and a late store need.
Two interventions are what an order of ids can be wrong for, and their kinds take
every branch of `Override`; two draws are what one quantile can tell apart from
the other; the backtests have an even and an odd number of judged errors, on both
sides of each limit. Two loads are a load and its re-run, a file and its correction,
or one of each source that overlap; a third made the run hours long and adds only
a third source of the same kinds of interleaving.
The proofs remove the bounds where there are any.

Deadlock is checked except where the system stops: the evaluations of
CalibrationGate and the runs of BatchScrape and ForecastProduction end, and
Allocate returns.

## Disagreements between documents and code

Three have a run that shows one:

| Run | Document | Code |
|---|---|---|
| ForecastServing_notify | a notification means a fresh forecast | it comes before the publication, which sends none |
| AndroidClient_late | the splash means wiped | a late answer is stored after the wipe |
| ForecastProduction_removal | a disqualification shows in the next published forecast | gate C4 rejects a payload with a candidate at zero (`calibrate.py:245`), so a forecast that applies one is never published |

Others were met while the models were written, and can be read off the code:

- every flip of the silence is said to be logged; the flip comes first
  (`cli.go:132`) and stays, though the row after it fails;
- two evaluations that overlap insert a failure twice (`calibrate.py:419`), where
  the module's docstring has no duplicates;
- a race-level intervention is documented as a no-op, yet the shares are
  renormalised, which changes marginals that did not sum to one
  (`interventions.py:30`);
- the docstring of `_apply_manual_probability` gives all mass to the target where
  the siblings have none; the row then sums to the override only;
- a later override revives a candidate that an earlier row removed;
- `"Idempotent"` of `load_2019_excel.py:19` holds while no name has two candidates:
  the loaders of 2019 and 2023 may each insert the same name, since no constraint
  forbids it, and a re-run may then pick the other id;
- rows that a corrected file no longer has stay in `historical_results`;
- `seed_geographies.py` reports a wrong row count after the commit;
- a municipality has "exactly one" winner in the docs, at most one in the parser;
  only the first row's columns are checked, and only the last declared total of a
  place; the cross-validation does not look at the cycle;
- scored documents are never scored again, so a name that is loaded later stays
  unread in them; overlapping runs with different gazetteers mix their readings;
- the phrase "candidato de" is found in the text and its party at the same index
  of the normalised text, which is longer where "…" stands before it;
- a cache fill under way when Clear is called restores the old row
  (`forecastcache/cache.go:76`), though the next read should bypass the cache;
- the audit rows of two commands at once may come in the opposite order of
  their renames (`cli.go:132-137`), so the last row need not explain the flag;
- an override by another account leaves a file of mode 0600 that the API cannot
  read (`cli.go:234`), so it is not visible within one request as
  `blackout.go:21` has it;
- events that `filter_event` lets pass may still lack what `parse_event` needs
  (`bluesky_scraper.py:160-193`), where its docstring says the filter removed
  them, and one such event rolls the whole run back;
- a flag file left by an override outweighs the timer's BLACKOUT_ENABLED at the
  next silence (`blackout.go:72`), where ADR-003 lets the variable decide;
- `/v1/health` reads the variable only (`health.go:117`), where its comment
  claims the middleware's contract;
- `blackout status` reports off for an unreadable file (`cli.go:218`), where the
  middleware goes on to the environment;
- a run that one evaluation published and another failed stays published
  (`calibrate.py:382`), and an all-pass on a whatif run prints `published=true`
  (`calibrate.py:550`);
- the app shows the cache when it cannot reach a silent server
  (`PresidentialViewModel.kt:58`), looks at `cache_invalid_until` only when
  loading (`Freshness.kt:30`), calls a payload of six hours and 59 minutes fresh
  (`Freshness.kt:35`), and takes the 503 of an API without a database for the
  silence (`BlackoutInterceptor.kt:22`);
- only a 200 has an ETag (`middleware/cache.go:98`), where ADR-014 has it on
  every response;
- Allocate fills all seats however few the parties (`dhondt.go:54`), where its
  comment lets it stop.

## Fairness

`ForecastServing`: time passes, and a goroutine that has its row goes on to
store it; nothing obliges clients, jobs or the database. That is all
`EventuallyCurrent` needs, because the TTL alone removes a stale entry.
`AndroidClient`: a coroutine is resumed, since the HTTP client has timeouts and
Room returns or throws; the user owes nothing. `BatchScrape`: a started run goes
on, its requests return or time out, PostgreSQL looks for deadlocks, and time
passes, so sleeps end; nothing obliges a run to start. No strong fairness is used.
The other modules state no liveness.

## Proofs

All theorems are of `Spec` without fairness (`BlackoutSpec`, `AppSpec` for the two
modules that share `DownstreamProofs`), and assume of the constants what the ASSUMEs
of the modules say. Each strengthening named below was an invariant of a TLC run
before it was proved.

`CollectionsProofs` has what the others need of sets, sums and folds. The library
states induction for predicates, which no installed prover can instantiate;
`NatInduct` and `SetInduct` state it with a set of good numbers, or of good
subsets, in the place of the predicate, and are proved from well-foundedness. From
them: that the fold behind the community modules' sums does not depend on the
order (`SumUnique`), so a sum can be split, scaled, bounded and carried along a
bijection (`SumSplit`, `SumScaled`, `SumBounds`, `SumReindexed`); that a fold over a
sequence has a trace, a function that gives every intermediate value
(`FoldTrace`), which turns a property of a fold into an induction along it; that
`Nth` numbers a finite set in any strict order (`NthSorts`).

`ForecastServingProofs`, for any handlers, runs, TTL and delay: types; only
published runs are served; `LagCovered`, the inductive invariant, which ties the
lag of a pending row to the age of its fill and lag and life of the entry
together (bounded staleness alone is not inductive: it says nothing of rows on
their way); from it bounded staleness, and that every step is a step of
`StaleRegister` or a stutter.

`CalibrationGateProofs`: types; published was passed, from what a session that is
about to publish has judged; verdicts are recorded, since rows only accumulate;
successors add no duplicate, from what a session's earlier reads can have
missed; a repeated verdict is a no-op, as an action property, from the invariant
`Settled` on sessions that repeat an earlier verdict.

`DownstreamProofs` is about what stands between the API and the reader:

- the silence: types; the gate is linearizable, from `Seen`, which says that the
  value now in force is among those a running request has seen, and that a request
  that found no file may still use the environment; the audit properties from
  `Trail`, which counts rows by the progress of their command; a whole flag file
  from `Present`;
- delivery, for any requests, forecasts, ages and delay: types, with `OneTag`, which
  makes the CHOOSE of a 304 the copy the API looked at; then `SilenceReachesAll` and
  `CopiesAreRecent` from `Lately`. `Held` ties the clocks to the age of each request
  (it passed the gate, and its forecast was read, at most its age ago), `Kept` ties
  them to what a copy has left: a copy with the short max-age is bounded by that and
  the delay, one with the long max-age is also older than the election week, so the
  shorter bound is never owed while it is fresh;
- the app, for any loads, hours, age limits and skew: types; screen and cache agree,
  from `AppInv`, which says what the row is for a load that has used it and not yet
  shown what it got, and that the load whose result is shown has ended; no expired
  forecast appears, as an action property, from `BucketizeSpec`, what the branches
  of `bucketize` mean for an age in whole hours.

`BatchScrapeProofs`, for any runs, rows, calls, batches and waits: types;
`AllOrNothing` and `StampIsTrue` from `Whereabouts` (while a run can still commit,
each row it has parsed is stored, in its own transaction, or yet to be inserted;
never in another run's transaction, which is what waiting for a conflicting
insert is for) and `Ended` (what committed runs have in
common); `RequestsAreSpaced` from `Spacing`, which bounds what `last_call_at` may
claim by what has passed since the last answer.

`DHondtProofs`, for any parties, votes and seats: types with `Rounds` (no party
has more seats than there were rounds, so none exceeds the number of seats);
`AveragesAreHighest`, from `ScanOrder` and `BestLeads`, which say that the scan
goes up through the ids and that its best leads everything scanned; and that the
loop is the textbook's table. For the last, `Won` is the set of quotients that
have been awarded: it has as many members as seats were given (`Counted`), and
each precedes all others of the table (`WonPrecede`), so in a strict order it is
the set of the first ones (`WonAreTop`), and a party's share of it is 1 to its
seats. Quotients are compared as products in the lemma `QuotientsOrdered`.

`ForecastProductionProofs`, for any runs, interventions, inputs and instants:

- types; `InterventionsAreKept`, from `Chronology` (what an earlier run applied was
  active at its timestamp, which is not later than that of a run that begins after
  its commit; so, unless expired, it is active for that run too, and committed) and
  `LoadedKeep`;
- the payload. The invariant adds `TableIsSound` (ids are unique, and rows are what
  the command line lets in) and `LatestIsMade` (the row written last is what its run
  makes of some draws). `OverrideSpec`, `RenormaliseSpec` and `ZeroOutSpec` say what
  one intervention does to the mass of a row and to the shares of the removed;
  `MassStep` and `OutStep` carry it along the trace of the fold in the order of ids,
  where a later override may revive somebody: the claim is about who was removed
  last. `MatrixCounts` counts qualifications against pairs of the runoff matrix;
- the gates: `CoverageSpec` counts outcomes outside their interval as the
  complement of those inside, and `MedianSpec` ranks errors around the median of
  either parity: at least half of them are not above it.

`IngestionProofs`, for any files, names, documents, Memorias and overlapping runs:

- `ViewIsFaithful`, from `SnapshotLags` (what a pending refresh lacks was committed by
  runs that overlap it); `ReadingsAreWhole`, from `KeysStored` (every key of a
  document that a run has scored is stored or in its transaction), `Fresh` (nobody
  scores what was committed before it began) and `NotMixed`, which holds because two
  runs with one resolver find the same keys, and the second to write one skips it or
  waits;
- `LoadsLeaveTheTruth` and `RerunsAreIdempotent`, from `LoadInv`. Among its parts,
  `Identities` covers what open transactions have inserted, not only what is
  committed (ids differ, and names too as long as no two loads have overlapped);
  `Results` says which rows of the last file are stored, those no later row of the
  file replaces; `Reruns` says that a load of the file loaded last finds every
  candidate, which a candidate without results would break;
- `TypeCorrect` and `ReadingsHold`, from `SubjectInv`: resolvers and scores only name
  candidates and parties that a load has committed, and every score is a reading
  of its document by the resolver of its run. What the resolver does is
  `TakenIsApart`: if a free scan has taken an occurrence that overlaps one which no
  longer surface overlaps, both have the same place in the text. It holds because
  the trace of the scan is ordered by length, and whatever displaced the other
  would have to be ahead of it;
- `MemoriasConfirm`. `MunicipalSpec` says that the grouping is a permutation of the
  rows, so none is lost and two mayors of one municipality would be two in the
  table, which the parser refuses. The totals need one more invariant, `Sourced`:
  every stored result is of some row of a committed file. Then, after one load of a
  file that has each cell once, while no name has two candidates, rows and results
  are in bijection, and `SumReindexed` carries the sum over.

Assumptions that data meet. `LoadAssumption`: a file's rows are a list with
integer votes; the provisional file of 2023 has national rows of the rounds it
publishes (`load_2023_provisional.py`); no code stands twice in a seed
(`test_no_duplicate_level_code_pairs`). `NamesAssumption`, `ResolverAssumption`:
whatever the files name is written in tokens that have a normal form.
`ScoringAssumption`: articles and posts are distinct. `ProductionAssumption`: a
manual probability is a fraction between 0 and 1 (the command refuses others), and
backtests are lists of records. `MemoriaAssumption`: a Memoria is of one of the four
cycles that have a parser, and a table is a list. `DHondtAssumption`,
`ServingAssumption`, `DeliveryAssumption`, `AndroidAssumption` and
`ScrapeAssumption` bound the kinds of parameters and order the limits as the
code's defaults are.

Only model-checked are the three liveness properties, `EventuallyCurrent`,
`NeverStuckLoading` and `RunsEnd`: they rest on fairness and ENABLED, which are
out of the prover's reach. The three runs that find a violation state what a
document claims, and there is nothing to prove about them.

## Not modelled

- The sampling of fundamentals, poll aggregator and runoff model: Bayesian
  inference over reals. Their draws are inputs of `Posterior`.
- The bias estimator: one UPDATE by primary key per pollster. Pollsters that are
  absent from the cycles asked for keep their old priors.
- The poll parser, the reading of XLSX, CSV and PDF files (the PDF path of the
  Memoria always raises), the backtests: text in, values out.
- The Go scrapers: next in the plan. They insert row by row without a transaction,
  so an error midway leaves the earlier rows (`rss/aggregator.go:212`,
  `macro.go:75`); the archive run is stamped successful although windows failed
  (`rss/archive.go:134`); a failure row is written with the context whose
  cancellation caused the failure (`tse/parties.go:98`), and retries back off
  under it (`tse/parties.go:177`).
- The health endpoint, which looks at the environment variable alone
  (`health.go:117`); the methodology endpoint, a read of one table.
- The reconnection delay of the listener (`listener.go:151`): that a drop is
  followed by a wait and a reconnection is modelled, its length is not.
- Tab availability, whose cached answers outlive a release, and the resume time of
  the app; its composables; that a 503 may come from an API without a database.
- `intervene --whatif`, which only prints; `force_publish.py`, which CONTEXT.md
  describes, is not in the repository.
- The design prototype, which no build includes.
