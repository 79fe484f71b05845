---------------------------- MODULE AndroidClient ----------------------------
(***************************************************************************)
(* The presidential screen of the Android app, and the server it talks to. *)
(*                                                                         *)
(* PresidentialViewModel.load runs a coroutine: PresidentialRepository     *)
(* fetches over HTTP, the BlackoutInterceptor turns a 503 into an          *)
(* exception, and the answer is stored in the Room cache (200), wipes it   *)
(* (503) or is replaced by what the cache holds (anything else), before    *)
(* the view model's state is set.  Every suspension point is a step of its *)
(* own here, so two loads may overlap: the retry button stays on the       *)
(* screen until the next composition.                                      *)
(*                                                                         *)
(* Time is counted in ticks, Hour of them to the hour.                     *)
(***************************************************************************)
EXTENDS Integers

CONSTANTS
  Loads,         \* coroutines that may be under way at once
  MaxTime,       \* length of the history, in ticks
  Hour,          \* ticks per hour
  FreshHours, SlightHours, StaleHours,   \* FRESH_HOURS, ... of Freshness.kt
  Skew,          \* ticks the server's clock may be ahead of the device's
  Never,         \* an absent cache_invalid_until
  Nobody,        \* no load
  StorageFails   \* may a Room operation fail?

ASSUME AndroidAssumption ==
  /\ MaxTime \in Nat /\ Skew \in Nat
  /\ Hour \in Nat \ {0}
  /\ FreshHours \in Nat /\ SlightHours \in Nat /\ StaleHours \in Nat
  /\ FreshHours <= SlightHours /\ SlightHours <= StaleHours
  /\ Never \notin Nat
  /\ Nobody \notin Loads
  /\ StorageFails \in BOOLEAN

VARIABLES
  now,      \* the time
  server,   \* what the API is doing: open, or answering 503
  latest,   \* the payload it serves
  row,      \* the row of forecast_cache
  ui,       \* PresidentialViewModel._state
  screen,   \* the kind of state last composed
  pc,       \* progress of each load
  got,      \* the payload it holds
  storedBy, \* history: the load whose Room operation was last, if it worked
  shownBy   \* history: the load that set ui

srvVars == <<now, server, latest>>
rowVars == <<row, storedBy>>
uiVars == <<ui, shownBy>>
appVars == <<srvVars, rowVars, uiVars, screen, pc, got>>

Times == 0..(MaxTime + Skew)
Expiries == 0..(MaxTime + 1) \cup {Never}
Payload == [gen : Times, until : Expiries]
NoPayload == [gen |-> 0, until |-> 0]     \* expired since the beginning of time
NoRow == NoPayload

LoadedKinds == {"fresh", "slight", "stale"}
Kinds == LoadedKinds \cup {"none", "loading", "noRecent", "error", "blackout"}
Ui(kind) == [kind |-> kind, gen |-> 0, until |-> 0, age |-> 0]

-----------------------------------------------------------------------------
(* Freshness.kt.                                                           *)

(* Mutant of AgeHours: without the clamp.                                  *)
AgeHoursSigned(gen) == (now - gen) \div Hour

(* Whole hours, and none for a payload from the future.                    *)
AgeHours(gen) == (IF gen <= now THEN now - gen ELSE 0) \div Hour

Loaded(kind, p) ==
  [kind |-> kind, gen |-> p.gen, until |-> p.until, age |-> AgeHours(p.gen)]

ByAge(p) ==
  CASE AgeHours(p.gen) <= FreshHours -> Loaded("fresh", p)
    [] AgeHours(p.gen) \in (FreshHours + 1)..SlightHours -> Loaded("slight", p)
    [] AgeHours(p.gen) \in (SlightHours + 1)..StaleHours -> Loaded("stale", p)
    [] OTHER -> Ui("noRecent")

(* Mutant of Bucketize: the forced expiry is forgotten.                    *)
BucketizeByAge(p) == ByAge(p)

Bucketize(p) == IF p.until # Never /\ p.until <= now THEN Ui("noRecent") ELSE ByAge(p)

-----------------------------------------------------------------------------
(* load() and the user.                                                    *)

Launch(l) ==
  /\ pc[l] = "idle"
  /\ pc' = [pc EXCEPT ![l] = "fetching"]
  /\ ui' = Ui("loading")
  /\ shownBy' = Nobody
  /\ UNCHANGED <<srvVars, rowVars, screen, got>>

(* The view model is created: init calls load. *)
Open(l) == ui.kind = "none" /\ Launch(l)

(* The retry button: of the error and no-data screens and of the red       *)
(* banner.  The splash has none.                                           *)
Retry(l) == screen \in {"error", "noRecent", "stale"} /\ Launch(l)

(* Compose draws the current state. *)
Compose ==
  /\ screen # ui.kind
  /\ screen' = ui.kind
  /\ UNCHANGED <<srvVars, rowVars, uiVars, pc, got>>

(* The screen is left or the process dies: the scope and its coroutines    *)
(* are gone, the database stays.                                           *)
Leave ==
  /\ ui.kind # "none"
  /\ ui' = Ui("none")
  /\ screen' = "none"
  /\ pc' = [l \in Loads |-> "idle"]
  /\ got' = [l \in Loads |-> NoPayload]
  /\ shownBy' = Nobody
  /\ UNCHANGED <<srvVars, rowVars>>

-----------------------------------------------------------------------------
(* PresidentialRepository.fetch.                                           *)

(* The server answers 200 with its payload. *)
Served(l) ==
  /\ pc[l] = "fetching" /\ server = "open" /\ latest # NoPayload
  /\ pc' = [pc EXCEPT ![l] = "storing"]
  /\ got' = [got EXCEPT ![l] = latest]
  /\ UNCHANGED <<srvVars, rowVars, uiVars, screen>>

(* It answers 503, in the silence or because it has no database; the       *)
(* interceptor does not read the body.                                     *)
Refused(l) ==
  /\ pc[l] = "fetching" /\ server = "refusing"
  /\ pc' = [pc EXCEPT ![l] = "wiping"]
  /\ UNCHANGED <<srvVars, rowVars, uiVars, screen, got>>

(* Anything else: no network, a timeout, 404, 500, a body that does not    *)
(* parse.                                                                  *)
FetchFails(l) ==
  /\ pc[l] = "fetching"
  /\ pc' = [pc EXCEPT ![l] = "falling"]
  /\ UNCHANGED <<srvVars, rowVars, uiVars, screen, got>>

(* A Room operation of load l leaves row r; a failure is swallowed.        *)
Writes(l, r) ==
  \/ row' = r /\ storedBy' = l
  \/ StorageFails /\ row' = row /\ storedBy' = Nobody

(* The answer is stored. *)
Store(l) ==
  /\ pc[l] = "storing"
  /\ Writes(l, got[l])
  /\ pc' = [pc EXCEPT ![l] = "showing"]
  /\ UNCHANGED <<srvVars, uiVars, screen, got>>

(* Mutant of Wipe: the cached row stays.                                   *)
WipeNothing(l) ==
  /\ pc[l] = "wiping"
  /\ pc' = [pc EXCEPT ![l] = "silent"]
  /\ UNCHANGED <<srvVars, rowVars, uiVars, screen, got>>

(* The blackout deletes the row. *)
Wipe(l) ==
  /\ pc[l] = "wiping"
  /\ Writes(l, NoRow)
  /\ pc' = [pc EXCEPT ![l] = "silent"]
  /\ UNCHANGED <<srvVars, uiVars, screen, got>>

(* fallbackToCache reads the row. *)
ReadCache(l) ==
  /\ pc[l] = "falling"
  /\ got' = [got EXCEPT ![l] = row]
  /\ pc' = [pc EXCEPT ![l] = IF row = NoRow THEN "failing" ELSE "showing"]
  /\ UNCHANGED <<srvVars, rowVars, uiVars, screen>>

-----------------------------------------------------------------------------
(* The state is set and the coroutine ends.                                *)

Finish(l) ==
  /\ pc' = [pc EXCEPT ![l] = "idle"]
  /\ got' = [got EXCEPT ![l] = NoPayload]
  /\ shownBy' = l
  /\ UNCHANGED <<srvVars, rowVars, screen>>

Show(l) == pc[l] = "showing" /\ ui' = Bucketize(got[l]) /\ Finish(l)

ShowError(l) == pc[l] = "failing" /\ ui' = Ui("error") /\ Finish(l)

(* Mutant of ShowSplash: the exception ends the coroutine unseen.          *)
SplashLost(l) == pc[l] = "silent" /\ ui' = ui /\ Finish(l)

ShowSplash(l) == pc[l] = "silent" /\ ui' = Ui("blackout") /\ Finish(l)

-----------------------------------------------------------------------------
(* The world: the clock, the API's state and what it serves.               *)

TimePasses ==
  /\ now < MaxTime
  /\ now' = now + 1
  /\ UNCHANGED <<server, latest, rowVars, uiVars, screen, pc, got>>

(* The silence begins or ends; the API is started with or without a        *)
(* database.                                                               *)
ServerBecomes(s) ==
  /\ server # s
  /\ server' = s
  /\ UNCHANGED <<now, latest, rowVars, uiVars, screen, pc, got>>

(* A forecast generated now, by the server's clock, and its forced expiry:  *)
(* in AppNext that is the next tick or never.                              *)
Publish(gen, until) ==
  /\ gen \in now..(now + Skew)
  /\ until = Never \/ until > now
  /\ latest' = [gen |-> gen, until |-> until]
  /\ UNCHANGED <<now, server, rowVars, uiVars, screen, pc, got>>

-----------------------------------------------------------------------------
AppInit ==
  /\ now = 0
  /\ server \in {"open", "refusing"}
  /\ latest = NoPayload
  /\ row = NoRow
  /\ ui = Ui("none")
  /\ screen = "none"
  /\ pc = [l \in Loads |-> "idle"]
  /\ got = [l \in Loads |-> NoPayload]
  /\ storedBy = Nobody /\ shownBy = Nobody

(* A load that was started goes on by itself.                              *)
Proceed(l) ==
  \/ Served(l) \/ Refused(l) \/ FetchFails(l)
  \/ Store(l) \/ Wipe(l) \/ ReadCache(l)
  \/ Show(l) \/ ShowError(l) \/ ShowSplash(l)

World ==
  \/ TimePasses
  \/ \E s \in {"open", "refusing"} : ServerBecomes(s)
  \/ \E gen \in Times, until \in {now + 1, Never} : Publish(gen, until)

AppNext ==
  \/ \E l \in Loads : Open(l) \/ Retry(l) \/ Proceed(l)
  \/ Compose
  \/ Leave
  \/ World

AppSpec == AppInit /\ [][AppNext]_appVars

(* A coroutine is always resumed: the HTTP client has timeouts for         *)
(* connecting and reading, and a Room operation returns or throws.         *)
FairSpec == AppSpec /\ \A l \in Loads : WF_appVars(Proceed(l))

-----------------------------------------------------------------------------
AppTypeOK ==
  /\ now \in 0..MaxTime
  /\ server \in {"open", "refusing"}
  /\ latest \in Payload
  /\ row \in Payload
  /\ ui \in [kind : Kinds, gen : Times, until : Expiries, age : 0..MaxTime]
  /\ screen \in Kinds
  /\ pc \in [Loads -> {"idle", "fetching", "storing", "wiping", "falling", "showing",
                       "failing", "silent"}]
  /\ got \in [Loads -> Payload]
  /\ {storedBy, shownBy} \subseteq Loads \cup {Nobody}

(* A forecast never appears once its forced expiry has come or it is too   *)
(* old, wherever it comes from and however long the load took.             *)
NoExpiredForecastAppears ==
  [][(ui' # ui /\ ui'.kind \in LoadedKinds) =>
       /\ ui'.until = Never \/ ui'.until > now
       /\ now - ui'.gen < (StaleHours + 1) * Hour]_appVars

(* The loading screen gives way to another one. *)
NeverStuckLoading == ui.kind = "loading" ~> ui.kind # "loading"

(* The screen and the cache agree, unless the storage failed or another    *)
(* load has used it since: behind the splash there is no forecast that     *)
(* would be there again without a network, and a forecast on the screen is *)
(* the one that will be.                                                   *)
ScreenAgreesWithCache ==
  storedBy = shownBy =>
    /\ ui.kind = "blackout" => row = NoRow
    /\ ui.kind \in LoadedKinds => row = [gen |-> ui.gen, until |-> ui.until]

-----------------------------------------------------------------------------
(* What a comment says and the code does not do.                           *)

(* PresidentialUiState.Blackout: the cached payload has been wiped.        *)
SplashMeansWiped == ui.kind = "blackout" => row = NoRow

=============================================================================
