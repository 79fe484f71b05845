--------------------------- MODULE BlackoutControl ---------------------------
(***************************************************************************)
(* The electoral silence: who may flip it, and what every request sees.    *)
(*                                                                         *)
(*   middleware.Blackout  decides each forecast request from the flag file *)
(*                        and, if that cannot be read, from the process's  *)
(*                        BLACKOUT_ENABLED, in two separate reads;         *)
(*   cmd/blackout         replaces the flag file by a rename, then inserts *)
(*                        an audit row: several operators may be at it;    *)
(*   systemd timer        (external) restarts the API with another         *)
(*                        environment;                                     *)
(*                                                                         *)
(* The temporary file comes from os.CreateTemp, so after the rename the    *)
(* flag file belongs to the operator's account with mode 0600.             *)
(***************************************************************************)
EXTENDS Naturals, Sequences

CONSTANTS
  Invocations,  \* enable/disable commands issued in the history
  Handlers,     \* request goroutines of the API
  Users,        \* accounts that run the CLI or the API
  ApiUser       \* the account the API runs under

ASSUME BlackoutAssumption == ApiUser \in Users

VARIABLES
  env,      \* BLACKOUT_ENABLED in the API's environment, parsed
  content,  \* contents of the flag file
  owner,    \* account owning the flag file
  progress, \* of each CLI invocation
  want,     \* the value it writes
  temp,     \* its temporary file beside the flag file
  user,     \* the account it runs under
  flipped,  \* history: invocations whose rename took effect
  audit,    \* rows of blackout_overrides, as invocations, in id order
  phase,    \* progress of each request
  seen      \* history: effective values since the request arrived

cliVars == <<progress, want, temp, user, flipped, audit>>
reqVars == <<phase, seen>>
blackoutVars == <<env, content, owner, cliVars, reqVars>>

Flag == {"on", "off"}
Quiet == {"ready", "ok", "failed", "killed"}

-----------------------------------------------------------------------------
(* Reading the flag.                                                       *)

(* os.ReadFile by account u succeeds.                                      *)
Readable(u) == content # "missing" /\ owner = u

(* A readable file decides, an unparseable one as off.                     *)
Parsed == IF content = "on" THEN "on" ELSE "off"

(* Mutant of Effective: the environment can only add to the file.          *)
EitherSource == IF env = "on" \/ (Readable(ApiUser) /\ Parsed = "on") THEN "on" ELSE "off"

(* What blackoutActive returns when nothing moves while it runs.           *)
Effective == IF Readable(ApiUser) THEN Parsed ELSE env

-----------------------------------------------------------------------------
(* cmd/blackout enable | disable.                                          *)

(* Arguments, flag file and audit writer are in order. *)
Begin(i, v, u) ==
  /\ progress[i] = "ready"
  /\ progress' = [progress EXCEPT ![i] = "writing"]
  /\ want' = [want EXCEPT ![i] = v]
  /\ user' = [user EXCEPT ![i] = u]
  /\ UNCHANGED <<env, content, owner, temp, flipped, audit, reqVars>>

(* writeFlagFile: os.CreateTemp, then write, sync and close.               *)
CreateTemp(i) ==
  /\ progress[i] = "writing" /\ temp[i] = "none"
  /\ temp' = [temp EXCEPT ![i] = "partial"]
  /\ UNCHANGED <<env, content, owner, progress, want, user, flipped, audit, reqVars>>

SyncTemp(i) ==
  /\ progress[i] = "writing" /\ temp[i] = "partial"
  /\ temp' = [temp EXCEPT ![i] = "whole"]
  /\ UNCHANGED <<env, content, owner, progress, want, user, flipped, audit, reqVars>>

(* Mutant of RefuseOrWriteFails: no cleanup.                               *)
FailsWithoutCleanup(i) ==
  /\ progress[i] \in {"ready", "writing"}
  /\ progress' = [progress EXCEPT ![i] = "failed"]
  /\ UNCHANGED <<env, content, owner, want, temp, user, flipped, audit, reqVars>>

(* Usage error, no flag file configured, no database, or the temporary     *)
(* file cannot be created, written, synced, closed or renamed; cleanup     *)
(* removes it.                                                             *)
RefuseOrWriteFails(i) ==
  /\ progress[i] \in {"ready", "writing"}
  /\ progress' = [progress EXCEPT ![i] = "failed"]
  /\ temp' = [temp EXCEPT ![i] = "none"]
  /\ UNCHANGED <<env, content, owner, want, user, flipped, audit, reqVars>>

(* Requests under way see the value in force after i's rename as well: its *)
(* own, if the API may read i's file.                                      *)
Witnessed(i) ==
  LET now == IF user[i] = ApiUser THEN want[i] ELSE env
  IN  [r \in Handlers |-> IF phase[r] \in {"arrived", "noFile"}
                          THEN seen[r] \cup {now} ELSE seen[r]]

(* Mutant of Rename: the value is written in place, and may be cut short.  *)
WriteInPlace(i) ==
  /\ progress[i] = "writing"
  /\ progress' = [progress EXCEPT ![i] = "flipped"]
  /\ content' \in {want[i], "torn"}
  /\ owner' = user[i]
  /\ flipped' = flipped \cup {i}
  /\ seen' = Witnessed(i)
  /\ UNCHANGED <<env, want, temp, user, audit, phase>>

(* os.Rename puts the synced temporary file in place. *)
Rename(i) ==
  /\ progress[i] = "writing" /\ temp[i] = "whole"
  /\ progress' = [progress EXCEPT ![i] = "flipped"]
  /\ temp' = [temp EXCEPT ![i] = "none"]
  /\ content' = want[i]
  /\ owner' = user[i]
  /\ flipped' = flipped \cup {i}
  /\ seen' = Witnessed(i)
  /\ UNCHANGED <<env, want, user, audit, phase>>

(* Mutant of InsertAudit: a retry after a lost reply.                      *)
InsertRetried(i) ==
  /\ progress[i] = "flipped"
  /\ audit' = Append(audit, i)
  /\ progress' \in {[progress EXCEPT ![i] = "ok"], progress}
  /\ UNCHANGED <<env, content, owner, want, temp, user, flipped, reqVars>>

(* The INSERT commits; its reply may still be lost, and the command then   *)
(* reports an error.                                                       *)
InsertAudit(i) ==
  /\ progress[i] = "flipped"
  /\ audit' = Append(audit, i)
  /\ \E outcome \in {"ok", "failed"} : progress' = [progress EXCEPT ![i] = outcome]
  /\ UNCHANGED <<env, content, owner, want, temp, user, flipped, reqVars>>

(* The INSERT fails, or the signal context is cancelled: an error is       *)
(* returned and the flag file stays flipped.                               *)
InsertFails(i) ==
  /\ progress[i] = "flipped"
  /\ progress' = [progress EXCEPT ![i] = "failed"]
  /\ UNCHANGED <<env, content, owner, want, temp, user, flipped, audit, reqVars>>

(* The process is killed between two steps. *)
Kill(i) ==
  /\ progress[i] \in {"writing", "flipped"}
  /\ progress' = [progress EXCEPT ![i] = "killed"]
  /\ UNCHANGED <<env, content, owner, want, temp, user, flipped, audit, reqVars>>

-----------------------------------------------------------------------------
(* A request to /v1/forecast/*.                                            *)

Arrive(r) ==
  /\ phase[r] \in {"idle", "silenced", "served"}
  /\ phase' = [phase EXCEPT ![r] = "arrived"]
  /\ seen' = [seen EXCEPT ![r] = {Effective}]
  /\ UNCHANGED <<env, content, owner, cliVars>>

Decided(v) == IF v = "on" THEN "silenced" ELSE "served"

(* blackoutFromFile: a readable file settles it. *)
ReadFile(r) ==
  /\ phase[r] = "arrived"
  /\ phase' = [phase EXCEPT ![r] = IF Readable(ApiUser) THEN Decided(Parsed) ELSE "noFile"]
  /\ UNCHANGED <<env, content, owner, cliVars, seen>>

(* Mutant of ReadEnv: the fallback fails closed, silent without a file.    *)
AssumeOn(r) ==
  /\ phase[r] = "noFile"
  /\ phase' = [phase EXCEPT ![r] = "silenced"]
  /\ UNCHANGED <<env, content, owner, cliVars, seen>>

(* blackoutActive: otherwise the environment decides, in a second read. *)
ReadEnv(r) ==
  /\ phase[r] = "noFile"
  /\ phase' = [phase EXCEPT ![r] = Decided(env)]
  /\ UNCHANGED <<env, content, owner, cliVars, seen>>

(* External: the timer changes the unit's environment and restarts the API *)
(* (a process cannot see its environment change); v = env is a plain       *)
(* restart.  Requests in progress end with the old process.                *)
RestartApi(v) ==
  /\ env' = v
  /\ phase' = [r \in Handlers |-> "idle"]
  /\ seen' = [r \in Handlers |-> {}]
  /\ UNCHANGED <<content, owner, cliVars>>

-----------------------------------------------------------------------------
BlackoutInit ==
  /\ env \in Flag
  /\ content = "missing"
  /\ owner = ApiUser
  /\ progress = [i \in Invocations |-> "ready"]
  /\ want = [i \in Invocations |-> "off"]
  /\ temp = [i \in Invocations |-> "none"]
  /\ user = [i \in Invocations |-> ApiUser]
  /\ flipped = {}
  /\ audit = <<>>
  /\ phase = [r \in Handlers |-> "idle"]
  /\ seen = [r \in Handlers |-> {}]

Cli(i) ==
  \/ \E v \in Flag, u \in Users : Begin(i, v, u)
  \/ CreateTemp(i)
  \/ SyncTemp(i)
  \/ RefuseOrWriteFails(i)
  \/ Rename(i)
  \/ InsertAudit(i)
  \/ InsertFails(i)
  \/ Kill(i)

Api(r) == Arrive(r) \/ ReadFile(r) \/ ReadEnv(r)

BlackoutNext ==
  \/ \E i \in Invocations : Cli(i)
  \/ \E r \in Handlers : Api(r)
  \/ \E v \in Flag : RestartApi(v)

BlackoutSpec == BlackoutInit /\ [][BlackoutNext]_blackoutVars

-----------------------------------------------------------------------------
BlackoutTypeOK ==
  /\ env \in Flag
  /\ content \in Flag \cup {"missing"}
  /\ owner \in Users
  /\ progress \in [Invocations -> Quiet \cup {"writing", "flipped"}]
  /\ want \in [Invocations -> Flag]
  /\ temp \in [Invocations -> {"none", "partial", "whole"}]
  /\ user \in [Invocations -> Users]
  /\ flipped \in SUBSET Invocations
  /\ audit \in Seq(Invocations)
  /\ phase \in [Handlers -> {"idle", "arrived", "noFile", "silenced", "served"}]
  /\ seen \in [Handlers -> SUBSET Flag]

(* A request is decided by a value that was in force at some moment while  *)
(* it ran, although file and environment are read one after the other with *)
(* flips and restarts in between: no request that arrives after a flip is  *)
(* decided by what held before it.                                         *)
GateIsLinearizable ==
  \A r \in Handlers :
    /\ phase[r] = "served" => "off" \in seen[r]
    /\ phase[r] = "silenced" => "on" \in seen[r]

(* The flag file is at every moment the complete file of one command that  *)
(* got as far as renaming it, contents and owner of the same command,      *)
(* whatever is killed or fails beside it; and a command that returns, in   *)
(* success or failure, leaves no temporary file behind.                    *)
FlagFileWhole ==
  /\ content # "missing" => \E i \in flipped : content = want[i] /\ owner = user[i]
  /\ \A i \in Invocations : progress[i] \in {"ok", "failed"} => temp[i] = "none"

(* A command that reports success has flipped the file and left exactly    *)
(* one audit row, however many others run at the same time.                *)
SuccessIsAudited ==
  \A i \in Invocations : progress[i] = "ok" =>
    /\ i \in flipped
    /\ \E k \in DOMAIN audit : audit[k] = i
    /\ \A k, l \in DOMAIN audit : audit[k] = i /\ audit[l] = i => k = l

(* Every audit row tells of a flip that took effect.                       *)
AuditedFlipsHappened == \A k \in DOMAIN audit : audit[k] \in flipped

(* What the audit table says is true: a command that reports success has   *)
(* one row, and no row is of a flip that did not happen.  (A flip without  *)
(* a row is possible: its INSERT may fail, or its process die, after the   *)
(* rename.)                                                                *)
AuditIsTrue == SuccessIsAudited /\ AuditedFlipsHappened

(* The override is the explicit path: while every flip so far was to v and *)
(* ran under the API's account, v is in force, whatever environment the    *)
(* timer restarts the API with.                                            *)
OverrideHolds ==
  \A v \in Flag :
    (flipped # {} /\ \A i \in flipped : want[i] = v /\ user[i] = ApiUser) => Effective = v

=============================================================================
