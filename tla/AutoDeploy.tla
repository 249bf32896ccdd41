----------------------------- MODULE AutoDeploy -----------------------------
(***************************************************************************)
(* Automatic deployment of one app: the auto-deploy controllers of the      *)
(* fleet (gestaltd/internal/appregistry/autodeploy/controller.go), one per  *)
(* replica, and the app admins' requests                                    *)
(* (gestaltd/internal/server/handlers_app_admin_registry.go), which share   *)
(* the settings row (coredata/app_auto_deploy_settings.go), the rollout and *)
(* the desired version.                                                     *)
(*                                                                          *)
(* Reconcile is a sequence of calls, each on the answers of earlier ones,   *)
(* and AutoDeploySettingsService.Update is two calls, a Get and a Put of    *)
(* the whole row: two updates that overlap lose one of them.  One action is *)
(* one call.  An admission is one action: InstallLock serialises            *)
(* admissions, and EnrollmentRollout and HeartbeatRollout look inside.      *)
(*                                                                          *)
(* Published versions are numbered in the order of publishedAt and          *)
(* rollouts in the order of CreatedAt; a rollout that fails does so before  *)
(* the next one is created, so its number also orders FailedAt.             *)
(***************************************************************************)
EXTENDS Integers

CONSTANTS
    Controllers,   \* one per gestaltd replica
    Admins,        \* app admins; each has one request in progress at most
    MaxVersions,   \* bound on the versions published
    MaxEvents      \* bound on requests, failed rollouts, errors and restarts together

Actors == Controllers \cup Admins

VARIABLES
    settings,   \* the row of app_auto_deploy_settings
    rollout,    \* the app's row of app_rollouts
    desired,    \* LatestKnownVersion of the change requests
    published,  \* the newest version in index.json; its ETag, too
    etags,      \* Controller.etags, in memory
    run,        \* the reconcile pass or request of each actor
    tried,      \* versions admitted, or rejected as candidates, so far
    events      \* how many of the bounded events have happened

vars == <<settings, rollout, desired, published, etags, run, tried, events>>

None == 0
Version == Nat

\* PauseReason follows Paused, and LastError is abstracted to "there is one".
Settings == [enabled : BOOLEAN, paused : BOOLEAN, pending : Version, seen : Version,
             error : BOOLEAN, handled : Nat]
NoSettings == [enabled |-> FALSE, paused |-> FALSE, pending |-> None, seen |-> None,
               error |-> FALSE, handled |-> 0]

\* "active" is enrolling or restarting.
Rollout == [number : Nat, version : Version, state : {"none", "active", "complete", "failed"}]
NoRollout == [number |-> 0, version |-> None, state |-> "none"]

Ops == {"none", "seen", "clearError", "known", "admitted", "rejected",
        "enable", "disable", "resume"}
Labels == {"idle", "rollout", "health", "fetch", "known", "select", "retried", "get", "put"}

\* What an actor carries from call to call: the row it read, the failed rollout
\* it is to handle, whether it found a rollout in progress, and an Update.
Run == [at : Labels, row : Settings, failed : Nat, active : BOOLEAN,
        op : Ops, version : Version]
Idle == [at |-> "idle", row |-> NoSettings, failed |-> 0, active |-> FALSE,
         op |-> "none", version |-> None]

TypeOK ==
    /\ settings \in Settings
    /\ rollout \in Rollout
    /\ desired \in Version
    /\ published \in Version
    /\ etags \in [Controllers -> Version]
    /\ run \in [Actors -> Run]
    /\ tried \subseteq Version
    /\ events \in Nat

\* A new app; one that has deployed its first version automatically; one whose
\* first version failed.
Init ==
    /\ \/ settings = NoSettings /\ rollout = NoRollout
       \/ /\ settings = [NoSettings EXCEPT !.enabled = TRUE, !.seen = 1]
          /\ rollout = [number |-> 1, version |-> 1, state |-> "complete"]
       \/ /\ settings = [NoSettings EXCEPT !.enabled = TRUE, !.paused = TRUE,
                                           !.error = TRUE, !.handled = 1]
          /\ rollout = [number |-> 1, version |-> 1, state |-> "failed"]
    /\ published = rollout.version
    /\ desired = rollout.version
    /\ tried = {rollout.version} \ {None}
    /\ etags = [c \in Controllers |-> None]
    /\ run = [a \in Actors |-> Idle]
    /\ events = 0

-----------------------------------------------------------------------------
(* The settings row.                                                        *)

SawNewest(row, v) ==
    IF ~row.enabled \/ row.paused \/ row.seen = v THEN row
    ELSE [row EXCEPT !.seen = v, !.pending = v, !.error = FALSE]

\* Only the version the pass captured is cleared.
ClearPending(row, v, error) ==
    IF row.pending = v THEN [row EXCEPT !.pending = None, !.error = error] ELSE row

\* PUT .../auto-deploy.
Enable(row) == [row EXCEPT !.enabled = TRUE, !.paused = FALSE, !.error = FALSE, !.seen = None]
Disable(row) ==
    [row EXCEPT !.enabled = FALSE, !.paused = FALSE, !.error = FALSE, !.pending = None]

\* The functions passed to Update.
Apply(op, v, row) ==
    CASE op = "seen" -> SawNewest(row, v)
      [] op = "clearError" -> [row EXCEPT !.error = FALSE]
      [] op = "known" -> ClearPending(row, v, row.error)
      [] op = "admitted" -> ClearPending(row, v, FALSE)
      [] op = "rejected" -> ClearPending(row, v, TRUE)
      [] op = "enable" -> Enable(row)
      [] op = "disable" -> Disable(row)
      [] op = "resume" -> [row EXCEPT !.paused = FALSE, !.error = FALSE]

\* The function passed to UpdateForRollout.
AfterFailure(row, n, healthy) ==
    [row EXCEPT !.pending = None, !.seen = None, !.paused = ~healthy, !.error = ~healthy,
                !.handled = n]

-----------------------------------------------------------------------------
(* Steps of an actor.                                                       *)

Goto(a, r) == run' = [run EXCEPT ![a] = r]

\* Start an Update; v is the version the pass captured.
Updating(r, op, v) ==
    [r EXCEPT !.at = "get", !.op = op, !.version = v, !.row = NoSettings,
              !.active = @ /\ op = "seen"]

KeepStores == UNCHANGED <<settings, rollout, desired, published, tried>>

\* Once the newest version is recorded: what the pass does with the row it has.
Coalesce(r) ==
    IF ~r.row.enabled \/ r.row.paused THEN Idle
    ELSE IF r.active
    THEN IF r.row.error THEN Updating(r, "clearError", None) ELSE Idle
    ELSE IF r.row.pending = None THEN Idle
    ELSE [Idle EXCEPT !.at = "known", !.version = r.row.pending]

\* AutoDeploySettingsService.Update: Get ...
UpdateGet(a) ==
    /\ run[a].at = "get"
    /\ Goto(a, [run[a] EXCEPT !.at = "put", !.row = settings])
    /\ KeepStores /\ UNCHANGED <<etags, events>>

\* ... and Put of the whole row.  The pass goes on only after "seen".
UpdatePut(a) ==
    /\ run[a].at = "put"
    /\ LET row == Apply(run[a].op, run[a].version, run[a].row)
       IN /\ settings' = row
          /\ Goto(a, IF run[a].op = "seen"
                     THEN Coalesce([run[a] EXCEPT !.row = row, !.op = "none", !.version = None])
                     ELSE Idle)
    /\ UNCHANGED <<rollout, desired, published, etags, tried, events>>

-----------------------------------------------------------------------------
(* Controller.Reconcile.                                                    *)

\* The ticker or a Notify; Settings.Get.  A pass that finds the row missing,
\* disabled or paused returns without another effect.
ReadSettings(c) ==
    /\ run[c].at = "idle"
    /\ settings.enabled /\ ~settings.paused
    /\ Goto(c, [Idle EXCEPT !.at = "rollout", !.row = settings])
    /\ KeepStores /\ UNCHANGED <<etags, events>>

\* Rollouts.Get.
ReadRollout(c) ==
    /\ run[c].at = "rollout"
    /\ Goto(c, IF rollout.state = "failed" /\ run[c].row.handled < rollout.number
               THEN [Idle EXCEPT !.at = "health", !.failed = rollout.number]
               ELSE [run[c] EXCEPT !.at = "fetch", !.active = rollout.state = "active"])
    /\ KeepStores /\ UNCHANGED <<etags, events>>

\* failedRolloutIsHealthy, then UpdateForRollout: one transaction, which does
\* nothing unless the rollout read is still the current one and failed.
HandleFailure(c, healthy) ==
    /\ run[c].at = "health"
    /\ settings' = IF rollout.number = run[c].failed /\ rollout.state = "failed"
                   THEN AfterFailure(settings, rollout.number, healthy) ELSE settings
    /\ Goto(c, Idle)
    /\ UNCHANGED <<rollout, desired, published, etags, tried, events>>

IfNoneMatch(c) == IF run[c].row.seen = None THEN None ELSE etags[c]

\* FetchAppIndexConditional: 304, 200, or 404 while nothing is published.
Fetch(c) ==
    /\ run[c].at = "fetch"
    /\ \/ /\ published # None /\ IfNoneMatch(c) = published
          /\ Goto(c, Coalesce(run[c]))
          /\ UNCHANGED etags
       \/ /\ published # None /\ IfNoneMatch(c) # published
          /\ etags' = [etags EXCEPT ![c] = published]
          /\ Goto(c, Updating(run[c], "seen", published))
       \/ /\ published = None
          /\ Goto(c, Coalesce(run[c]))
          /\ UNCHANGED etags
    /\ KeepStores /\ UNCHANGED events

\* ListKnownVersionsByApp.
CheckKnown(c) ==
    /\ run[c].at = "known"
    /\ Goto(c, IF desired = run[c].version
               THEN Updating(run[c], "known", run[c].version)
               ELSE [run[c] EXCEPT !.at = "select"])
    /\ KeepStores /\ UNCHANGED <<etags, events>>

-----------------------------------------------------------------------------
(* Installer.Select, for a controller and for an admin.                     *)

\* The desired version is selected again only to retry its failed rollout.
AlreadyInstalled(v) ==
    v = desired /\ ~(rollout.state = "failed" /\ rollout.version = v)
Admissible(v) == rollout.state # "active" /\ ~AlreadyInstalled(v)

\* The rollout is created and the change request appended.
Admit(v) ==
    /\ rollout' = [number |-> rollout.number + 1, version |-> v, state |-> "active"]
    /\ desired' = v
    /\ tried' = tried \cup {v}

Event == events < MaxEvents /\ events' = events + 1

\* The admission succeeds, finds the version installed, or finds a rollout in
\* progress (the pending version is then kept for a later pass).
Select(c) ==
    /\ run[c].at = "select"
    /\ LET v == run[c].version
       IN \/ Admissible(v) /\ Admit(v) /\ Goto(c, Updating(run[c], "admitted", v))
          \/ /\ rollout.state # "active" /\ AlreadyInstalled(v)
             /\ Goto(c, Updating(run[c], "admitted", v))
             /\ UNCHANGED <<rollout, desired, tried>>
          \/ rollout.state = "active" /\ Goto(c, Idle) /\ UNCHANGED <<rollout, desired, tried>>
    /\ UNCHANGED <<settings, published, etags, events>>

\* isCandidateRejection: invalid, expired or locked; not tried again.
SelectRejected(c) ==
    /\ run[c].at = "select"
    /\ Event
    /\ Admissible(run[c].version)
    /\ tried' = tried \cup {run[c].version}
    /\ Goto(c, Updating(run[c], "rejected", run[c].version))
    /\ UNCHANGED <<settings, rollout, desired, published, etags>>

\* AppendRequest fails and the rollout just created is marked failed.
SelectAppendFails(c) ==
    /\ run[c].at = "select"
    /\ Event
    /\ Admissible(run[c].version)
    /\ rollout' = [number |-> rollout.number + 1, version |-> run[c].version,
                   state |-> "failed"]
    /\ Goto(c, Idle)
    /\ UNCHANGED <<settings, desired, published, etags, tried>>

\* Any call of the pass or request fails (for Select: lock held, deploy pause,
\* an error): it ends where it is.
CallFails(a) ==
    /\ run[a].at # "idle"
    /\ Event
    /\ Goto(a, Idle)
    /\ KeepStores /\ UNCHANGED etags

\* The replica restarts: the ETags were in memory.
Restart(c) ==
    /\ Event
    /\ Goto(c, Idle)
    /\ etags' = [etags EXCEPT ![c] = None]
    /\ KeepStores

-----------------------------------------------------------------------------
(* Requests of app admins.                                                  *)

NewRequest(o) ==
    /\ run[o].at = "idle"
    /\ Event

\* updateAppAdminRegistryAutoDeploy.
Toggle(o, op) ==
    /\ NewRequest(o)
    /\ Goto(o, Updating(Idle, op, None))
    /\ KeepStores /\ UNCHANGED etags

\* selectAppAdminRegistryVersion; a refused selection changes nothing.
SelectVersion(o, v) ==
    /\ NewRequest(o)
    /\ Admissible(v) /\ Admit(v)
    /\ Goto(o, IF v = desired THEN [Idle EXCEPT !.at = "retried"] ELSE Idle)
    /\ UNCHANGED <<settings, published, etags>>

\* After a retry: Settings.Get, and an Update if automatic deployment is paused.
Retried(o) ==
    /\ run[o].at = "retried"
    /\ Goto(o, IF settings.enabled /\ settings.paused
               THEN Updating(Idle, "resume", None) ELSE Idle)
    /\ KeepStores /\ UNCHANGED <<etags, events>>

-----------------------------------------------------------------------------
(* The registry and the pollers.                                            *)

Publish ==
    /\ published < MaxVersions
    /\ published' = published + 1
    /\ UNCHANGED <<settings, rollout, desired, etags, run, tried, events>>

EndRollout(state) ==
    /\ rollout.state = "active"
    /\ rollout' = [rollout EXCEPT !.state = state]
    /\ \/ state = "complete" /\ UNCHANGED events
       \/ state = "failed" /\ Event
    /\ UNCHANGED <<settings, desired, published, etags, run, tried>>

-----------------------------------------------------------------------------
Reconcile(c) ==
    \/ ReadSettings(c) \/ ReadRollout(c) \/ Fetch(c) \/ CheckKnown(c) \/ Select(c)
    \/ \E healthy \in BOOLEAN : HandleFailure(c, healthy)
    \/ UpdateGet(c) \/ UpdatePut(c)

Serve(o) == Retried(o) \/ UpdateGet(o) \/ UpdatePut(o)

Next ==
    \/ \E c \in Controllers :
          Reconcile(c) \/ SelectRejected(c) \/ SelectAppendFails(c) \/ CallFails(c) \/ Restart(c)
    \/ \E o \in Admins :
          \/ Serve(o) \/ CallFails(o)
          \/ \E op \in {"enable", "disable"} : Toggle(o, op)
          \/ \E v \in 1 .. published : SelectVersion(o, v)
    \/ Publish
    \/ \E state \in {"complete", "failed"} : EndRollout(state)

Spec == Init /\ [][Next]_vars

\* The ticker of a replica keeps starting passes, a request in progress is
\* served, and the pollers end every rollout (RolloutEnds of the two rollout
\* modules).
FairSpec ==
    /\ Spec
    /\ \A c \in Controllers : WF_vars(Reconcile(c))
    /\ \A o \in Admins : WF_vars(Serve(o))
    /\ WF_vars(\E state \in {"complete", "failed"} : EndRollout(state))

-----------------------------------------------------------------------------
(* Properties.                                                              *)

\* Whatever stale row an Update writes back, a paused row never holds a pending
\* or a last-seen version: after the pause the newest version is looked up
\* again without an ETag, and nothing captured before the failure is admitted.
PausedIsReset ==
    settings.paused => settings.pending = None /\ settings.seen = None

\* A pause is for the current rollout's failure: only a step that finds the
\* current rollout failed, and records it as handled, sets paused; no write-back
\* of an older row pauses a newer manual retry.  (It holds of a fleet of one
\* replica; with two, a stale Put can restore a pause.)
PausedForFailure ==
    ~settings.paused /\ settings'.paused
        => rollout.state = "failed" /\ settings'.handled = rollout.number

\* While automatic deployment stays enabled and not paused, the newest published
\* version is admitted, or rejected as a candidate: "the periodic pass remains
\* the source of eventual convergence", and a newer target written by another
\* replica is preserved.
NewestTried ==
    <>[](settings.enabled /\ ~settings.paused) => <>[](published \in tried \cup {None})

=============================================================================
