---------------------------- MODULE RolloutStore ----------------------------
(***************************************************************************)
(* The rollout row of one app and the transactions on it:                   *)
(* gestaltd/internal/coredata/app_rollouts.go and the admission and         *)
(* activation transactions of gestaltd_source_versions.go.                  *)
(*                                                                          *)
(* Each operator is the effect of one transaction as a function of the row  *)
(* it reads; the modules that use them make each one an atomic action.      *)
(* An app has one row, so a rollout is replaced, never kept beside another. *)
(* Times are whole ticks; Never is Go's zero time, which is before every    *)
(* tick.  The windows are added to CreatedAt at admission and at            *)
(* activation alike, so they are derived here rather than stored; of the    *)
(* timestamps a row ends with only FailedAt is read again.                  *)
(***************************************************************************)
EXTENDS Integers

CONSTANTS
    Versions,          \* versions of the app
    Sources,           \* gestaltd source versions (SOURCE_VERSION)
    NoRollout,         \* no row for the app
    EnrollmentWindow,  \* DefaultRolloutEnrollmentWindow
    RolloutTimeout,    \* DefaultRolloutTimeout
    StabilityWindow    \* HealthyStabilityWindow

Never == -1
Stamp == Nat \cup {Never}

ActiveStates == {"enrolling", "restarting"}
TerminalStates == {"complete", "failed"}
Modes == {"enrollment", "heartbeat"}

Rollout ==
    [version : Versions, state : ActiveStates \cup TerminalStates, mode : Modes,
     target : Sources, minimum : Nat, created : Nat, healthySince : Stamp,
     evaluated : Stamp, failed : Stamp]

ASSUME RolloutConstants ==
    /\ NoRollout \notin Rollout
    /\ EnrollmentWindow \in Nat \ {0}
    /\ RolloutTimeout \in Nat /\ RolloutTimeout > EnrollmentWindow
    /\ StabilityWindow \in Nat \ {0}

EnrollmentEndsAt(r) == r.created + EnrollmentWindow
Deadline(r) == r.created + RolloutTimeout

IsActive(r) == r # NoRollout /\ r.state \in ActiveStates

\* The identity of a rollout: the version and the rest of its epoch.
SameEpoch(r, s) ==
    /\ r.created = s.created
    /\ r.target = s.target
    /\ r.mode = s.mode

InitialState(mode) == IF mode = "heartbeat" THEN "restarting" ELSE "enrolling"

\* The row an admission or a retarget starts from.
Fresh(version, mode, target, minimum, at) ==
    [version |-> version, state |-> InitialState(mode), mode |-> mode,
     target |-> target, minimum |-> IF mode = "heartbeat" THEN minimum ELSE 0,
     created |-> at, healthySince |-> Never, evaluated |-> Never,
     failed |-> Never]

-----------------------------------------------------------------------------
(* transition: an epoch that is no longer active is returned as it is.      *)

Transitioned(r, state, at) ==
    IF r.state \notin ActiveStates THEN r
    ELSE [r EXCEPT !.state = state,
                   !.failed = IF state = "failed" THEN at ELSE @]

\* What a caller that holds the row `expected` gets back from the transaction.
TransitionResult(r, expected) ==
    IF r = NoRollout THEN "notFound"
    ELSE IF r.version # expected.version THEN "versionMismatch"
    ELSE IF ~SameEpoch(r, expected) THEN "epochMismatch"
    ELSE "ok"

TransitionFor(r, expected, state, at) ==
    IF TransitionResult(r, expected) = "ok" THEN Transitioned(r, state, at) ELSE r

-----------------------------------------------------------------------------
(* EvaluateHeartbeatRollout: one observation of the fleet, stamped before it *)
(* was made.                                                                *)

\* Variant: an observation counts however old it is.
EvaluatesAnyTime(r, at) == r.state = "restarting"

\* A delayed observation does not overwrite a newer one.
Evaluates(r, at) == r.state = "restarting" /\ at >= r.evaluated

\* Variant: health counts from a whole window before it was seen.
ObservedBackdated(r, healthy, at) ==
    [r EXCEPT !.evaluated = at,
              !.healthySince = IF healthy THEN at - StabilityWindow ELSE Never]

\* Variant: nothing fails a rollout that is never stable.
ObservedNoDeadline(r, healthy, at) ==
    LET since == IF ~healthy THEN Never
                 ELSE IF r.healthySince = Never THEN at ELSE r.healthySince
        stable == healthy /\ at >= since + StabilityWindow
    IN  [r EXCEPT !.evaluated = at, !.healthySince = since,
                  !.state = IF stable THEN "complete" ELSE @]

\* Health counts from the first of an unbroken run of healthy observations; a
\* run that is long enough before the deadline completes the rollout, and
\* without one the deadline fails it.
Observed(r, healthy, at) ==
    LET since == IF ~healthy THEN Never
                 ELSE IF r.healthySince = Never THEN at ELSE r.healthySince
        stable == /\ healthy /\ at >= since + StabilityWindow
                  /\ since + StabilityWindow <= Deadline(r)
        late == at >= Deadline(r)
    IN  [r EXCEPT !.evaluated = at,
                  !.healthySince = since,
                  !.state = IF stable THEN "complete" ELSE IF late THEN "failed" ELSE @,
                  !.failed = IF ~stable /\ late THEN at ELSE @]

-----------------------------------------------------------------------------
(* ActivateWithRolloutMode on one app's row.                                *)

\* Variant: a change of the minimum leaves the rollouts in progress alone.
RetargetsBySource(r, source, newSource, newMinimum, retry) ==
    /\ r # NoRollout
    /\ IF retry /\ r.target = newSource
       THEN IsActive(r) \/ (r.state = "failed" /\ r.failed >= source.updated)
       ELSE IsActive(r) /\ source.current # newSource

\* The row is retargeted when the activation changes anything and it is active;
\* a retry for the row's own source also reopens a failure since the last one.
Retargets(r, source, newSource, newMinimum, retry) ==
    /\ r # NoRollout
    /\ IF retry /\ r.target = newSource
       THEN IsActive(r) \/ (r.state = "failed" /\ r.failed >= source.updated)
       ELSE IsActive(r) /\ (source.current # newSource \/ source.minimum # newMinimum)

\* Variant: the epoch goes on under another target.
RetargetedInPlace(r, mode, newSource, newMinimum, at) ==
    Fresh(r.version, mode, newSource, newMinimum, r.created)

\* The version starts over in a new epoch.
Retargeted(r, mode, newSource, newMinimum, at) ==
    Fresh(r.version, mode, newSource, newMinimum, at)

\* The new shared source state; its timestamp moves only with a change.
ActivatedSource(source, newSource, newMinimum, retry, at) ==
    [current |-> newSource, minimum |-> newMinimum,
     updated |-> IF source.current # newSource \/ source.minimum # newMinimum \/ retry
                 THEN at ELSE source.updated]

=============================================================================
