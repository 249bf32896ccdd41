------------------------- MODULE EnrollmentRollout -------------------------
(***************************************************************************)
(* One app's rollouts in enrollment mode, end to end: admission             *)
(* (appregistry/installer.go), activation of a gestaltd source version      *)
(* (coredata/gestaltd_source_versions.go) and the catalog pollers of the    *)
(* fleet (appregistry/poller.go), which share the change requests, the      *)
(* rollout row, the progress rows (app_instance_materializations) and the   *)
(* outcome rows of one IndexedDB.                                           *)
(*                                                                          *)
(* A poller pass is a sequence of store calls that reads the change         *)
(* requests, then the rollout, and acts on those snapshots; passes of       *)
(* different instances, the admission and activations interleave at every   *)
(* call.  Only an instance's own poller writes its progress rows, one pass  *)
(* at a time.  Admissions of one app are serialised by the install lock,    *)
(* which InstallLock models.                                                *)
(*                                                                          *)
(* The fleet shares one clock.  Two rollouts of the app are never created   *)
(* in the same tick.  The app is local and restartable and the restart      *)
(* delay is off, as it is in production.                                    *)
(***************************************************************************)
EXTENDS RolloutStore, Sequences

CONSTANTS
    Instances,       \* gestaltd processes; an instance id is never reused
    Joining,         \* those that start later than the others
    SourceOf,        \* the source version each process was built from
    NoVersion,       \* no provider is running
    NoRow,           \* no progress row
    MaxAttempts,     \* maxReconcileAttempts
    LateAcks,        \* TRUE if an acknowledgement may land after enrollment ended
    MaxTime, MaxAdmissions, MaxActivations, MaxFaults, MaxCrashes   \* bounds

Row == [ack : Nat, restarted : Stamp, attempts : Nat]

ASSUME FleetConstants ==
    /\ Joining \subseteq Instances
    /\ SourceOf \in [Instances -> Sources]
    /\ NoVersion \notin Versions
    /\ NoRow \notin Row
    /\ MaxAttempts \in Nat \ {0}
    /\ LateAcks \in BOOLEAN
    /\ MaxTime \in Nat /\ MaxAdmissions \in Nat /\ MaxActivations \in Nat
    /\ MaxFaults \in Nat /\ MaxCrashes \in Nat

VARIABLES
    clock,       \* wall clock
    source,      \* the shared source-version state
    rollout,     \* the app's row of app_rollouts
    requests,    \* accepted change requests, oldest first
    progress,    \* app_instance_materializations, by instance and version
    outcomes,    \* app_version_rollout_outcomes, by change request
    admission,   \* the admission that holds the install lock
    pass,        \* the pass of each instance's poller
    running,     \* the version each process runs
    spent,       \* bounded events so far
    admittedAt,  \* history: when the current rollout was admitted
    ended        \* history: how the rollout of each admission ended

vars == <<clock, source, rollout, requests, progress, outcomes, admission,
          pass, running, spent, admittedAt, ended>>

\* Where a pass stands: `at` is its next store call, `known` how many change
\* requests it has read, `seen` the rollout it works on, `ack` the arguments of
\* an acknowledgement on its way to the store, `blocked` is restartBlocked,
\* `converged` what it saw of the cohort, and `final` is set once its local
\* work is done.
Ack == [version : Versions \cup {NoVersion}, since : Nat, at : Nat]
NoAck == [version |-> NoVersion, since |-> 0, at |-> 0]

Pass == [at : {"off", "dead", "idle", "rollout", "unaccepted", "ack", "ackWrite",
               "cohort", "decide", "record", "desired", "desiredWrite"},
         known : Nat, seen : Rollout \cup {NoRollout}, ack : Ack,
         blocked : BOOLEAN, converged : BOOLEAN, final : BOOLEAN]

PassAt(label) ==
    [at |-> label, known |-> 0, seen |-> NoRollout, ack |-> NoAck,
     blocked |-> FALSE, converged |-> FALSE, final |-> FALSE]

Idle == [step |-> "idle", version |-> NoVersion, at |-> 0]

TypeOK ==
    /\ clock \in Nat
    /\ source \in [current : Sources, minimum : Nat, updated : Nat]
    /\ rollout \in Rollout \cup {NoRollout}
    /\ requests \in Seq([to : Versions, at : Nat])
    /\ progress \in [Instances -> [Versions -> Row \cup {NoRow}]]
    /\ outcomes \in Seq({"none"} \cup TerminalStates)
    /\ Len(outcomes) = Len(requests)
    /\ admission \in [step : {"idle", "create", "append", "undo"},
                      version : Versions \cup {NoVersion}, at : Nat]
    /\ pass \in [Instances -> Pass]
    /\ running \in [Instances -> Versions \cup {NoVersion}]
    /\ spent \in [admissions : Nat, activations : Nat, faults : Nat, crashes : Nat]
    /\ admittedAt \in Nat
    /\ ended \subseteq Nat \X TerminalStates

Init ==
    /\ clock = 0
    /\ source \in [current : Sources, minimum : {0}, updated : {0}]
    /\ rollout = NoRollout
    /\ requests = <<>>
    /\ progress = [i \in Instances |-> [v \in Versions |-> NoRow]]
    /\ outcomes = <<>>
    /\ admission = Idle
    /\ pass = [i \in Instances |-> PassAt(IF i \in Joining THEN "off" ELSE "idle")]
    /\ running = [i \in Instances |-> NoVersion]
    /\ spent = [admissions |-> 0, activations |-> 0, faults |-> 0, crashes |-> 0]
    /\ admittedAt = 0
    /\ ended = {}

-----------------------------------------------------------------------------
(* Change requests and their projections, over the first k of them.         *)

RequestsFor(v, k) == {j \in 1 .. k : requests[j].to = v}
KnownVersions(k) == {requests[j].to : j \in 1 .. k}

\* The request with the latest timestamp; no two requests share one.
Latest(ids) == CHOOSE j \in ids : \A k \in ids : requests[k].at <= requests[j].at

UpdatedAt(v, k) == requests[Latest(RequestsFor(v, k))].at

\* The version requested last is the desired one.
LatestKnownVersion(k) == IF k = 0 THEN NoVersion ELSE requests[Latest(1 .. k)].to

\* Variant: the newest request, whatever its version.
LatestRevisionID(v) == Len(requests)

\* Among all requests accepted so far; 0 if none is for the version.
LatestRevisionIDForVersion(v) ==
    LET ids == RequestsFor(v, Len(requests))
    IN  IF ids = {} THEN 0 ELSE Latest(ids)

-----------------------------------------------------------------------------
(* The rollout row changes; a rollout that ends is put on record.           *)

ChangeRollout(new) ==
    /\ rollout' = new
    /\ ended' = IF IsActive(rollout) /\ new.state \in TerminalStates
                THEN ended \cup {<<admittedAt, new.state>>} ELSE ended

KeepRollout == UNCHANGED <<rollout, ended>>

-----------------------------------------------------------------------------
(* Admission: Installer.install, one at a time.                             *)

\* A version other than the desired one, or a retry of the desired one after
\* its rollout failed.  (add, upgrade and select differ only in which of these
\* they refuse.)
Admissible(v) ==
    \/ v # LatestKnownVersion(Len(requests))
    \/ rollout # NoRollout /\ rollout.state = "failed" /\ rollout.version = v

AdmitCheck(v) ==
    /\ admission = Idle
    /\ spent.admissions < MaxAdmissions
    /\ ~IsActive(rollout)
    /\ Admissible(v)
    /\ admission' = [step |-> "create", version |-> v, at |-> 0]
    /\ spent' = [spent EXCEPT !.admissions = @ + 1]
    /\ UNCHANGED <<clock, source, rollout, requests, progress, outcomes, pass,
                   running, admittedAt, ended>>

\* A rollout starts after the previous one was created, and has the time to end.
RoomForRollout ==
    /\ rollout # NoRollout => clock > rollout.created
    /\ clock + RolloutTimeout <= MaxTime

\* CreateAppRollout replaces a rollout that has ended.
AdmitCreate ==
    /\ admission.step = "create"
    /\ ~IsActive(rollout)
    /\ RoomForRollout
    /\ rollout' = Fresh(admission.version, "enrollment", source.current, 0, clock)
    /\ admittedAt' = clock
    /\ admission' = [admission EXCEPT !.step = "append", !.at = clock]
    /\ UNCHANGED <<clock, source, requests, progress, outcomes, pass, running,
                   spent, ended>>

\* A refusal on the way (paused deploys, retention, an invalid package), or of a
\* rollout in progress.
AdmitRefuse ==
    /\ admission.step = "create"
    /\ admission' = Idle
    /\ UNCHANGED <<clock, source, rollout, requests, progress, outcomes, pass,
                   running, spent, admittedAt, ended>>

AppendRequest ==
    /\ requests' = Append(requests, [to |-> admission.version, at |-> admission.at])
    /\ outcomes' = Append(outcomes, "none")

AdmitAppend ==
    /\ admission.step = "append"
    /\ AppendRequest
    /\ admission' = Idle
    /\ UNCHANGED <<clock, source, rollout, progress, pass, running, spent,
                   admittedAt, ended>>

\* The call fails, before or after the store wrote the request.
AdmitAppendFails(written) ==
    /\ admission.step = "append"
    /\ spent.faults < MaxFaults
    /\ IF written THEN AppendRequest ELSE UNCHANGED <<requests, outcomes>>
    /\ admission' = [admission EXCEPT !.step = "undo"]
    /\ spent' = [spent EXCEPT !.faults = @ + 1]
    /\ UNCHANGED <<clock, source, rollout, progress, pass, running, admittedAt, ended>>

\* MarkFailed, which names the version and not the epoch.
AdmitUndo ==
    /\ admission.step = "undo"
    /\ IF rollout.version = admission.version
       THEN ChangeRollout(Transitioned(rollout, "failed", clock)) ELSE KeepRollout
    /\ admission' = Idle
    /\ UNCHANGED <<clock, source, requests, progress, outcomes, pass, running,
                   spent, admittedAt>>

\* The admitting process dies; its lock row expires in the end.
AdmitCrash ==
    /\ admission # Idle
    /\ spent.crashes < MaxCrashes
    /\ admission' = Idle
    /\ spent' = [spent EXCEPT !.crashes = @ + 1]
    /\ UNCHANGED <<clock, source, rollout, requests, progress, outcomes, pass,
                   running, admittedAt, ended>>

\* ActivateWithRolloutMode: one transaction over the source state and the row.
Activate(newSource, retry) ==
    /\ spent.activations < MaxActivations
    /\ IF Retargets(rollout, source, newSource, 0, retry)
       THEN /\ RoomForRollout
            /\ rollout' = Retargeted(rollout, "enrollment", newSource, 0, clock)
       ELSE UNCHANGED rollout
    /\ source' = ActivatedSource(source, newSource, 0, retry, clock)
    /\ spent' = [spent EXCEPT !.activations = @ + 1]
    /\ UNCHANGED <<clock, requests, progress, outcomes, admission, pass, running,
                   admittedAt, ended>>

-----------------------------------------------------------------------------
(* A pass of instance i's poller: ReconcileOnce and reconcileApp.           *)

At(i, label) == pass[i].at = label
EndPass(i) == pass' = [pass EXCEPT ![i] = PassAt("idle")]
Driver(i) == LatestKnownVersion(pass[i].known)

\* Variant: the attempts left are counted down.
ChargeAttemptDown(i) ==
    LET v == Driver(i) IN
    progress' =
        IF v \in Versions /\ progress[i][v] # NoRow
        THEN [progress EXCEPT ![i][v].attempts = @ - 1] ELSE progress

\* A pass that returns an error charges an attempt to the desired version's
\* row, if the app has one (recordFailure).
ChargeAttempt(i) ==
    LET v == Driver(i) IN
    progress' =
        IF v \in Versions /\ progress[i][v] # NoRow
        THEN [progress EXCEPT ![i][v].attempts = @ + 1] ELSE progress

FailPass(i) == EndPass(i) /\ ChargeAttempt(i)

\* What every step of a pass leaves alone.
Elsewhere == UNCHANGED <<clock, source, requests, admission, admittedAt>>

\* registryAppStartup, before the poller runs: the process comes up with the
\* desired version, or with none if that fails.
Boot(i, started) ==
    /\ At(i, "off")
    /\ started \/ spent.faults < MaxFaults
    /\ running' = [running EXCEPT ![i] =
           IF started THEN LatestKnownVersion(Len(requests)) ELSE NoVersion]
    /\ spent' = [spent EXCEPT !.faults = IF started THEN @ ELSE @ + 1]
    /\ EndPass(i)
    /\ Elsewhere /\ KeepRollout /\ UNCHANGED <<progress, outcomes>>

\* ListAllKnownVersions; the instance's own rows, read next, only it writes.
ReadKnown(i) ==
    /\ At(i, "idle")
    /\ pass' = [pass EXCEPT ![i].at = "rollout", ![i].known = Len(requests)]
    /\ Elsewhere /\ KeepRollout
    /\ UNCHANGED <<progress, outcomes, running, spent>>

\* ListActive.
ReadRollout(i) ==
    /\ At(i, "rollout")
    /\ pass' =
           IF IsActive(rollout)
           THEN [pass EXCEPT ![i].seen = rollout,
                             ![i].at = IF rollout.version \in KnownVersions(pass[i].known)
                                       THEN "ack" ELSE "unaccepted"]
           ELSE [pass EXCEPT ![i].at = "desired"]
    /\ Elsewhere /\ KeepRollout
    /\ UNCHANGED <<progress, outcomes, running, spent>>

Goto(i, label) ==
    IF label = "idle" THEN EndPass(i) ELSE pass' = [pass EXCEPT ![i].at = label]

\* Only a rollout that is past enrollment is evaluated.
ThenEvaluate(r) == IF r.state = "restarting" THEN "cohort" ELSE "desired"

\* A Mark...ForRollout call.  The row as it is after the call goes into the pass
\* when the epochs agree, even if the call found the rollout ended already.
MarkForRollout(i, state, onEpochMismatch) ==
    LET result == TransitionResult(rollout, pass[i].seen)
        new == TransitionFor(rollout, pass[i].seen, state, clock)
    IN  \/ /\ result = "ok"
           /\ ChangeRollout(new)
           /\ pass' = [pass EXCEPT ![i].seen = new, ![i].at =
                  IF state = "restarting" THEN ThenEvaluate(new) ELSE "record"]
           /\ UNCHANGED progress
        \/ result = "epochMismatch" /\ KeepRollout /\ Goto(i, onEpochMismatch)
           /\ UNCHANGED progress
        \/ result = "versionMismatch" /\ KeepRollout /\ FailPass(i)

\* Variant: a rollout without a request is nobody's business.
UnacceptedIgnored(i) ==
    /\ At(i, "unaccepted")
    /\ EndPass(i) /\ KeepRollout
    /\ Elsewhere /\ UNCHANGED <<progress, outcomes, running, spent>>

\* A rollout whose change request is not known is failed at its deadline.
Unaccepted(i) ==
    /\ At(i, "unaccepted")
    /\ IF clock < Deadline(pass[i].seen)
       THEN EndPass(i) /\ KeepRollout /\ UNCHANGED progress
       ELSE MarkForRollout(i, "failed", "idle")
    /\ Elsewhere /\ UNCHANGED <<outcomes, running, spent>>

\* ensureAcknowledged: the row must not be older than `since`.
Acknowledged(i, v, since) == progress[i][v] # NoRow /\ progress[i][v].ack >= since

\* The time is taken before the write is sent.
StampAck(i, v, since, label) ==
    /\ pass' = [pass EXCEPT ![i].at = label,
                            ![i].ack = [version |-> v, since |-> since, at |-> clock]]
    /\ Elsewhere /\ KeepRollout
    /\ UNCHANGED <<progress, outcomes, running, spent>>

\* AcknowledgeForRollout starts the row over, no earlier than `since`.
WriteAck(i, label) ==
    LET ack == pass[i].ack IN
    /\ progress' = [progress EXCEPT ![i][ack.version] =
           [ack |-> IF ack.at < ack.since THEN ack.since ELSE ack.at,
            restarted |-> Never, attempts |-> 0]]
    /\ pass' = [pass EXCEPT ![i].at = label, ![i].ack = NoAck]
    /\ Elsewhere /\ KeepRollout
    /\ UNCHANGED <<outcomes, running, spent>>

AckRollout(i) ==
    LET seen == pass[i].seen IN
    /\ At(i, "ack")
    /\ ~Acknowledged(i, seen.version, seen.created)
    /\ StampAck(i, seen.version, seen.created, "ackWrite")

AckRolloutWrite(i) ==
    /\ At(i, "ackWrite")
    /\ WriteAck(i, "ack")

\* Variants: enrollment closes at once; an open enrollment blocks nothing.
EnrollmentClosed(r) == FALSE
NeverBlocked(r) == FALSE

EnrollmentOpen(r) == clock < EnrollmentEndsAt(r)
RestartBlocked(r) == r.state = "enrolling"

\* Restarts are blocked while enrollment lasts; after it the first poller moves
\* the rollout on, and every poller evaluates it.
Phase(i) ==
    LET seen == pass[i].seen IN
    /\ At(i, "ack")
    /\ Acknowledged(i, seen.version, seen.created)
    /\ IF seen.state = "restarting" \/ EnrollmentOpen(seen)
       THEN /\ pass' = [pass EXCEPT ![i].at = ThenEvaluate(seen),
                                    ![i].blocked = RestartBlocked(seen)]
            /\ KeepRollout /\ UNCHANGED progress
       ELSE MarkForRollout(i, "restarting", "idle")
    /\ Elsewhere /\ UNCHANGED <<outcomes, running, spent>>

\* The replicas a rollout waits for: those built from its target that
\* acknowledged it in its window.
Cohort(r) ==
    {i \in Instances :
        /\ progress[i][r.version] # NoRow
        /\ r.created <= progress[i][r.version].ack
        /\ progress[i][r.version].ack < EnrollmentEndsAt(r)
        /\ SourceOf[i] = r.target}

RestartedInTime(i, r) ==
    /\ r.created <= progress[i][r.version].restarted
    /\ progress[i][r.version].restarted <= Deadline(r)

\* Variant: one restarted member is enough.
SomeRestarted(r) == \E i \in Cohort(r) : RestartedInTime(i, r)

Converged(r) == Cohort(r) # {} /\ \A i \in Cohort(r) : RestartedInTime(i, r)

\* updateRolloutOutcome lists the cohort, then acts on what it saw.
ListCohort(i) ==
    /\ At(i, "cohort")
    /\ pass' = [pass EXCEPT ![i].at = "decide", ![i].converged = Converged(pass[i].seen)]
    /\ Elsewhere /\ KeepRollout
    /\ UNCHANGED <<progress, outcomes, running, spent>>

AfterOutcome(i) == IF pass[i].final THEN "idle" ELSE "desired"

\* prepareRolloutCompletion says the app is ready, is not, or fails.
Hook == {"ready", "notReady", "error"}

Decide(i, hook) ==
    LET p == pass[i] IN
    /\ At(i, "decide")
    /\ hook # "ready" => p.converged /\ spent.faults < MaxFaults
    /\ spent' = [spent EXCEPT !.faults = IF hook = "ready" THEN @ ELSE @ + 1]
    /\ IF p.converged /\ hook = "ready"
       THEN MarkForRollout(i, "complete", AfterOutcome(i))
       ELSE IF clock >= Deadline(p.seen)
       THEN MarkForRollout(i, "failed", AfterOutcome(i))
       ELSE /\ IF hook = "error" THEN FailPass(i)
               ELSE Goto(i, AfterOutcome(i)) /\ UNCHANGED progress
            /\ KeepRollout
    /\ Elsewhere /\ UNCHANGED <<outcomes, running>>

\* Variant: only completions are recorded.
RecordedOutcomeComplete(request, state) ==
    IF request # 0 /\ outcomes[request] = "none" /\ state = "complete"
    THEN [outcomes EXCEPT ![request] = state] ELSE outcomes

\* The first outcome recorded for a request stays.
RecordedOutcome(request, state) ==
    IF request # 0 /\ outcomes[request] = "none"
    THEN [outcomes EXCEPT ![request] = state] ELSE outcomes

\* recordRolloutOutcome: the request is looked up after the transition.  The
\* pass goes on unless it came from the unaccepted branch or from its own end.
RecordOutcome(i) ==
    LET seen == pass[i].seen
        request == LatestRevisionIDForVersion(seen.version)
        accepted == seen.version \in KnownVersions(pass[i].known)
    IN  /\ At(i, "record")
        /\ outcomes' = RecordedOutcome(request, seen.state)
        /\ Goto(i, IF accepted THEN AfterOutcome(i) ELSE "idle")
        /\ Elsewhere /\ KeepRollout
        /\ UNCHANGED <<progress, running, spent>>

\* The desired version is acknowledged too when the rollout is not its own; a
\* row that says restarted leaves nothing to do.
NeedsAck(i) ==
    LET v == Driver(i) IN
    /\ pass[i].known # 0
    /\ pass[i].seen # NoRollout => pass[i].seen.version # v
    /\ ~Acknowledged(i, v, UpdatedAt(v, pass[i].known))

AckDesired(i) ==
    /\ At(i, "desired") /\ NeedsAck(i)
    /\ StampAck(i, Driver(i), UpdatedAt(Driver(i), pass[i].known), "desiredWrite")

AckDesiredWrite(i) ==
    /\ At(i, "desiredWrite")
    /\ WriteAck(i, "desired")

Pending(i) ==
    /\ At(i, "desired") /\ pass[i].known # 0
    /\ ~NeedsAck(i)
    /\ progress[i][Driver(i)].restarted = Never

\* Variant: one attempt fewer.
AtLimitEarly(i) == progress[i][Driver(i)].attempts + 1 >= MaxAttempts

AtLimit(i) == progress[i][Driver(i)].attempts >= MaxAttempts

\* Nothing to do, or nothing that may be done: the package is fetched during
\* enrollment and no more; at the retry limit a replica that does not run the
\* version, or still has a superseded package to prune, is left alone.
LeaveAlone(i) ==
    /\ At(i, "desired")
    /\ \/ pass[i].known = 0
       \/ /\ pass[i].known # 0 /\ ~NeedsAck(i)
          /\ progress[i][Driver(i)].restarted # Never
       \/ Pending(i) /\ (pass[i].blocked \/ AtLimit(i))
    /\ EndPass(i)
    /\ Elsewhere /\ KeepRollout /\ UNCHANGED <<progress, outcomes, running, spent>>

\* Variant: any running provider will do.
FoundRunningAny(i, v) == running[i] # NoVersion

FoundRunning(i, v) == running[i] = v

\* The replica stops the old version and starts the desired one, or finds it
\* running; a replica that restarted evaluates the rollout once more.
Restart(i) ==
    LET v == Driver(i) IN
    /\ Pending(i) /\ ~pass[i].blocked
    /\ AtLimit(i) => FoundRunning(i, v)
    /\ running' = [running EXCEPT ![i] = IF FoundRunning(i, v) THEN @ ELSE v]
    /\ progress' = [progress EXCEPT ![i][v].restarted = clock]
    /\ IF ~FoundRunning(i, v) /\ pass[i].seen # NoRollout /\ pass[i].seen.state = "restarting"
       THEN pass' = [pass EXCEPT ![i].at = "cohort", ![i].final = TRUE]
       ELSE EndPass(i)
    /\ Elsewhere /\ KeepRollout /\ UNCHANGED <<outcomes, spent>>

\* Local work fails.  Fetching the package fails before the limit and the
\* enrollment window are looked at and leaves what runs; a failed start leaves
\* nothing running; a failed prune leaves the desired version running.
RestartFails(i, left) ==
    /\ Pending(i)
    /\ spent.faults < MaxFaults
    /\ left \in {running[i], NoVersion, Driver(i)}
    /\ left # running[i] =>
           ~pass[i].blocked /\ ~AtLimit(i) /\ running[i] # Driver(i)
    /\ running' = [running EXCEPT ![i] = left]
    /\ spent' = [spent EXCEPT !.faults = @ + 1]
    /\ FailPass(i)
    /\ Elsewhere /\ KeepRollout /\ UNCHANGED outcomes

Crash(i) ==
    /\ pass[i].at \notin {"off", "dead"}
    /\ spent.crashes < MaxCrashes
    /\ pass' = [pass EXCEPT ![i] = PassAt("dead")]
    /\ running' = [running EXCEPT ![i] = NoVersion]
    /\ spent' = [spent EXCEPT !.crashes = @ + 1]
    /\ Elsewhere /\ KeepRollout /\ UNCHANGED <<progress, outcomes>>

-----------------------------------------------------------------------------
\* Time passes.  Unless LateAcks, an acknowledgement stamped inside the window
\* of the current rollout lands inside it.
AckInFlight(i) ==
    /\ pass[i].at \in {"ackWrite", "desiredWrite"}
    /\ rollout # NoRollout
    /\ pass[i].ack.version = rollout.version
    /\ pass[i].ack.at < EnrollmentEndsAt(rollout)

Tick ==
    /\ clock < MaxTime
    /\ LateAcks \/ \A i \in Instances :
           AckInFlight(i) => clock + 1 < EnrollmentEndsAt(rollout)
    /\ clock' = clock + 1
    /\ UNCHANGED <<source, rollout, requests, progress, outcomes, admission, pass,
                   running, spent, admittedAt, ended>>

Admit ==
    \/ \E v \in Versions : AdmitCheck(v)
    \/ AdmitCreate \/ AdmitRefuse
    \/ AdmitAppend \/ \E written \in BOOLEAN : AdmitAppendFails(written)
    \/ AdmitUndo \/ AdmitCrash

PollStep(i) ==
    \/ \E started \in BOOLEAN : Boot(i, started)
    \/ ReadKnown(i) \/ ReadRollout(i) \/ Unaccepted(i)
    \/ AckRollout(i) \/ AckRolloutWrite(i) \/ Phase(i)
    \/ ListCohort(i) \/ (\E hook \in Hook : Decide(i, hook)) \/ RecordOutcome(i)
    \/ AckDesired(i) \/ AckDesiredWrite(i) \/ LeaveAlone(i) \/ Restart(i)
    \/ \E left \in Versions \cup {NoVersion} : RestartFails(i, left)

Next ==
    \/ Admit
    \/ \E s \in Sources, retry \in BOOLEAN : Activate(s, retry)
    \/ \E i \in Instances : PollStep(i) \/ Crash(i)
    \/ Tick

Spec == Init /\ [][Next]_vars

\* Pollers run on a ticker, admissions return, and time passes.
FairSpec ==
    /\ Spec
    /\ WF_vars(Tick)
    /\ WF_vars(AdmitCreate \/ AdmitAppend \/ AdmitUndo)
    /\ \A i \in Instances : WF_vars(PollStep(i))

-----------------------------------------------------------------------------
(* What must hold.                                                          *)

Live(i) == pass[i].at \notin {"off", "dead"}

\* A rollout that the fleet sees as complete (MarkCompleteForRollout) was
\* accepted, had a cohort, and every member of it restarted between creation and
\* deadline, although one poller counts the cohort while others acknowledge and
\* restart, and uses the count in a later call.
CompletedCohort ==
    rollout # NoRollout /\ rollout.state = "complete" =>
        /\ \E j \in 1 .. Len(requests) : requests[j].to = rollout.version
        /\ Cohort(rollout) # {}
        /\ \A i \in Cohort(rollout) :
               progress[i][rollout.version].restarted \in
                   rollout.created .. Deadline(rollout)

\* The members of a completed rollout that are still alive run its version, if
\* the app was not moved back to that version from another one.
MembersRunIt ==
    LET v == rollout.version IN
    /\ rollout # NoRollout /\ rollout.state = "complete"
    /\ \A j, k \in 1 .. Len(requests) :
           requests[j].to # v /\ requests[k].to = v => j < k
    => \A i \in Cohort(rollout) : Live(i) => running[i] = v

\* Once MarkRestarting has closed enrollment, nobody joins or leaves the cohort
\* of that epoch.
FrozenCohort ==
    [][ /\ rollout # NoRollout /\ rollout.state \in {"restarting", "complete"}
        /\ rollout'.version = rollout.version /\ SameEpoch(rollout, rollout')
        => Cohort(rollout)' = Cohort(rollout) ]_vars

\* A poller puts no replica on the version of a rollout whose enrollment window
\* is open: restarts wait for it to close.
NoRestartWhileEnrolling ==
    [][ \A i \in Instances :
          Live(i) /\ running'[i] # running[i] /\ rollout # NoRollout
             /\ running'[i] = rollout.version
          => ~(rollout.state = "enrolling" /\ clock < EnrollmentEndsAt(rollout)) ]_vars

\* An outcome recorded for a change request is how the rollout admitted with
\* that request ended, and it never changes.  The request is looked up by version
\* after the transition, so this is said of versions requested once.
OutcomeOfItsRequest ==
    [][ \A j \in 1 .. Len(outcomes) :
          outcomes'[j] # outcomes[j] =>
             /\ outcomes[j] = "none"
             /\ (\A k \in 1 .. Len(requests) \ {j} : requests[k].to # requests[j].to) =>
                    <<requests[j].at, outcomes'[j]>> \in ended ]_vars

\* The rollout row of the app behaves as RolloutEpochs promises.
Epochs == INSTANCE RolloutEpochs WITH
    NoEpoch <- NoRollout,
    epoch <- IF rollout = NoRollout THEN NoRollout
             ELSE [version |-> rollout.version, mode |-> rollout.mode,
                   target |-> rollout.target, created |-> rollout.created,
                   state |-> rollout.state]
ImplementsEpochs == Epochs!Spec

ASSUME EpochConstants == NoRollout \notin Epochs!Epoch

\* As long as one process survives, every rollout ends: no crash of an
\* admission, of a poller or of a cohort member leaves the app blocked for
\* further admissions.
RolloutEnds == IsActive(rollout) ~> ~IsActive(rollout)

\* Every surviving replica ends up running the version requested last.
FleetConverges ==
    <>[](\A i \in Instances :
            Live(i) => running[i] = LatestKnownVersion(Len(requests)))

\* A change request whose admission has ended while its rollout is in progress
\* gets an outcome in the end, unless a process dies: only the poller that ends a rollout
\* records its outcome, and no other one makes up for it.
OutcomeRecorded ==
    [](spent.crashes = 0) =>
        \A j \in 1 .. MaxAdmissions :
            (/\ j <= Len(requests) /\ admittedAt = requests[j].at
             /\ admission = Idle /\ IsActive(rollout))
                ~> (j <= Len(outcomes) /\ outcomes[j] # "none")

-----------------------------------------------------------------------------
(* The inductive invariant behind CompletedCohort, FrozenCohort and           *)
(* ImplementsEpochs, in named parts.                                          *)

\* What is on record lies in the past, no request is younger than the row, and
\* requests are in the order of their times.
TimesPast ==
    /\ rollout # NoRollout => rollout.created <= clock
    /\ \A j \in 1 .. Len(requests) :
           rollout # NoRollout /\ requests[j].at <= rollout.created
    /\ \A j, k \in 1 .. Len(requests) : j <= k => requests[j].at <= requests[k].at
    /\ admission.step = "append" =>
           \A j \in 1 .. Len(requests) : requests[j].at <= admission.at
    /\ admission.step \in {"append", "undo"} =>
           rollout # NoRollout /\ admission.at <= rollout.created
    /\ admission.step # "idle" => admission.version \in Versions

\* Where a pass stands says what it holds, and which of the instance's rows of
\* progress exist: a rollout is acknowledged before it is acted on.
Shaped(p, rows) ==
    /\ p.known <= Len(requests)
    /\ p.at \in {"off", "dead", "idle", "rollout"} => p.seen = NoRollout
    /\ p.at \in {"unaccepted", "ack", "ackWrite", "cohort", "decide", "record"}
          => p.seen # NoRollout
    /\ p.at \in {"unaccepted", "ack", "ackWrite"} => p.seen.state \in ActiveStates
    /\ p.at \in {"ack", "ackWrite"} => p.seen.version \in KnownVersions(p.known)
    /\ p.at \in {"cohort", "decide"} => p.seen.state = "restarting"
    /\ p.at = "record" => p.seen.state \in TerminalStates
    /\ p.at \in {"ackWrite", "desiredWrite"} => p.ack.version \in Versions
    /\ p.at = "unaccepted" => p.seen.version \notin KnownVersions(p.known)
    /\ p.at \in {"cohort", "decide"} => rows[p.seen.version] # NoRow
    /\ p.at \in {"desired", "desiredWrite"} /\ p.seen # NoRollout =>
           rows[p.seen.version] # NoRow
    /\ p.at = "record" /\ p.seen.version \in KnownVersions(p.known) =>
           rows[p.seen.version] # NoRow

PassShape == \A i \in Instances : Shaped(pass[i], progress[i])

\* A pass never holds a rollout newer than the row, and what it holds of the
\* row's own epoch is the row at an earlier stage.
Behind(seen) ==
    seen # NoRollout =>
        /\ rollout # NoRollout /\ seen.created <= rollout.created
        /\ seen.created = rollout.created =>
               /\ seen.version = rollout.version /\ SameEpoch(rollout, seen)
               /\ seen.state # "enrolling" => rollout.state # "enrolling"

SeenBehind == \A i \in Instances : Behind(pass[i].seen)

\* An acknowledgement on its way is due: the row it starts over is older.
AckDue ==
    \A i \in Instances :
        LET ack == pass[i].ack IN
        pass[i].at \in {"ackWrite", "desiredWrite"} =>
            /\ ack.version \in KnownVersions(Len(requests))
            /\ rollout # NoRollout /\ ack.since <= rollout.created
            /\ progress[i][ack.version] # NoRow =>
                   progress[i][ack.version].ack < ack.since

\* Progress is kept only for accepted versions.
RowsAccepted ==
    \A i \in Instances, v \in Versions :
        progress[i][v] # NoRow => v \in KnownVersions(Len(requests))

\* The restart phase starts after the window, when no acknowledgement that
\* belongs in it is still on its way.
WindowClosed ==
    /\ rollout # NoRollout =>
           /\ rollout.state \in {"restarting", "complete"} =>
                  EnrollmentEndsAt(rollout) <= clock
           /\ EnrollmentEndsAt(rollout) <= clock =>
                  \A i \in Instances : ~AckInFlight(i)
    /\ \A i \in Instances :
           /\ pass[i].seen # NoRollout
           /\ pass[i].seen.state \in {"restarting", "complete"}
           => EnrollmentEndsAt(pass[i].seen) <= clock

\* A pass that counted the cohort of the current epoch as converged is still
\* right when it acts on it, and so is the row that says complete.
CountHolds ==
    /\ \A i \in Instances :
           /\ pass[i].at = "decide" /\ pass[i].converged
           /\ pass[i].seen.created = rollout.created
           => Converged(rollout)
    /\ rollout # NoRollout /\ rollout.state = "complete" => Converged(rollout)

EpochInvariant == TypeOK /\ TimesPast /\ PassShape /\ SeenBehind
CohortInvariant == AckDue /\ RowsAccepted /\ WindowClosed /\ CountHolds

\* Requests carry different times, in their order.
RequestsOrdered ==
    /\ \A j, k \in 1 .. Len(requests) : j < k => requests[j].at < requests[k].at
    /\ admission.step = "append" =>
           \A j \in 1 .. Len(requests) : requests[j].at < admission.at

\* A replica that never came up has no progress.
OffHasNoRow ==
    \A i \in Instances : pass[i].at = "off" => \A v \in Versions : progress[i][v] = NoRow

\* All requests for other versions came before those for this one.
RequestedLast(v) ==
    \A j, k \in 1 .. Len(requests) : requests[j].to # v /\ requests[k].to = v => j < k

HasRestarted(i, v) == progress[i][v] # NoRow /\ progress[i][v].restarted # Never

\* A replica that restarted for such a version runs it, and a pass that is under
\* way there has it as the desired version.
RunsRestarted ==
    \A i \in Instances, v \in Versions : RequestedLast(v) /\ HasRestarted(i, v) =>
        /\ Live(i) => running[i] = v
        /\ pass[i].known # 0 => requests[pass[i].known].to = v

MemberInvariant == RequestsOrdered /\ OffHasNoRow /\ RunsRestarted
=============================================================================
