-------------------------- MODULE HeartbeatRollout --------------------------
(***************************************************************************)
(* One app's rollouts in heartbeat mode: the heartbeat writer of every      *)
(* process (appregistry/heartbeat_writer.go), the evaluation of the fleet   *)
(* (fleet_state.go, updateHeartbeatRolloutOutcome in poller.go and          *)
(* EvaluateHeartbeatRollout in coredata/app_rollouts.go), admission and     *)
(* activation.                                                              *)
(*                                                                          *)
(* A poller evaluates on its heartbeat ticker, and twice in a reconcile     *)
(* pass: before and after its own restart, with the rollout it read at the  *)
(* start of the pass.  An evaluation reads its clock, lists the heartbeats, *)
(* may ask the completion hook, and only then writes the rollout.  Progress *)
(* rows, which a heartbeat rollout does not read, are left to               *)
(* EnrollmentRollout: here a pass may or may not restart its replica.       *)
(***************************************************************************)
EXTENDS RolloutStore, Sequences, FiniteSets

CONSTANTS
    Instances,       \* gestaltd processes; an instance id is never reused
    Joining,         \* those that start later than the others
    Installed,       \* the version the fleet runs at the start, if any
    SourceOf,        \* the source version each process was built from
    Minimums,        \* minimum_healthy_instances an activation may ask for
    NoVersion,       \* no provider is running
    Broken,          \* the runtime reports an error or an unknown state
    NoBeat,          \* no heartbeat row
    HeartbeatTTL,    \* server.appRegistry.heartbeatTtl
    Retention,       \* server.appRegistry.heartbeatRetention
    MaxTime, MaxAdmissions, MaxActivations, MaxFaults, MaxCrashes,  \* bounds
    Settle           \* bound: time left after the last deadline and the last crash

Beat == [at : Nat, app : Versions \cup {NoVersion, Broken}]

\* validateAppRegistry refuses a stability window not longer than the lease.
ASSUME HeartbeatConstants ==
    /\ IsFiniteSet(Instances) /\ Joining \subseteq Instances
    /\ SourceOf \in [Instances -> Sources]
    /\ Installed \in Versions \cup {NoVersion} /\ Minimums \subseteq Nat \ {0}
    /\ NoVersion \notin Versions /\ Broken \notin Versions /\ NoVersion # Broken
    /\ NoBeat \notin Beat
    /\ HeartbeatTTL \in Nat \ {0} /\ StabilityWindow > HeartbeatTTL
    /\ Retention \in Nat /\ Retention >= HeartbeatTTL
    /\ MaxTime \in Nat /\ MaxAdmissions \in Nat /\ MaxActivations \in Nat
    /\ MaxFaults \in Nat /\ MaxCrashes \in Nat /\ Settle \in Nat

VARIABLES
    clock,       \* wall clock
    source,      \* the shared source-version state
    rollout,     \* the app's row of app_rollouts
    requests,    \* versions of the accepted change requests, oldest first
    outcomes,    \* app_version_rollout_outcomes, by change request
    admission,   \* the version admitted and not appended yet, if any
    beats,       \* gestaltd_instance_heartbeats
    pass,        \* the poller of each process
    running,     \* the version each process runs
    spent,       \* bounded events so far
    lastRan      \* history: when each process last ran the rollout's version

vars == <<clock, source, rollout, requests, outcomes, admission, beats, pass,
          running, spent, lastRan>>

\* `known` counts the change requests a reconcile pass has read, `seen` is the
\* rollout it works on, `now` the time of its evaluation and `healthy` what it
\* saw of the fleet; `local` is set while its own restart is still to come.
Pass == [at : {"off", "dead", "idle", "rollout", "now", "list", "evaluate",
               "record", "local", "start"},
         local : BOOLEAN, known : Nat, seen : Rollout \cup {NoRollout},
         now : Nat, healthy : BOOLEAN]

PassAt(label) == [at |-> label, local |-> FALSE, known |-> 0, seen |-> NoRollout,
                  now |-> 0, healthy |-> FALSE]

TypeOK ==
    /\ clock \in Nat
    /\ source \in [current : Sources, minimum : Nat \ {0}, updated : Nat]
    /\ rollout \in Rollout \cup {NoRollout}
    /\ requests \in Seq(Versions)
    /\ outcomes \in Seq({"none"} \cup TerminalStates) /\ Len(outcomes) = Len(requests)
    /\ admission \in Versions \cup {NoVersion}
    /\ beats \in [Instances -> Beat \cup {NoBeat}]
    /\ pass \in [Instances -> Pass]
    /\ running \in [Instances -> Versions \cup {NoVersion}]
    /\ spent \in [admissions : Nat, activations : Nat, faults : Nat, crashes : Nat]
    /\ lastRan \in [Instances -> Stamp]

\* No rollout is in progress: the app was never installed, or the fleet runs it.
Init ==
    /\ clock = 0
    /\ source \in [current : Sources, minimum : Minimums, updated : {0}]
    /\ rollout = NoRollout
    /\ requests = IF Installed = NoVersion THEN <<>> ELSE <<Installed>>
    /\ outcomes = IF Installed = NoVersion THEN <<>> ELSE <<"complete">>
    /\ admission = NoVersion
    /\ beats = [i \in Instances |-> NoBeat]
    /\ pass = [i \in Instances |-> PassAt(IF i \in Joining THEN "off" ELSE "idle")]
    /\ running = [i \in Instances |-> IF i \in Joining THEN NoVersion ELSE Installed]
    /\ spent = [admissions |-> 0, activations |-> 0, faults |-> 0, crashes |-> 0]
    /\ lastRan = [i \in Instances |-> Never]

-----------------------------------------------------------------------------
(* Admission and activation.                                                *)

\* History: of the version of the rollout, once there is one.
RanNow(now) ==
    lastRan' = [i \in Instances |->
        IF rollout' # NoRollout /\ running'[i] = rollout'.version THEN now ELSE
        IF rollout' # NoRollout /\ rollout # NoRollout
           /\ rollout'.version = rollout.version THEN lastRan[i] ELSE Never]

KnownVersions(k) == {requests[j] : j \in 1 .. k}
LatestKnownVersion(k) == IF k = 0 THEN NoVersion ELSE requests[k]

\* The last request for the version; 0 if there is none.
LatestRevisionIDForVersion(v) ==
    LET ids == {j \in 1 .. Len(requests) : requests[j] = v}
    IN  IF ids = {} THEN 0 ELSE CHOOSE j \in ids : \A k \in ids : k <= j

\* A rollout starts after the previous one was created, and has the time to end.
RoomForRollout ==
    /\ rollout # NoRollout => clock > rollout.created
    /\ clock + RolloutTimeout + Settle <= MaxTime

\* A version other than the desired one, or the desired one after it failed.
Admissible(v) ==
    \/ v # LatestKnownVersion(Len(requests))
    \/ rollout # NoRollout /\ rollout.state = "failed" /\ rollout.version = v

AdmitCreate(v) ==
    /\ admission = NoVersion
    /\ spent.admissions < MaxAdmissions
    /\ ~IsActive(rollout)
    /\ Admissible(v)
    /\ RoomForRollout
    /\ rollout' = Fresh(v, "heartbeat", source.current, source.minimum, clock)
    /\ admission' = v
    /\ spent' = [spent EXCEPT !.admissions = @ + 1]
    /\ UNCHANGED <<clock, source, requests, outcomes, beats, pass, running>>
    /\ RanNow(clock)

AdmitAppend ==
    /\ admission # NoVersion
    /\ requests' = Append(requests, admission)
    /\ outcomes' = Append(outcomes, "none")
    /\ admission' = NoVersion
    /\ UNCHANGED <<clock, source, rollout, beats, pass, running, spent,
                   lastRan>>

\* The request is not written: the rollout of that version is marked failed.
AdmitUndo ==
    /\ admission # NoVersion
    /\ spent.faults < MaxFaults
    /\ rollout' = IF rollout.version = admission
                  THEN Transitioned(rollout, "failed", clock) ELSE rollout
    /\ admission' = NoVersion
    /\ spent' = [spent EXCEPT !.faults = @ + 1]
    /\ UNCHANGED <<clock, source, requests, outcomes, beats, pass, running,
                   lastRan>>

\* The admitting process dies before it appended the request.
AdmitCrash ==
    /\ admission # NoVersion
    /\ spent.crashes < MaxCrashes
    /\ admission' = NoVersion
    /\ spent' = [spent EXCEPT !.crashes = @ + 1]
    /\ UNCHANGED <<clock, source, rollout, requests, outcomes, beats, pass,
                   running, lastRan>>

Activate(newSource, newMinimum, retry) ==
    /\ spent.activations < MaxActivations
    /\ IF Retargets(rollout, source, newSource, newMinimum, retry)
       THEN /\ RoomForRollout
            /\ rollout' = Retargeted(rollout, "heartbeat", newSource, newMinimum, clock)
       ELSE UNCHANGED rollout
    /\ source' = ActivatedSource(source, newSource, newMinimum, retry, clock)
    /\ spent' = [spent EXCEPT !.activations = @ + 1]
    /\ UNCHANGED <<clock, requests, outcomes, admission, beats, pass, running,
                   lastRan>>

-----------------------------------------------------------------------------
(* The heartbeat writer of a process: WriteOnce.                            *)

Alive(i) == pass[i].at \notin {"off", "dead"}

\* SnapshotRegistryApps, which may fail to read the active-version marker, and
\* Upsert; when a prune is due the rows older than the retention go, of whatever
\* process they are.  (The time is read before the snapshot, so a slow write is a
\* row that expires earlier than here.)
WriteOnce(i, readable, due) ==
    LET written == [beats EXCEPT ![i] =
            [at |-> clock, app |-> IF readable THEN running[i] ELSE Broken]]
        old == {j \in Instances :
                   written[j] # NoBeat /\ written[j].at < clock - Retention}
    IN  /\ Alive(i)
        /\ readable \/ spent.faults < MaxFaults
        /\ beats' = [j \in Instances |-> IF due /\ j \in old THEN NoBeat ELSE written[j]]
        /\ spent' = [spent EXCEPT !.faults = IF readable THEN @ ELSE @ + 1]
        /\ UNCHANGED <<clock, source, rollout, requests, outcomes, admission, pass,
                       running, lastRan>>

-----------------------------------------------------------------------------
(* The poller of a process.                                                 *)

At(i, label) == pass[i].at = label
EndPass(i) == pass' = [pass EXCEPT ![i] = PassAt("idle")]

\* What every step of a pass leaves alone.
Elsewhere == UNCHANGED <<clock, source, requests, admission, beats>>
Runtime == UNCHANGED <<running, lastRan>>

\* The process comes up with the desired version, or with none if that fails.
Boot(i, started) ==
    LET v == LatestKnownVersion(Len(requests)) IN
    /\ At(i, "off")
    /\ started \/ spent.faults < MaxFaults
    /\ running' = [running EXCEPT ![i] = IF started THEN v ELSE NoVersion]
    /\ spent' = [spent EXCEPT !.faults = IF started THEN @ ELSE @ + 1]
    /\ EndPass(i)
    /\ Elsewhere /\ UNCHANGED <<rollout, outcomes>>
    /\ RanNow(clock)

\* What a pass keeps of the row: its copy of `evaluated` is never looked at.
Copy(r) == [r EXCEPT !.evaluated = Never]

\* A heartbeat tick evaluates the rollout that ListActive returns, as of then.
BeginEvaluations(i) ==
    /\ At(i, "idle")
    /\ IsActive(rollout)
    /\ pass' = [pass EXCEPT ![i].at = "list", ![i].seen = Copy(rollout),
                            ![i].now = clock]
    /\ Elsewhere /\ Runtime /\ UNCHANGED <<rollout, outcomes, spent>>

\* A reconcile pass reads the change requests, and then the rollout.
BeginReconcile(i) ==
    /\ At(i, "idle")
    /\ pass' = [pass EXCEPT ![i].at = "rollout", ![i].local = TRUE,
                            ![i].known = Len(requests)]
    /\ Elsewhere /\ Runtime /\ UNCHANGED <<rollout, outcomes, spent>>

AfterEvaluation(i) ==
    IF pass[i].local
    THEN pass' = [pass EXCEPT ![i].at = "local", ![i].now = 0, ![i].healthy = FALSE]
    ELSE EndPass(i)

\* A pass that does not know the version of the rollout evaluates it and does no
\* more.
ReadRollout(i) ==
    /\ At(i, "rollout")
    /\ pass' = IF IsActive(rollout)
               THEN [pass EXCEPT
                        ![i].at = "list", ![i].seen = Copy(rollout), ![i].now = clock,
                        ![i].local = rollout.version \in KnownVersions(pass[i].known)]
               ELSE [pass EXCEPT ![i].at = "local"]
    /\ Elsewhere /\ Runtime /\ UNCHANGED <<rollout, outcomes, spent>>

\* The evaluation after a restart is of the row read before it.
ReadClock(i) ==
    /\ At(i, "now")
    /\ pass' = [pass EXCEPT ![i].at = "list", ![i].now = clock]
    /\ Elsewhere /\ Runtime /\ UNCHANGED <<rollout, outcomes, spent>>

\* Variant: a row counts however old it is.
AnyBeats(src, now) == {i \in Instances : beats[i] # NoBeat /\ SourceOf[i] = src}

\* ListFreshBySourceVersion.
FreshBeats(src, now) ==
    {i \in Instances : /\ beats[i] # NoBeat /\ SourceOf[i] = src
                       /\ beats[i].at >= now - HeartbeatTTL}

\* EvaluateFleetState: enough replicas run the version and none reports another
\* one or an error.  A replica that runs nothing counts neither way.
Healthy(r, now) ==
    LET live == FreshBeats(r.target, now) IN
    /\ Cardinality({i \in live : beats[i].app = r.version}) >= r.minimum
    /\ \A i \in live : beats[i].app \in {r.version, NoVersion}

\* As the pass sees it, this evaluation would complete the rollout.
WouldComplete(r, now) ==
    /\ r.healthySince # Never
    /\ now >= r.healthySince + StabilityWindow
    /\ r.healthySince + StabilityWindow <= Deadline(r)

\* updateHeartbeatRolloutOutcome up to its write.  Before it would complete the
\* rollout it asks the completion hook, which is ready only on a replica that runs
\* the version, and may fail there; a replica that is not ready leaves the rollout
\* to others.
ListFleet(i, fails) ==
    LET p == pass[i]
        healthy == Healthy(p.seen, p.now)
        asks == healthy /\ WouldComplete(p.seen, p.now)
        ready == running[i] = p.seen.version
    IN  /\ At(i, "list")
        /\ fails => asks /\ ready /\ spent.faults < MaxFaults
        /\ spent' = [spent EXCEPT !.faults = IF fails THEN @ + 1 ELSE @]
        /\ IF asks /\ ~ready THEN AfterEvaluation(i)
           ELSE IF fails /\ p.now < Deadline(p.seen) THEN EndPass(i)
           ELSE pass' = [pass EXCEPT ![i].at = "evaluate", ![i].healthy = healthy /\ ~fails]
        /\ Elsewhere /\ Runtime /\ UNCHANGED <<rollout, outcomes>>

\* EvaluateHeartbeatRollout.
Evaluate(i) ==
    LET p == pass[i]
        new == Observed(rollout, p.healthy, p.now)
    IN  /\ At(i, "evaluate")
        /\ IF TransitionResult(rollout, p.seen) = "ok" /\ Evaluates(rollout, p.now)
           THEN /\ rollout' = new
                /\ IF new.state \in TerminalStates
                   THEN pass' = [pass EXCEPT ![i].at = "record", ![i].seen = Copy(new)]
                   ELSE AfterEvaluation(i)
           ELSE UNCHANGED rollout /\ AfterEvaluation(i)
        /\ Elsewhere /\ Runtime /\ UNCHANGED <<outcomes, spent>>

\* recordRolloutOutcome.  A rollout that ended is not evaluated again.
RecordOutcome(i) ==
    LET p == pass[i]
        request == LatestRevisionIDForVersion(p.seen.version)
    IN  /\ At(i, "record")
        /\ outcomes' = IF request # 0 /\ outcomes[request] = "none"
                       THEN [outcomes EXCEPT ![request] = p.seen.state] ELSE outcomes
        /\ IF p.local THEN pass' = [pass EXCEPT ![i].at = "local", ![i].seen = NoRollout]
           ELSE EndPass(i)
        /\ Elsewhere /\ Runtime /\ UNCHANGED <<rollout, spent>>

\* The replica runs the desired version, or is left alone.
LeaveAlone(i) ==
    /\ At(i, "local")
    /\ EndPass(i)
    /\ Elsewhere /\ Runtime /\ UNCHANGED <<rollout, outcomes, spent>>

Stop(i) ==
    /\ At(i, "local")
    /\ running[i] # LatestKnownVersion(pass[i].known)
    /\ running' = [running EXCEPT ![i] = NoVersion]
    /\ pass' = [pass EXCEPT ![i].at = "start"]
    /\ Elsewhere /\ UNCHANGED <<rollout, outcomes, spent, lastRan>>

\* The restart delay is not over: a later pass starts the app.
AwaitDelay(i) ==
    /\ At(i, "start")
    /\ EndPass(i)
    /\ Elsewhere /\ Runtime /\ UNCHANGED <<rollout, outcomes, spent>>

\* A replica that restarted evaluates the rollout it read before once more.
Start(i, started) ==
    LET v == LatestKnownVersion(pass[i].known) IN
    /\ At(i, "start")
    /\ started \/ spent.faults < MaxFaults
    /\ spent' = [spent EXCEPT !.faults = IF started THEN @ ELSE @ + 1]
    /\ running' = [running EXCEPT ![i] = IF started THEN v ELSE NoVersion]
    /\ IF started /\ pass[i].seen # NoRollout
       THEN pass' = [pass EXCEPT ![i].at = "now", ![i].local = FALSE]
       ELSE EndPass(i)
    /\ Elsewhere /\ UNCHANGED <<rollout, outcomes>>
    /\ RanNow(clock)

Crash(i) ==
    /\ Alive(i)
    /\ spent.crashes < MaxCrashes
    /\ clock + Settle <= MaxTime
    /\ pass' = [pass EXCEPT ![i] = PassAt("dead")]
    /\ running' = [running EXCEPT ![i] = NoVersion]
    /\ spent' = [spent EXCEPT !.crashes = @ + 1]
    /\ UNCHANGED <<clock, source, rollout, requests, outcomes, admission, beats,
                   lastRan>>

Tick ==
    /\ clock < MaxTime
    /\ clock' = clock + 1
    /\ UNCHANGED <<source, rollout, requests, outcomes, admission, beats, pass,
                   running, spent>>
    /\ RanNow(clock')

Admit ==
    \/ \E v \in Versions : AdmitCreate(v)
    \/ AdmitAppend \/ AdmitUndo \/ AdmitCrash

PollStep(i) ==
    \/ \E started \in BOOLEAN : Boot(i, started)
    \/ BeginEvaluations(i) \/ BeginReconcile(i) \/ ReadRollout(i) \/ ReadClock(i)
    \/ (\E fails \in BOOLEAN : ListFleet(i, fails)) \/ Evaluate(i) \/ RecordOutcome(i)
    \/ LeaveAlone(i) \/ Stop(i) \/ AwaitDelay(i)
    \/ \E started \in BOOLEAN : Start(i, started)

Next ==
    \/ Admit
    \/ \E s \in Sources, m \in Minimums, retry \in BOOLEAN : Activate(s, m, retry)
    \/ \E i \in Instances, readable, due \in BOOLEAN : WriteOnce(i, readable, due)
    \/ \E i \in Instances : PollStep(i) \/ Crash(i)
    \/ Tick

Spec == Init /\ [][Next]_vars

\* Pollers run on a ticker, and time passes.
FairSpec ==
    /\ Spec
    /\ WF_vars(Tick)
    /\ \A i \in Instances : WF_vars(PollStep(i))

-----------------------------------------------------------------------------
(* What must hold.                                                          *)

\* A completed rollout was healthy for the stability window before its deadline,
\* and enough replicas of its target ran its version after healthy_since was
\* set: a replica that died right then had expired (EvaluateHeartbeatRollout,
\* ListFreshBySourceVersion and the rule that the window is longer than the
\* lease).
CompletedStable ==
    rollout # NoRollout /\ rollout.state = "complete" =>
        /\ rollout.healthySince >= rollout.created
        /\ rollout.healthySince + StabilityWindow <= Deadline(rollout)
        /\ Cardinality({i \in Instances :
               /\ SourceOf[i] = rollout.target
               /\ lastRan[i] > rollout.healthySince}) >= rollout.minimum

\* Of one epoch, observations are applied in the order of their times whoever
\* made them, health never becomes older, and what ended stays as it ended.
ObservationsInOrder ==
    [][ /\ rollout # NoRollout /\ rollout' # rollout
        /\ rollout'.version = rollout.version /\ SameEpoch(rollout, rollout')
        => /\ rollout.state \notin TerminalStates
           /\ rollout'.evaluated >= rollout.evaluated
           /\ rollout.healthySince = Never \/ rollout'.healthySince \in
                  {Never, rollout.healthySince} ]_vars

\* A rollout in progress is for the source version and the capacity that are
\* current, whenever it was admitted or retargeted.
TargetIsCurrent ==
    IsActive(rollout) =>
        rollout.target = source.current /\ rollout.minimum = source.minimum

\* The rollout row of the app behaves as RolloutEpochs promises.
Epochs == INSTANCE RolloutEpochs WITH
    NoEpoch <- NoRollout,
    epoch <- IF rollout = NoRollout THEN NoRollout
             ELSE [version |-> rollout.version, mode |-> rollout.mode,
                   target |-> rollout.target, created |-> rollout.created,
                   state |-> rollout.state]
ImplementsEpochs == Epochs!Spec

ASSUME EpochConstants == NoRollout \notin Epochs!Epoch

\* As long as one process survives, every rollout ends: not even replicas that
\* are never ready for its completion keep it open.
RolloutEnds ==
    []<>(\E i \in Instances : Alive(i)) => (IsActive(rollout) ~> ~IsActive(rollout))

=============================================================================
