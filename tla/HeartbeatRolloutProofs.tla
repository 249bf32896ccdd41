----------------------- MODULE HeartbeatRolloutProofs -----------------------
(***************************************************************************)
(* For every fleet, every set of versions, sources and capacities, every    *)
(* window, lease and retention with the window longer than the lease, and   *)
(* every bound: the types of HeartbeatRollout, that the rollout row         *)
(* implements RolloutEpochs, that observations are applied in order, that   *)
(* a rollout in progress is for the current source and capacity, and that   *)
(* a rollout completes only on replicas that ran its version after its      *)
(* health was first seen.                                                   *)
(*                                                                          *)
(* The last one is about three pieces of state that grow old separately:    *)
(* the heartbeats, what a pass saw of them, and the row.  The invariant     *)
(* says of each what it still proves of the fleet (BeatsRan, SeenHealthy,   *)
(* CompletedStable); the history lastRan ties them together.                *)
(***************************************************************************)
EXTENDS HeartbeatRollout, FiniteSetTheorems, TLAPS

\* What is on record lies in the past, and an admission under way has its row.
Past ==
    /\ rollout # NoRollout => rollout.created <= clock
    /\ admission # NoVersion => rollout # NoRollout
    /\ \A i \in Instances : /\ beats[i] # NoBeat => beats[i].at <= clock
                            /\ lastRan[i] <= clock

\* A pass never holds a rollout newer than the row, and one of the row's own
\* epoch is for the same version, target and capacity.
Behind(r, seen) ==
    seen # NoRollout =>
        /\ r # NoRollout /\ seen.created <= r.created
        /\ seen.created = r.created =>
               /\ seen.version = r.version /\ seen.target = r.target
               /\ seen.minimum = r.minimum

\* Where a pass stands says what it holds.
Shaped(p) ==
    /\ p.at \in {"list", "evaluate", "record", "now"} => p.seen # NoRollout
    /\ p.at \in {"list", "evaluate"} => p.seen.created <= p.now
    /\ p.at = "record" => p.seen.state \in TerminalStates

Passes ==
    \A i \in Instances : /\ pass[i].known <= Len(requests)
                         /\ Shaped(pass[i]) /\ Behind(rollout, pass[i].seen)

\* Health is never older than the rollout.
HealthYoung ==
    rollout # NoRollout /\ rollout.healthySince # Never =>
        rollout.healthySince >= rollout.created

\* A replica that runs the version of the rollout runs it now, and a heartbeat
\* that names this version, written after the rollout started, is from a time
\* when its replica ran it.
BeatsRan ==
    rollout # NoRollout => \A i \in Instances :
        /\ running[i] = rollout.version => lastRan[i] = clock
        /\ beats[i] # NoBeat /\ beats[i].app = rollout.version
              /\ beats[i].at > rollout.created => lastRan[i] >= beats[i].at

\* The replicas of the rollout's target that have run its version since t.
Ran(target, ran, t) == {i \in Instances : SourceOf[i] = target /\ ran[i] >= t}
RanSince(t) == Ran(rollout.target, lastRan, t)

\* A pass that saw the fleet healthy is still right about the replicas when it
\* writes that down: enough of them have run the version since the lease began.
SeenHealthy ==
    \A i \in Instances :
        LET p == pass[i] IN
        /\ p.at = "evaluate" /\ p.healthy
        /\ rollout # NoRollout /\ p.seen.created = rollout.created
        /\ p.now - HeartbeatTTL > rollout.created
        => Cardinality(RanSince(p.now - HeartbeatTTL)) >= rollout.minimum

RowInv == TypeOK /\ Past /\ Passes
HealthInv == HealthYoung /\ BeatsRan /\ SeenHealthy /\ CompletedStable

(* The obligations are many and small; a slow machine may take its time. *)
USE ZenonT(60)

-----------------------------------------------------------------------------
(* The rows that the transactions of RolloutStore write. *)

\* A row that an admission or a retarget opens.
FreshOf(new, v, target, minimum, at) ==
    /\ new \in Rollout /\ new # NoRollout
    /\ new.version = v /\ new.target = target /\ new.minimum = minimum
    /\ new.created = at /\ new.state = "restarting" /\ new.mode = "heartbeat"
    /\ new.healthySince = Never

LEMMA FreshRow ==
    ASSUME NEW v \in Versions, NEW target \in Sources, NEW minimum \in Nat, NEW at \in Nat
    PROVE  FreshOf(Fresh(v, "heartbeat", target, minimum, at), v, target, minimum, at)
  <1> DEFINE new == Fresh(v, "heartbeat", target, minimum, at)
  <1>1. /\ new \in Rollout /\ new.version = v /\ new.target = target /\ new.minimum = minimum
        /\ new.created = at /\ new.state = "restarting" /\ new.mode = "heartbeat"
        /\ new.healthySince = Never
    BY SMT DEF Fresh, InitialState, Rollout, Modes, ActiveStates, Stamp, Never
  <1> HIDE DEF new
  <1>2. FreshOf(new, v, target, minimum, at)
    BY <1>1, RolloutConstants DEF FreshOf
  <1> QED BY <1>2 DEF new

\* An unaccepted rollout is failed, if it has not ended.
FailedOf(r, new) ==
    /\ new \in Rollout /\ new # NoRollout
    /\ new.version = r.version /\ new.target = r.target /\ new.minimum = r.minimum
    /\ new.created = r.created /\ new.mode = r.mode
    /\ new.healthySince = r.healthySince /\ new.evaluated = r.evaluated
    /\ \/ r.state \in ActiveStates /\ new.state = "failed"
       \/ new = r

LEMMA TransitionedRow ==
    ASSUME NEW r \in Rollout, NEW at \in Nat
    PROVE  FailedOf(r, Transitioned(r, "failed", at))
  <1> DEFINE new == Transitioned(r, "failed", at)
  <1>1. CASE r.state \in ActiveStates
    <2>1. new = [r EXCEPT !.state = "failed", !.failed = at]
      BY <1>1 DEF Transitioned
    <2> HIDE DEF new
    <2>2. /\ new \in Rollout
          /\ new.version = r.version /\ new.target = r.target /\ new.minimum = r.minimum
          /\ new.created = r.created /\ new.mode = r.mode /\ new.state = "failed"
          /\ new.healthySince = r.healthySince /\ new.evaluated = r.evaluated
      <3>1. at \in Stamp
        BY DEF Stamp
      <3> QED BY <2>1, <3>1 DEF Rollout, TerminalStates
    <2>4. new # NoRollout
      BY <2>2, RolloutConstants
    <2>3. FailedOf(r, new)
      BY <1>1, <2>2, <2>4 DEF FailedOf
    <2> QED BY <2>3 DEF new
  <1>2. CASE r.state \notin ActiveStates
    <2>1. new = r
      BY <1>2 DEF Transitioned
    <2> QED BY <2>1, RolloutConstants DEF FailedOf
  <1> QED BY <1>1, <1>2

\* One observation of a rollout in progress.
ObservedOf(r, new, healthy, at) ==
    /\ new \in Rollout /\ new # NoRollout
    /\ new.version = r.version /\ new.target = r.target /\ new.minimum = r.minimum
    /\ new.created = r.created /\ new.mode = r.mode /\ new.evaluated = at
    /\ new.healthySince \in {Never, at, r.healthySince}
    /\ r.healthySince # Never => new.healthySince \in {Never, r.healthySince}
    /\ new.state \in {"complete", "failed", r.state}
    /\ r.state # "complete" /\ new.state = "complete" =>
          /\ healthy /\ r.healthySince # Never /\ new.healthySince = r.healthySince
          /\ at >= new.healthySince + StabilityWindow
          /\ new.healthySince + StabilityWindow <= Deadline(new)

LEMMA ObservedRow ==
    ASSUME NEW r \in Rollout, NEW healthy \in BOOLEAN, NEW at \in Nat
    PROVE  ObservedOf(r, Observed(r, healthy, at), healthy, at)
  <1> DEFINE since == IF ~healthy THEN Never
                      ELSE IF r.healthySince = Never THEN at ELSE r.healthySince
             stable == /\ healthy /\ at >= since + StabilityWindow
                       /\ since + StabilityWindow <= Deadline(r)
             late == at >= Deadline(r)
             state == IF stable THEN "complete" ELSE IF late THEN "failed" ELSE r.state
             failed == IF ~stable /\ late THEN at ELSE r.failed
             new == Observed(r, healthy, at)
  <1>1. new = [r EXCEPT !.evaluated = at, !.healthySince = since, !.state = state,
                        !.failed = failed]
    BY DEF Observed
  <1>2. /\ r.healthySince \in Stamp /\ r.failed \in Stamp /\ at \in Stamp
        /\ r.state \in ActiveStates \cup TerminalStates /\ r.created \in Nat
    BY SMT DEF Rollout, Stamp
  <1>3. /\ since \in Stamp /\ since \in {Never, at, r.healthySince}
        /\ r.healthySince # Never => since \in {Never, r.healthySince}
    BY <1>2 DEF Stamp
  <1>4. failed \in Stamp
    BY <1>2
  <1>5. state \in ActiveStates \cup TerminalStates /\ state \in {"complete", "failed", r.state}
    BY <1>2 DEF TerminalStates
  <1>6. stable => /\ healthy /\ r.healthySince # Never /\ since = r.healthySince
                  /\ at >= since + StabilityWindow /\ since + StabilityWindow <= Deadline(r)
    BY SMT, <1>2, RolloutConstants DEF Stamp, Never
  <1>7. r.state # "complete" /\ state = "complete" => stable
    OBVIOUS
  <1> HIDE DEF since, stable, state, failed, new
  <1>8. /\ new \in Rollout
        /\ new.version = r.version /\ new.target = r.target /\ new.minimum = r.minimum
        /\ new.created = r.created /\ new.mode = r.mode /\ new.evaluated = at
        /\ new.healthySince = since /\ new.state = state
    BY <1>1, <1>2, <1>3, <1>4, <1>5 DEF Rollout
  <1>9. Deadline(new) = Deadline(r)
    BY <1>8 DEF Deadline
  <1>10. ObservedOf(r, new, healthy, at)
    <2>1. new # NoRollout
      BY <1>8, RolloutConstants
    <2>2. /\ new.healthySince \in {Never, at, r.healthySince}
          /\ r.healthySince # Never => new.healthySince \in {Never, r.healthySince}
          /\ new.state \in {"complete", "failed", r.state}
      BY <1>3, <1>5, <1>8
    <2>3. r.state # "complete" /\ new.state = "complete" =>
             /\ healthy /\ r.healthySince # Never /\ new.healthySince = r.healthySince
             /\ at >= new.healthySince + StabilityWindow
             /\ new.healthySince + StabilityWindow <= Deadline(new)
      BY <1>6, <1>7, <1>8, <1>9
    <2> QED BY <1>8, <2>1, <2>2, <2>3 DEF ObservedOf
  <1> QED BY <1>10 DEF new

\* What a pass keeps of the row.
LEMMA CopyRow ==
    ASSUME NEW r \in Rollout
    PROVE  /\ Copy(r) \in Rollout /\ Copy(r) # NoRollout
           /\ Copy(r).version = r.version /\ Copy(r).target = r.target
           /\ Copy(r).minimum = r.minimum /\ Copy(r).created = r.created
           /\ Copy(r).state = r.state
  <1>1. /\ Copy(r) \in Rollout
        /\ Copy(r).version = r.version /\ Copy(r).target = r.target
        /\ Copy(r).minimum = r.minimum /\ Copy(r).created = r.created
        /\ Copy(r).state = r.state
    BY SMT DEF Copy, Rollout, Stamp, Never
  <1> QED BY <1>1, RolloutConstants

-----------------------------------------------------------------------------
(* What a step does to the pass of one process. *)

\* The pass is what its place asks for; it has seen the fleet healthy only if it
\* listed the heartbeats in this step.
PassMoves(i) ==
    /\ pass' \in [Instances -> Pass]
    /\ \A j \in Instances \ {i} : pass'[j] = pass[j]
    /\ Shaped(pass'[i]) /\ pass'[i].known <= Len(requests)
    /\ Behind(rollout', pass'[i].seen)
    /\ pass'[i].at = "evaluate" /\ pass'[i].healthy =>
          /\ pass'[i].seen = pass[i].seen /\ pass'[i].now = pass[i].now
          /\ Healthy(pass[i].seen, pass[i].now) /\ pass[i].at = "list"
          /\ UNCHANGED <<rollout, lastRan>>

LEMMA Typed ==
    ASSUME RowInv
    PROVE  /\ clock \in Nat /\ Len(requests) \in Nat /\ 0 <= Len(requests)
           /\ rollout \in Rollout \cup {NoRollout}
           /\ pass \in [Instances -> Pass]
           /\ \A j \in 1 .. Len(requests) : requests[j] \in Versions
           /\ \A i \in Instances :
                 /\ pass[i] \in Pass /\ Shaped(pass[i]) /\ Behind(rollout, pass[i].seen)
                 /\ pass[i].known \in Nat /\ pass[i].known <= Len(requests)
                 /\ pass[i].seen \in Rollout \cup {NoRollout}
                 /\ pass[i].now \in Nat /\ pass[i].healthy \in BOOLEAN
                 /\ pass[i].local \in BOOLEAN
  <1>1. TypeOK /\ Passes
    BY DEF RowInv
  <1>2. \A S, q : q \in Seq(S) => Len(q) \in Nat /\ \A j \in 1 .. Len(q) : q[j] \in S
    BY SMT
  <1>3. Len(requests) \in Nat /\ \A j \in 1 .. Len(requests) : requests[j] \in Versions
    BY <1>1, <1>2 DEF TypeOK
  <1>4. 0 <= Len(requests)
    BY SMT, <1>3
  <1>5. ASSUME NEW i \in Instances
        PROVE  /\ pass[i] \in Pass /\ Shaped(pass[i]) /\ Behind(rollout, pass[i].seen)
               /\ pass[i].known \in Nat /\ pass[i].known <= Len(requests)
               /\ pass[i].seen \in Rollout \cup {NoRollout}
               /\ pass[i].now \in Nat /\ pass[i].healthy \in BOOLEAN
               /\ pass[i].local \in BOOLEAN
    <2>1. pass[i] \in Pass
      BY <1>1 DEF TypeOK
    <2> QED BY <1>1, <2>1 DEF Passes, Pass
  <1> QED BY <1>1, <1>3, <1>4, <1>5 DEF TypeOK

LEMMA PassTo ==
    ASSUME RowInv, NEW i \in Instances, NEW q \in Pass,
           pass' = [pass EXCEPT ![i] = q], Shaped(q), q.known <= Len(requests),
           Behind(rollout', q.seen), q.at # "evaluate"
    PROVE  PassMoves(i)
  <1>1. pass \in [Instances -> Pass]
    BY Typed
  <1>2. pass'[i] = q /\ pass' \in [Instances -> Pass]
        /\ \A j \in Instances \ {i} : pass'[j] = pass[j]
    BY <1>1
  <1> QED BY <1>2 DEF PassMoves

\* A pass that ends, or whose process dies.
LEMMA PassEnds ==
    ASSUME RowInv, NEW i \in Instances, NEW label \in {"idle", "dead"},
           pass' = [pass EXCEPT ![i] = PassAt(label)]
    PROVE  PassMoves(i)
  <1> DEFINE q == PassAt(label)
  <1>1. q \in Pass /\ q.at = label /\ q.known = 0 /\ q.seen = NoRollout
    BY SMT DEF PassAt, Pass
  <1> HIDE DEF q
  <1>2. Shaped(q) /\ Behind(rollout', q.seen) /\ q.at # "evaluate"
    BY <1>1 DEF Shaped, Behind
  <1>3. q.known <= Len(requests)
    BY <1>1, Typed
  <1>4. pass' = [pass EXCEPT ![i] = q]
    BY DEF q
  <1> QED BY <1>1, <1>2, <1>3, <1>4, PassTo

LEMMA CopyBehind ==
    ASSUME NEW r \in Rollout
    PROVE  Behind(r, Copy(r))
  <1>1. r # NoRollout
    BY RolloutConstants
  <1>2. r.created \in Nat
    BY DEF Rollout
  <1>3. r.created <= r.created
    BY SMT, <1>2
  <1>4. /\ Copy(r).version = r.version /\ Copy(r).target = r.target
        /\ Copy(r).minimum = r.minimum /\ Copy(r).created = r.created
    BY CopyRow
  <1> QED BY <1>1, <1>3, <1>4 DEF Behind

\* A pass reads the row of a rollout in progress.
LEMMA ReadsRow ==
    ASSUME RowInv, NEW i \in Instances, NEW local \in BOOLEAN, IsActive(rollout),
           UNCHANGED rollout,
           \/ pass' = [pass EXCEPT ![i].at = "list", ![i].seen = Copy(rollout),
                                   ![i].now = clock]
           \/ pass' = [pass EXCEPT ![i].at = "list", ![i].seen = Copy(rollout),
                                   ![i].now = clock, ![i].local = local]
    PROVE  PassMoves(i)
  <1> DEFINE seen == Copy(rollout)
  <1>1. rollout \in Rollout /\ rollout # NoRollout
    BY Typed DEF IsActive
  <1>2. seen \in Rollout /\ seen # NoRollout /\ seen.created = rollout.created
    BY <1>1, CopyRow
  <1>3. Behind(rollout', seen)
    BY <1>1, CopyBehind
  <1>4. rollout.created <= clock
    BY <1>1 DEF RowInv, Past
  <1>5. pass[i] \in Pass /\ clock \in Nat /\ pass[i].known <= Len(requests)
    BY Typed
  <1>6. pass \in [Instances -> Pass]
    BY Typed
  <1>7. ASSUME NEW q, q \in Pass, q.at = "list", q.seen = seen, q.now = clock,
               q.known = pass[i].known, pass' = [pass EXCEPT ![i] = q]
        PROVE  PassMoves(i)
    <2> HIDE DEF seen
    <2>1. Shaped(q) /\ q.at # "evaluate"
      BY <1>2, <1>4, <1>7 DEF Shaped
    <2> QED BY <1>3, <1>5, <1>7, <2>1, PassTo
  <1> HIDE DEF seen
  <1>8. CASE pass' = [pass EXCEPT ![i].at = "list", ![i].seen = seen, ![i].now = clock]
    <2> DEFINE q == [pass[i] EXCEPT !.at = "list", !.seen = seen, !.now = clock]
    <2>1. pass' = [pass EXCEPT ![i] = q]
      BY <1>6, <1>8
    <2>2. q \in Pass /\ q.at = "list" /\ q.seen = seen /\ q.now = clock
          /\ q.known = pass[i].known
      BY <1>2, <1>5 DEF Pass
    <2> HIDE DEF q
    <2> QED BY <1>7, <2>1, <2>2
  <1>9. CASE pass' = [pass EXCEPT ![i].at = "list", ![i].seen = seen, ![i].now = clock,
                                  ![i].local = local]
    <2> DEFINE q == [pass[i] EXCEPT !.at = "list", !.seen = seen, !.now = clock,
                                    !.local = local]
    <2>1. pass' = [pass EXCEPT ![i] = q]
      BY <1>6, <1>9
    <2>2. q \in Pass /\ q.at = "list" /\ q.seen = seen /\ q.now = clock
          /\ q.known = pass[i].known
      BY <1>2, <1>5 DEF Pass
    <2> HIDE DEF q
    <2> QED BY <1>7, <2>1, <2>2
  <1> QED BY <1>8, <1>9 DEF seen

\* A pass that only moves on, holding what it held.
LEMMA PassGoesOn ==
    ASSUME RowInv, NEW i \in Instances, NEW q \in Pass,
           pass' = [pass EXCEPT ![i] = q], q.known = pass[i].known, q.seen = pass[i].seen,
           Behind(rollout', pass[i].seen),
           q.at \in {"local", "start"} \/ (q.at = "now" /\ q.seen # NoRollout)
    PROVE  PassMoves(i)
  <1>1. Shaped(q) /\ q.at # "evaluate"
    BY DEF Shaped
  <1> QED BY <1>1, Typed, PassTo

LEMMA AfterEvaluationMoves ==
    ASSUME RowInv, NEW i \in Instances, AfterEvaluation(i), Behind(rollout', pass[i].seen)
    PROVE  PassMoves(i)
  <1>1. CASE pass[i].local
    <2> DEFINE q == [pass[i] EXCEPT !.at = "local", !.now = 0, !.healthy = FALSE]
    <2>1. pass' = [pass EXCEPT ![i] = q]
      BY <1>1, Typed DEF AfterEvaluation
    <2>2. pass[i] \in Pass /\ 0 \in Nat
      BY Typed
    <2>3. q \in Pass /\ q.at = "local" /\ q.known = pass[i].known /\ q.seen = pass[i].seen
      BY <2>2 DEF Pass
    <2> HIDE DEF q
    <2> QED BY <2>1, <2>3, PassGoesOn
  <1>2. CASE ~pass[i].local
    BY <1>2, PassEnds DEF AfterEvaluation, EndPass
  <1> QED BY <1>1, <1>2

-----------------------------------------------------------------------------
(* What a step of a poller, or the death of its process, does. *)

OutcomeTypes ==
    /\ outcomes' \in Seq({"none"} \cup TerminalStates) /\ Len(outcomes') = Len(requests)
SpentTypes == spent' \in [admissions : Nat, activations : Nat, faults : Nat, crashes : Nat]
RunningTypes == running' \in [Instances -> Versions \cup {NoVersion}]

\* The row takes the observation of the pass, which is of its epoch and not older
\* than the last one.
Evaluated(i) ==
    /\ pass[i].at = "evaluate"
    /\ TransitionResult(rollout, pass[i].seen) = "ok" /\ Evaluates(rollout, pass[i].now)
    /\ ObservedOf(rollout, rollout', pass[i].healthy, pass[i].now)

PollEffect(i) ==
    /\ PassMoves(i) /\ Elsewhere /\ OutcomeTypes /\ SpentTypes /\ RunningTypes
    /\ \/ /\ UNCHANGED <<rollout, lastRan>>
          /\ \A j \in Instances : running'[j] \in {running[j], NoVersion}
       \/ UNCHANGED rollout /\ RanNow(clock)
       \/ Evaluated(i) /\ UNCHANGED <<lastRan, running>>

LEMMA Kept ==
    ASSUME RowInv
    PROVE  /\ UNCHANGED outcomes => OutcomeTypes
           /\ UNCHANGED spent => SpentTypes
           /\ UNCHANGED running => RunningTypes
           /\ running \in [Instances -> Versions \cup {NoVersion}]
           /\ NoVersion \in Versions \cup {NoVersion}
  BY DEF RowInv, TypeOK, OutcomeTypes, SpentTypes, RunningTypes

LEMMA SpendFault ==
    ASSUME RowInv, NEW free \in BOOLEAN,
           spent' = [spent EXCEPT !.faults = IF free THEN @ ELSE @ + 1]
    PROVE  SpentTypes
  <1> DEFINE n == IF free THEN spent.faults ELSE spent.faults + 1
  <1>1. spent \in [admissions : Nat, activations : Nat, faults : Nat, crashes : Nat]
    BY DEF RowInv, TypeOK
  <1>2. spent.faults \in Nat
    BY <1>1
  <1>3. n \in Nat
    BY SMT, <1>2
  <1>4. spent' = [spent EXCEPT !.faults = n]
    OBVIOUS
  <1> HIDE DEF n
  <1> QED BY <1>1, <1>3, <1>4 DEF SpentTypes

LEMMA QuietPoll ==
    ASSUME RowInv, NEW i \in Instances, PassMoves(i), Elsewhere, Runtime,
           UNCHANGED <<rollout, outcomes, spent>>
    PROVE  PollEffect(i)
  BY Kept DEF PollEffect, Runtime

LEMMA BeginEvaluationsEffect ==
    ASSUME RowInv, NEW i \in Instances, BeginEvaluations(i)
    PROVE  PollEffect(i)
  <1>1. PassMoves(i)
    BY ReadsRow DEF BeginEvaluations
  <1> QED BY <1>1, QuietPoll DEF BeginEvaluations

LEMMA BeginReconcileEffect ==
    ASSUME RowInv, NEW i \in Instances, BeginReconcile(i)
    PROVE  PollEffect(i)
  <1> DEFINE q == [pass[i] EXCEPT !.at = "rollout", !.local = TRUE, !.known = Len(requests)]
  <1>1. pass \in [Instances -> Pass] /\ pass[i] \in Pass /\ Len(requests) \in Nat
    BY Typed
  <1>2. pass' = [pass EXCEPT ![i] = q]
    BY <1>1 DEF BeginReconcile
  <1>3. q \in Pass /\ q.at = "rollout" /\ q.known = Len(requests) /\ q.seen = pass[i].seen
    BY <1>1 DEF Pass
  <1> HIDE DEF q
  <1>4. Shaped(q) /\ q.at # "evaluate"
    BY <1>3 DEF Shaped
  <1>5. Behind(rollout', q.seen)
    BY <1>3, Typed DEF BeginReconcile
  <1>6. q.known <= Len(requests)
    BY SMT, <1>1, <1>3
  <1>7. PassMoves(i)
    BY <1>2, <1>3, <1>4, <1>5, <1>6, PassTo
  <1> QED BY <1>7, QuietPoll DEF BeginReconcile

LEMMA ReadRolloutEffect ==
    ASSUME RowInv, NEW i \in Instances, ReadRollout(i)
    PROVE  PollEffect(i)
  <1>1. CASE IsActive(rollout)
    <2> DEFINE local == rollout.version \in KnownVersions(pass[i].known)
    <2>1. local \in BOOLEAN
      BY SMT
    <2>2. pass' = [pass EXCEPT ![i].at = "list", ![i].seen = Copy(rollout), ![i].now = clock,
                               ![i].local = local]
      BY <1>1 DEF ReadRollout
    <2> HIDE DEF local
    <2>3. PassMoves(i)
      BY <1>1, <2>1, <2>2, ReadsRow DEF ReadRollout
    <2> QED BY <2>3, QuietPoll DEF ReadRollout
  <1>2. CASE ~IsActive(rollout)
    <2> DEFINE q == [pass[i] EXCEPT !.at = "local"]
    <2>1. pass' = [pass EXCEPT ![i] = q]
      BY <1>2, Typed DEF ReadRollout
    <2>2. pass[i] \in Pass
      BY Typed
    <2>3. q \in Pass /\ q.at = "local" /\ q.known = pass[i].known /\ q.seen = pass[i].seen
      BY <2>2 DEF Pass
    <2> HIDE DEF q
    <2>4. Behind(rollout', pass[i].seen)
      BY Typed DEF ReadRollout
    <2>5. PassMoves(i)
      BY <2>1, <2>3, <2>4, PassGoesOn
    <2> QED BY <2>5, QuietPoll DEF ReadRollout
  <1> QED BY <1>1, <1>2

LEMMA ReadClockEffect ==
    ASSUME RowInv, NEW i \in Instances, ReadClock(i)
    PROVE  PollEffect(i)
  <1> DEFINE q == [pass[i] EXCEPT !.at = "list", !.now = clock]
  <1>1. pass \in [Instances -> Pass] /\ pass[i] \in Pass /\ clock \in Nat
    BY Typed
  <1>2. pass' = [pass EXCEPT ![i] = q]
    BY <1>1 DEF ReadClock
  <1>3. q \in Pass /\ q.at = "list" /\ q.known = pass[i].known /\ q.seen = pass[i].seen
        /\ q.now = clock
    BY <1>1 DEF Pass
  <1> HIDE DEF q
  <1>4. pass[i].at = "now" /\ pass[i].seen # NoRollout /\ Behind(rollout, pass[i].seen)
    BY Typed DEF ReadClock, At, Shaped
  <1>5. rollout # NoRollout /\ pass[i].seen.created <= rollout.created
    BY <1>4 DEF Behind
  <1>6. rollout.created <= clock
    BY <1>5 DEF RowInv, Past
  <1>7. pass[i].seen.created \in Nat /\ rollout.created \in Nat
    BY <1>4, <1>5, Typed DEF Rollout
  <1>8. pass[i].seen.created <= clock
    BY SMT, <1>1, <1>5, <1>6, <1>7
  <1>9. Shaped(q) /\ q.at # "evaluate"
    BY <1>3, <1>4, <1>8 DEF Shaped
  <1>10. PassMoves(i)
    <2>1. Behind(rollout', q.seen) /\ q.known <= Len(requests)
      BY <1>3, <1>4, Typed DEF ReadClock
    <2> QED BY <1>2, <1>3, <1>9, <2>1, PassTo
  <1> QED BY <1>10, QuietPoll DEF ReadClock

LEMMA ListFleetEffect ==
    ASSUME RowInv, NEW i \in Instances, NEW fails \in BOOLEAN, ListFleet(i, fails)
    PROVE  PollEffect(i)
  <1> DEFINE p == pass[i]
             healthy == Healthy(p.seen, p.now)
             asks == healthy /\ WouldComplete(p.seen, p.now)
             ready == running[i] = p.seen.version
             seesWell == healthy /\ ~fails
             q == [pass[i] EXCEPT !.at = "evaluate", !.healthy = seesWell]
  <1>1. Behind(rollout', pass[i].seen) /\ UNCHANGED <<rollout, lastRan>> /\ p.at = "list"
    BY Typed DEF ListFleet, Runtime, At
  <1>2. \/ AfterEvaluation(i) \/ EndPass(i)
        \/ pass' = [pass EXCEPT ![i].at = "evaluate", ![i].healthy = seesWell]
    <2>1. IF asks /\ ~ready THEN AfterEvaluation(i)
          ELSE IF fails /\ p.now < Deadline(p.seen) THEN EndPass(i)
          ELSE pass' = [pass EXCEPT ![i].at = "evaluate", ![i].healthy = seesWell]
      BY DEF ListFleet
    <2> HIDE DEF asks, ready, seesWell, p
    <2> QED BY <2>1
  <1>3. ASSUME pass' = [pass EXCEPT ![i].at = "evaluate", ![i].healthy = seesWell]
        PROVE  PassMoves(i)
    <2>1. seesWell \in BOOLEAN
      BY SMT
    <2>2. seesWell => Healthy(pass[i].seen, pass[i].now)
      OBVIOUS
    <2> HIDE DEF seesWell
    <2>3. pass \in [Instances -> Pass] /\ pass[i] \in Pass
      BY Typed
    <2>4. pass' = [pass EXCEPT ![i] = q]
      BY <1>3, <2>3
    <2>5. /\ q \in Pass /\ q.at = "evaluate" /\ q.known = pass[i].known
          /\ q.seen = pass[i].seen /\ q.now = pass[i].now /\ q.healthy = seesWell
      BY <2>1, <2>3 DEF Pass
    <2> HIDE DEF q
    <2>6. Shaped(pass[i]) /\ pass[i].known <= Len(requests)
      BY Typed
    <2>7. Shaped(q)
      BY <1>1, <2>5, <2>6 DEF Shaped
    <2>8. pass'[i] = q /\ pass' \in [Instances -> Pass]
          /\ \A j \in Instances \ {i} : pass'[j] = pass[j]
      BY <2>3, <2>4, <2>5
    <2> QED BY <1>1, <2>2, <2>5, <2>6, <2>7, <2>8 DEF PassMoves
  <1>4. PassMoves(i)
    BY <1>1, <1>2, <1>3, AfterEvaluationMoves, PassEnds DEF EndPass
  <1>5. SpentTypes
    <2>1. spent' = [spent EXCEPT !.faults = IF fails THEN @ + 1 ELSE @]
      BY DEF ListFleet
    <2>2. spent' = [spent EXCEPT !.faults = IF ~fails THEN @ ELSE @ + 1]
      BY <2>1
    <2> QED BY <2>2, SpendFault
  <1> QED BY <1>1, <1>4, <1>5, Kept DEF PollEffect, ListFleet, Runtime

\* An observation keeps what a pass knows of the row, and of its own epoch.
LEMMA BehindObserved ==
    ASSUME NEW r, NEW new, NEW seen, NEW healthy, NEW at, ObservedOf(r, new, healthy, at),
           Behind(r, seen)
    PROVE  Behind(new, seen)
  BY DEF Behind, ObservedOf

LEMMA EvaluateEffect ==
    ASSUME RowInv, NEW i \in Instances, Evaluate(i)
    PROVE  PollEffect(i) /\ (UNCHANGED rollout \/ Evaluated(i))
  <1> DEFINE p == pass[i]
             new == Observed(rollout, p.healthy, p.now)
  <1>1. /\ pass[i].at = "evaluate" /\ Behind(rollout, pass[i].seen)
        /\ pass[i].healthy \in BOOLEAN /\ pass[i].now \in Nat
        /\ rollout \in Rollout /\ pass[i] \in Pass /\ pass \in [Instances -> Pass]
        /\ pass[i].known <= Len(requests)
    <2>1. pass[i].at = "evaluate" /\ pass[i].seen # NoRollout
      BY Typed DEF Evaluate, At, Shaped
    <2>2. rollout # NoRollout
      BY <2>1, Typed DEF Behind
    <2> QED BY <2>1, <2>2, Typed
  <1>2. Elsewhere /\ Runtime /\ UNCHANGED <<outcomes, spent>>
    BY DEF Evaluate
  <1>3. CASE TransitionResult(rollout, p.seen) = "ok" /\ Evaluates(rollout, p.now)
    <2>1. ObservedOf(rollout, new, p.healthy, p.now) /\ rollout' = new
      BY <1>1, <1>3, ObservedRow DEF Evaluate
    <2>2. \/ /\ new.state \in TerminalStates
             /\ pass' = [pass EXCEPT ![i].at = "record", ![i].seen = Copy(new)]
          \/ AfterEvaluation(i)
      BY <1>3 DEF Evaluate
    <2> HIDE DEF new
    <2>3. Behind(rollout', p.seen)
      BY <1>1, <2>1, BehindObserved
    <2>4. ASSUME new.state \in TerminalStates,
                 pass' = [pass EXCEPT ![i].at = "record", ![i].seen = Copy(new)]
          PROVE  PassMoves(i)
      <3> DEFINE seen == Copy(new)
                 q == [pass[i] EXCEPT !.at = "record", !.seen = seen]
      <3>1. new \in Rollout
        BY <2>1 DEF ObservedOf
      <3>2. /\ seen \in Rollout /\ seen # NoRollout /\ seen.state = new.state
            /\ Behind(rollout', seen)
        BY <2>1, <3>1, CopyRow, CopyBehind
      <3> HIDE DEF seen
      <3>3. pass' = [pass EXCEPT ![i] = q]
        BY <1>1, <2>4 DEF seen
      <3>4. q \in Pass /\ q.at = "record" /\ q.known = pass[i].known /\ q.seen = seen
        BY <1>1, <3>2 DEF Pass
      <3> HIDE DEF q
      <3>5. Shaped(q) /\ q.at # "evaluate"
        BY <2>4, <3>2, <3>4 DEF Shaped
      <3> QED BY <1>1, <3>2, <3>3, <3>4, <3>5, PassTo
    <2>5. PassMoves(i)
      BY <2>2, <2>3, <2>4, AfterEvaluationMoves
    <2>6. Evaluated(i)
      BY <1>1, <1>3, <2>1 DEF Evaluated
    <2> QED BY <1>2, <2>5, <2>6, Kept DEF PollEffect, Runtime
  <1>4. CASE ~(TransitionResult(rollout, p.seen) = "ok" /\ Evaluates(rollout, p.now))
    <2>1. UNCHANGED rollout /\ AfterEvaluation(i)
      BY <1>4 DEF Evaluate
    <2>2. PassMoves(i)
      BY <1>1, <2>1, AfterEvaluationMoves
    <2> QED BY <1>2, <2>1, <2>2, QuietPoll
  <1> QED BY <1>3, <1>4

LEMMA OneReplaced ==
    ASSUME NEW S, NEW s \in Seq(S), NEW k, NEW x \in S
    PROVE  [s EXCEPT ![k] = x] \in Seq(S) /\ Len([s EXCEPT ![k] = x]) = Len(s)
  <1> DEFINE n == Len(s)
             t == [s EXCEPT ![k] = x]
  <1>1. n \in Nat /\ s \in [1 .. n -> S]
    BY SMT
  <1>2. t \in [1 .. n -> S]
    BY <1>1
  <1> HIDE DEF n, t
  <1>3. t \in Seq(S) /\ Len(t) = n
    BY SMT, <1>1, <1>2
  <1> QED BY <1>3 DEF n, t

LEMMA RecordOutcomeEffect ==
    ASSUME RowInv, NEW i \in Instances, RecordOutcome(i)
    PROVE  PollEffect(i)
  <1> DEFINE p == pass[i]
             request == LatestRevisionIDForVersion(p.seen.version)
             state == p.seen.state
  <1>1. p.at = "record" /\ p.seen # NoRollout /\ state \in TerminalStates
    BY Typed DEF RecordOutcome, At, Shaped
  <1>2. Elsewhere /\ Runtime /\ UNCHANGED <<rollout, spent>>
    BY DEF RecordOutcome
  <1>3. outcomes' = outcomes \/ outcomes' = [outcomes EXCEPT ![request] = state]
    BY DEF RecordOutcome
  <1>4. OutcomeTypes
    <2> DEFINE S == {"none"} \cup TerminalStates
    <2>1. outcomes \in Seq(S) /\ Len(outcomes) = Len(requests)
      BY DEF RowInv, TypeOK
    <2>2. state \in S
      BY <1>1
    <2> HIDE DEF request, state, S
    <2>3. /\ [outcomes EXCEPT ![request] = state] \in Seq(S)
          /\ Len([outcomes EXCEPT ![request] = state]) = Len(outcomes)
      BY SMT, <2>1, <2>2, OneReplaced
    <2>4. outcomes' \in Seq(S) /\ Len(outcomes') = Len(requests)
      BY <1>3, <2>1, <2>3
    <2> QED BY <2>4 DEF OutcomeTypes, S
  <1>5. ASSUME p.local
        PROVE  PassMoves(i)
    <2> DEFINE q == [pass[i] EXCEPT !.at = "local", !.seen = NoRollout]
    <2>1. pass[i] \in Pass /\ pass \in [Instances -> Pass] /\ pass[i].known <= Len(requests)
      BY Typed
    <2>2. pass' = [pass EXCEPT ![i] = q]
      BY <1>5, <2>1 DEF RecordOutcome
    <2>3. q \in Pass /\ q.at = "local" /\ q.known = pass[i].known /\ q.seen = NoRollout
      BY <2>1 DEF Pass
    <2> HIDE DEF q
    <2>4. Shaped(q) /\ q.at # "evaluate" /\ Behind(rollout', q.seen)
      BY <2>3 DEF Shaped, Behind
    <2> QED BY <2>1, <2>2, <2>3, <2>4, PassTo
  <1>6. ASSUME ~p.local
        PROVE  PassMoves(i)
    BY <1>6, PassEnds DEF RecordOutcome, EndPass
  <1>7. PassMoves(i)
    BY <1>5, <1>6
  <1> QED BY <1>2, <1>4, <1>7, Kept DEF PollEffect, Runtime

LEMMA LeavesEffect ==
    ASSUME RowInv, NEW i \in Instances, LeaveAlone(i) \/ AwaitDelay(i)
    PROVE  PollEffect(i)
  <1>1. PassMoves(i)
    BY PassEnds DEF LeaveAlone, AwaitDelay, EndPass
  <1> QED BY <1>1, QuietPoll DEF LeaveAlone, AwaitDelay

\* A replica that stops runs nothing.
LEMMA StopsRunning ==
    ASSUME RowInv, NEW i \in Instances, running' = [running EXCEPT ![i] = NoVersion]
    PROVE  RunningTypes /\ \A j \in Instances : running'[j] \in {running[j], NoVersion}
  <1>1. running \in [Instances -> Versions \cup {NoVersion}]
        /\ NoVersion \in Versions \cup {NoVersion}
    BY Kept
  <1>2. RunningTypes
    BY <1>1 DEF RunningTypes
  <1>3. \A j \in Instances : running'[j] = IF j = i THEN NoVersion ELSE running[j]
    BY <1>1
  <1> QED BY <1>2, <1>3

LEMMA StopEffect ==
    ASSUME RowInv, NEW i \in Instances, Stop(i)
    PROVE  PollEffect(i)
  <1> DEFINE q == [pass[i] EXCEPT !.at = "start"]
  <1>1. pass \in [Instances -> Pass] /\ pass[i] \in Pass /\ Behind(rollout, pass[i].seen)
    BY Typed
  <1>2. pass' = [pass EXCEPT ![i] = q]
    BY <1>1 DEF Stop
  <1>3. q \in Pass /\ q.at = "start" /\ q.known = pass[i].known /\ q.seen = pass[i].seen
    BY <1>1 DEF Pass
  <1> HIDE DEF q
  <1>4. UNCHANGED <<rollout, outcomes, spent, lastRan>> /\ Elsewhere
        /\ running' = [running EXCEPT ![i] = NoVersion]
    BY DEF Stop
  <1>5. PassMoves(i)
    BY <1>1, <1>2, <1>3, <1>4, PassGoesOn
  <1> QED BY <1>4, <1>5, Kept, StopsRunning DEF PollEffect

LEMMA CrashEffect ==
    ASSUME RowInv, NEW i \in Instances, Crash(i)
    PROVE  PollEffect(i)
  <1>1. PassMoves(i)
    BY PassEnds DEF Crash
  <1>2. SpentTypes
    <2>1. spent \in [admissions : Nat, activations : Nat, faults : Nat, crashes : Nat]
      BY DEF RowInv, TypeOK
    <2>2. spent' = [spent EXCEPT !.crashes = @ + 1]
      BY DEF Crash
    <2> QED BY SMT, <2>1, <2>2 DEF SpentTypes
  <1>3. running' = [running EXCEPT ![i] = NoVersion]
        /\ UNCHANGED <<clock, source, rollout, requests, outcomes, admission, beats, lastRan>>
    BY DEF Crash
  <1>4. Elsewhere
    BY <1>3 DEF Elsewhere
  <1> QED BY <1>1, <1>2, <1>3, <1>4, Kept, StopsRunning DEF PollEffect

\* A replica comes up with the version it wants, or with none.
LEMMA StartsRunning ==
    ASSUME RowInv, NEW i \in Instances, NEW started \in BOOLEAN, NEW k \in Nat,
           k <= Len(requests),
           running' = [running EXCEPT ![i] =
                          IF started THEN LatestKnownVersion(k) ELSE NoVersion]
    PROVE  RunningTypes
  <1> DEFINE v == IF started THEN LatestKnownVersion(k) ELSE NoVersion
  <1>1. running \in [Instances -> Versions \cup {NoVersion}]
    BY Kept
  <1>2. k # 0 => k \in 1 .. Len(requests)
    BY SMT, Typed
  <1>3. v \in Versions \cup {NoVersion}
    BY <1>2, Typed DEF LatestKnownVersion
  <1>4. running' = [running EXCEPT ![i] = v]
    OBVIOUS
  <1> HIDE DEF v
  <1> QED BY <1>1, <1>3, <1>4 DEF RunningTypes

LEMMA BootEffect ==
    ASSUME RowInv, NEW i \in Instances, NEW started \in BOOLEAN, Boot(i, started)
    PROVE  PollEffect(i)
  <1>1. PassMoves(i)
    BY PassEnds DEF Boot, EndPass
  <1>2. Len(requests) \in Nat /\ Len(requests) <= Len(requests)
    <2>1. Len(requests) \in Nat
      BY Typed
    <2> QED BY SMT, <2>1
  <1>3. RunningTypes
    BY <1>2, StartsRunning DEF Boot
  <1>4. SpentTypes
    BY SpendFault DEF Boot
  <1> QED BY <1>1, <1>3, <1>4, Kept DEF PollEffect, Boot

LEMMA StartEffect ==
    ASSUME RowInv, NEW i \in Instances, NEW started \in BOOLEAN, Start(i, started)
    PROVE  PollEffect(i)
  <1>1. /\ pass \in [Instances -> Pass] /\ pass[i] \in Pass /\ Behind(rollout, pass[i].seen)
        /\ pass[i].known \in Nat /\ pass[i].known <= Len(requests)
    BY Typed
  <1>2. UNCHANGED <<rollout, outcomes>> /\ Elsewhere /\ RanNow(clock)
    BY DEF Start
  <1>3. ASSUME pass' = [pass EXCEPT ![i].at = "now", ![i].local = FALSE],
               pass[i].seen # NoRollout
        PROVE  PassMoves(i)
    <2> DEFINE q == [pass[i] EXCEPT !.at = "now", !.local = FALSE]
    <2>1. pass' = [pass EXCEPT ![i] = q]
      BY <1>1, <1>3
    <2>2. q \in Pass /\ q.at = "now" /\ q.known = pass[i].known /\ q.seen = pass[i].seen
      BY <1>1 DEF Pass
    <2> HIDE DEF q
    <2> QED BY <1>1, <1>2, <1>3, <2>1, <2>2, PassGoesOn
  <1>4. PassMoves(i)
    BY <1>3, PassEnds DEF Start, EndPass
  <1>5. RunningTypes
    BY <1>1, StartsRunning DEF Start
  <1>6. SpentTypes
    BY SpendFault DEF Start
  <1> QED BY <1>2, <1>4, <1>5, <1>6, Kept DEF PollEffect

LEMMA PollStepEffect ==
    ASSUME RowInv, NEW i \in Instances, PollStep(i) \/ Crash(i)
    PROVE  PollEffect(i)
  BY BootEffect, BeginEvaluationsEffect, BeginReconcileEffect, ReadRolloutEffect,
     ReadClockEffect, ListFleetEffect, EvaluateEffect, RecordOutcomeEffect, LeavesEffect,
     StopEffect, StartEffect, CrashEffect DEF PollStep

-----------------------------------------------------------------------------
(* The rows, the passes and the times stay what RowInv says. *)

LEMMA RanNowTyped ==
    ASSUME RowInv, NEW t \in Nat, clock <= t, RanNow(t)
    PROVE  lastRan' \in [Instances -> Stamp] /\ \A i \in Instances : lastRan'[i] <= t
  <1>1. lastRan \in [Instances -> Stamp] /\ clock \in Nat
        /\ \A i \in Instances : lastRan[i] <= clock
    BY DEF RowInv, TypeOK, Past
  <1>2. t \in Stamp /\ Never \in Stamp
    BY DEF Stamp
  <1>3. t <= t /\ Never <= t
    BY SMT DEF Never
  <1>4. ASSUME NEW i \in Instances
        PROVE  lastRan[i] <= t
    BY SMT, <1>1 DEF Stamp, Never
  <1>5. ASSUME NEW i \in Instances
        PROVE  lastRan'[i] \in {t, lastRan[i], Never}
    BY DEF RanNow
  <1>6. lastRan' = [i \in Instances |-> lastRan'[i]]
    BY DEF RanNow
  <1>7. ASSUME NEW i \in Instances
        PROVE  lastRan'[i] \in Stamp /\ lastRan'[i] <= t
    BY <1>1, <1>2, <1>3, <1>4, <1>5
  <1> QED BY <1>6, <1>7

LEMMA PollRowInv ==
    ASSUME RowInv, NEW i \in Instances, PollEffect(i)
    PROVE  RowInv'
  <1>1. TypeOK /\ Past /\ Passes
    BY DEF RowInv
  <1>2. PassMoves(i) /\ Elsewhere /\ OutcomeTypes /\ SpentTypes /\ RunningTypes
    BY DEF PollEffect
  <1>3. lastRan' \in [Instances -> Stamp] /\ \A j \in Instances : lastRan'[j] <= clock
    <2>1. clock \in Nat /\ clock <= clock
      <3>1. clock \in Nat
        BY Typed
      <3> QED BY SMT, <3>1
    <2>2. CASE UNCHANGED lastRan
      BY <1>1, <2>2 DEF TypeOK, Past
    <2>3. CASE RanNow(clock)
      BY <2>1, <2>3, RanNowTyped
    <2> QED BY <2>2, <2>3 DEF PollEffect
  <1>4. UNCHANGED rollout \/ (Evaluated(i) /\ rollout # NoRollout /\ rollout \in Rollout)
    <2>1. Evaluated(i) => rollout # NoRollout
      BY DEF Evaluated, TransitionResult
    <2> QED BY <2>1, Typed DEF PollEffect
  <1>5. rollout' \in Rollout \cup {NoRollout}
    BY <1>4, Typed DEF Evaluated, ObservedOf
  <1>6. (rollout # NoRollout => rollout' # NoRollout)
        /\ (rollout' # NoRollout => rollout'.created <= clock)
    BY <1>1, <1>4 DEF Evaluated, ObservedOf, Past
  <1>7. TypeOK'
    BY <1>1, <1>2, <1>3, <1>5 DEF TypeOK, Elsewhere, OutcomeTypes, SpentTypes, RunningTypes,
       PassMoves
  <1>8. Past'
    <2>1. UNCHANGED <<clock, admission, beats>>
      BY <1>2 DEF Elsewhere
    <2>2. \A j \in Instances : beats[j] # NoBeat => beats[j].at <= clock
      BY <1>1 DEF Past
    <2>3. admission # NoVersion => rollout # NoRollout
      BY <1>1 DEF Past
    <2> QED BY <1>3, <1>6, <2>1, <2>2, <2>3 DEF Past
  <1>9. Passes'
    <2>1. UNCHANGED requests
      BY <1>2 DEF Elsewhere
    <2>2. ASSUME NEW j \in Instances, j # i
          PROVE  /\ pass'[j].known <= Len(requests) /\ Shaped(pass'[j])
                 /\ Behind(rollout', pass'[j].seen)
      <3>1. pass'[j] = pass[j]
        BY <1>2, <2>2 DEF PassMoves
      <3>2. Behind(rollout, pass[j].seen)
        BY Typed
      <3>3. Behind(rollout', pass[j].seen)
        BY <1>4, <3>2, BehindObserved DEF Evaluated
      <3> QED BY <3>1, <3>3, Typed
    <2>3. /\ pass'[i].known <= Len(requests) /\ Shaped(pass'[i])
          /\ Behind(rollout', pass'[i].seen)
      BY <1>2 DEF PassMoves
    <2>4. \A j \in Instances : /\ pass'[j].known <= Len(requests') /\ Shaped(pass'[j])
                               /\ Behind(rollout', pass'[j].seen)
      BY <2>1, <2>2, <2>3
    <2> QED BY <2>4 DEF Passes
  <1> QED BY <1>7, <1>8, <1>9 DEF RowInv

-----------------------------------------------------------------------------
(* What admissions and activations do: they touch no process. *)

SameTarget == source'.current = source.current /\ source'.minimum = source.minimum

\* A row is opened now, for the source and the capacity that are current.
Opened ==
    /\ rollout' \in Rollout /\ rollout' # NoRollout
    /\ rollout'.created = clock
    /\ rollout # NoRollout => rollout.created < clock
    /\ rollout'.state = "restarting" /\ rollout'.mode = "heartbeat"
    /\ rollout'.healthySince = Never
    /\ rollout'.target = source'.current /\ rollout'.minimum = source'.minimum

Reopened ==
    /\ Opened /\ rollout # NoRollout /\ rollout.state # "complete"
    /\ rollout'.version = rollout.version

RowEffect ==
    \/ UNCHANGED <<rollout, lastRan>> /\ (IsActive(rollout) => SameTarget)
    \/ Opened /\ ~IsActive(rollout) /\ RanNow(clock)
    \/ Reopened /\ UNCHANGED lastRan
    \/ rollout # NoRollout /\ FailedOf(rollout, rollout') /\ UNCHANGED lastRan /\ SameTarget

AdmitTypes ==
    /\ source' \in [current : Sources, minimum : Nat \ {0}, updated : Nat]
    /\ requests' \in Seq(Versions) /\ Len(requests) <= Len(requests')
    /\ outcomes' \in Seq({"none"} \cup TerminalStates) /\ Len(outcomes') = Len(requests')
    /\ admission' \in Versions \cup {NoVersion}
    /\ admission' # NoVersion => rollout' # NoRollout

AdmitEffect ==
    /\ UNCHANGED <<clock, beats, pass, running>>
    /\ RowEffect /\ AdmitTypes /\ SpentTypes

LEMMA RequestsKept ==
    ASSUME RowInv
    PROVE  /\ UNCHANGED source => source' \in [current : Sources, minimum : Nat \ {0}, updated : Nat]
           /\ UNCHANGED source => SameTarget
           /\ UNCHANGED requests => requests' \in Seq(Versions) /\ Len(requests) <= Len(requests')
           /\ UNCHANGED <<requests, outcomes>> =>
                 /\ outcomes' \in Seq({"none"} \cup TerminalStates)
                 /\ Len(outcomes') = Len(requests')
           /\ source \in [current : Sources, minimum : Nat \ {0}, updated : Nat]
           /\ source.current \in Sources /\ source.minimum \in Nat /\ clock \in Nat
  <1>1. TypeOK
    BY DEF RowInv
  <1>2. Len(requests) \in Nat
    BY Typed
  <1>3. Len(requests) <= Len(requests)
    BY SMT, <1>2
  <1>4. source \in [current : Sources, minimum : Nat \ {0}, updated : Nat]
    BY <1>1 DEF TypeOK
  <1>5. source.current \in Sources /\ source.minimum \in Nat \ {0}
    BY <1>4
  <1> QED BY <1>1, <1>3, <1>4, <1>5 DEF TypeOK, SameTarget

LEMMA SpendOne ==
    ASSUME RowInv,
           \/ spent' = [spent EXCEPT !.admissions = @ + 1]
           \/ spent' = [spent EXCEPT !.activations = @ + 1]
           \/ spent' = [spent EXCEPT !.faults = @ + 1]
           \/ spent' = [spent EXCEPT !.crashes = @ + 1]
    PROVE  SpentTypes
  <1>1. spent \in [admissions : Nat, activations : Nat, faults : Nat, crashes : Nat]
    BY DEF RowInv, TypeOK
  <1>2. /\ spent.admissions + 1 \in Nat /\ spent.activations + 1 \in Nat
        /\ spent.faults + 1 \in Nat /\ spent.crashes + 1 \in Nat
    BY SMT, <1>1
  <1> QED BY <1>1, <1>2 DEF SpentTypes

LEMMA AdmitCreateEffect ==
    ASSUME RowInv, NEW v \in Versions, AdmitCreate(v)
    PROVE  AdmitEffect
  <1> DEFINE new == Fresh(v, "heartbeat", source.current, source.minimum, clock)
  <1>1. FreshOf(new, v, source.current, source.minimum, clock)
    BY FreshRow, RequestsKept
  <1>2. rollout' = new /\ UNCHANGED source /\ ~IsActive(rollout) /\ RanNow(clock)
    BY DEF AdmitCreate
  <1>3. rollout # NoRollout => rollout.created < clock
    <2>1. rollout # NoRollout => clock > rollout.created
      BY DEF AdmitCreate, RoomForRollout
    <2>2. rollout # NoRollout => rollout.created \in Nat
      BY Typed DEF Rollout
    <2> QED BY SMT, <2>1, <2>2, Typed
  <1> HIDE DEF new
  <1>4. RowEffect
    BY <1>1, <1>2, <1>3 DEF RowEffect, Opened, FreshOf
  <1>5. AdmitTypes
    BY <1>1, <1>2, RequestsKept DEF AdmitCreate, AdmitTypes, FreshOf
  <1>6. SpentTypes
    BY SpendOne DEF AdmitCreate
  <1> QED BY <1>4, <1>5, <1>6 DEF AdmitEffect, AdmitCreate

LEMMA OneMore ==
    ASSUME NEW S, NEW s \in Seq(S), NEW x \in S
    PROVE  Append(s, x) \in Seq(S) /\ Len(Append(s, x)) = Len(s) + 1 /\ Len(s) <= Len(s) + 1
  BY SMT

LEMMA AdmitAppendEffect ==
    ASSUME RowInv, AdmitAppend
    PROVE  AdmitEffect
  <1> DEFINE S == {"none"} \cup TerminalStates
  <1>1. requests \in Seq(Versions) /\ outcomes \in Seq(S) /\ Len(outcomes) = Len(requests)
    BY DEF RowInv, TypeOK
  <1>2. admission \in Versions /\ "none" \in S
    BY DEF RowInv, TypeOK, AdmitAppend
  <1>3. requests' = Append(requests, admission) /\ outcomes' = Append(outcomes, "none")
        /\ admission' = NoVersion
        /\ UNCHANGED <<clock, source, rollout, beats, pass, running, spent, lastRan>>
    BY DEF AdmitAppend
  <1> HIDE DEF S
  <1>4. requests' \in Seq(Versions) /\ Len(requests') = Len(requests) + 1
        /\ Len(requests) <= Len(requests')
    BY <1>1, <1>2, <1>3, OneMore
  <1>5. outcomes' \in Seq(S) /\ Len(outcomes') = Len(outcomes) + 1
    BY <1>1, <1>2, <1>3, OneMore
  <1>6. AdmitTypes
    BY <1>1, <1>3, <1>4, <1>5, RequestsKept DEF AdmitTypes, S
  <1> QED BY <1>3, <1>6, RequestsKept, Kept DEF AdmitEffect, RowEffect

LEMMA AdmitUndoEffect ==
    ASSUME RowInv, AdmitUndo
    PROVE  AdmitEffect
  <1>1. rollout # NoRollout /\ rollout \in Rollout /\ clock \in Nat
    BY Typed DEF RowInv, Past, AdmitUndo
  <1>2. FailedOf(rollout, rollout')
    <2>1. rollout' = Transitioned(rollout, "failed", clock) \/ rollout' = rollout
      BY DEF AdmitUndo
    <2>2. FailedOf(rollout, rollout)
      BY <1>1 DEF FailedOf
    <2> QED BY <1>1, <2>1, <2>2, TransitionedRow
  <1>3. AdmitTypes
    BY RequestsKept DEF AdmitTypes, AdmitUndo
  <1>4. SpentTypes
    BY SpendOne DEF AdmitUndo
  <1> QED BY <1>1, <1>2, <1>3, <1>4, RequestsKept DEF AdmitEffect, AdmitUndo, RowEffect

LEMMA AdmitCrashEffect ==
    ASSUME RowInv, AdmitCrash
    PROVE  AdmitEffect
  <1>1. AdmitTypes
    BY RequestsKept DEF AdmitTypes, AdmitCrash
  <1>2. SpentTypes
    BY SpendOne DEF AdmitCrash
  <1> QED BY <1>1, <1>2, RequestsKept DEF AdmitEffect, AdmitCrash, RowEffect

LEMMA ActivateEffect ==
    ASSUME RowInv, NEW s \in Sources, NEW m \in Minimums, NEW retry \in BOOLEAN,
           Activate(s, m, retry)
    PROVE  AdmitEffect
  <1>1. m \in Nat \ {0} /\ m \in Nat /\ clock \in Nat
    BY RequestsKept, HeartbeatConstants
  <1>2. source' = ActivatedSource(source, s, m, retry, clock)
    BY DEF Activate
  <1>3. /\ source' \in [current : Sources, minimum : Nat \ {0}, updated : Nat]
        /\ source'.current = s /\ source'.minimum = m
    <2> DEFINE u == IF source.current # s \/ source.minimum # m \/ retry
                    THEN clock ELSE source.updated
    <2>1. source.updated \in Nat
      BY RequestsKept
    <2>2. u \in Nat
      BY <1>1, <2>1
    <2>3. source' = [current |-> s, minimum |-> m, updated |-> u]
      BY <1>2 DEF ActivatedSource
    <2> HIDE DEF u
    <2> QED BY <1>1, <2>2, <2>3
  <1>4. UNCHANGED <<clock, requests, outcomes, admission, beats, pass, running, lastRan>>
    BY DEF Activate
  <1>5. RowEffect /\ (rollout # NoRollout => rollout' # NoRollout)
    <2>1. CASE Retargets(rollout, source, s, m, retry)
      <3> DEFINE new == Retargeted(rollout, "heartbeat", s, m, clock)
      <3>1. rollout' = new /\ RoomForRollout
        BY <2>1 DEF Activate
      <3>2. rollout # NoRollout /\ rollout \in Rollout /\ rollout.state # "complete"
        BY <2>1, Typed DEF Retargets, IsActive, ActiveStates
      <3>3. rollout.version \in Versions /\ rollout.created \in Nat
        BY <3>2 DEF Rollout
      <3>4. FreshOf(new, rollout.version, s, m, clock)
        BY <1>1, <3>3, FreshRow DEF Retargeted
      <3>5. rollout.created < clock
        <4>1. clock > rollout.created
          BY <3>1, <3>2 DEF RoomForRollout
        <4> QED BY SMT, <1>1, <3>3, <4>1
      <3> HIDE DEF new
      <3>6. Reopened
        BY <1>3, <3>1, <3>2, <3>4, <3>5 DEF Reopened, Opened, FreshOf
      <3> QED BY <1>4, <3>6 DEF RowEffect, Reopened, Opened
    <2>2. CASE ~Retargets(rollout, source, s, m, retry)
      <3>1. UNCHANGED rollout
        BY <2>2 DEF Activate
      <3>2. IsActive(rollout) => source.current = s /\ source.minimum = m
        BY <2>2 DEF Retargets, IsActive
      <3> QED BY <1>3, <1>4, <3>1, <3>2 DEF RowEffect, SameTarget
    <2> QED BY <2>1, <2>2
  <1>6. AdmitTypes
    <2>1. admission \in Versions \cup {NoVersion} /\ (admission # NoVersion => rollout # NoRollout)
      BY DEF RowInv, TypeOK, Past
    <2> QED BY <1>3, <1>4, <1>5, <2>1, RequestsKept DEF AdmitTypes
  <1>7. SpentTypes
    BY SpendOne DEF Activate
  <1> QED BY <1>4, <1>5, <1>6, <1>7 DEF AdmitEffect

\* A pass stays behind a row that is opened or failed.
LEMMA BehindRow ==
    ASSUME RowInv, RowEffect, NEW seen \in Rollout \cup {NoRollout}, Behind(rollout, seen)
    PROVE  Behind(rollout', seen)
  <1>1. CASE seen = NoRollout
    BY <1>1 DEF Behind
  <1>2. CASE seen # NoRollout
    <2>1. rollout # NoRollout /\ seen.created <= rollout.created /\ rollout \in Rollout
      BY <1>2, Typed DEF Behind
    <2>2. seen.created \in Nat /\ rollout.created \in Nat /\ clock \in Nat
      BY <1>2, <2>1, Typed DEF Rollout
    <2>3. CASE Opened
      <3>1. rollout.created < clock /\ rollout'.created = clock /\ rollout' # NoRollout
        BY <2>1, <2>3 DEF Opened
      <3>2. seen.created <= clock /\ seen.created # clock
        BY SMT, <2>1, <2>2, <3>1
      <3> QED BY <3>1, <3>2 DEF Behind
    <2>4. CASE UNCHANGED rollout
      BY <2>4
    <2>5. CASE FailedOf(rollout, rollout')
      BY <2>5 DEF Behind, FailedOf
    <2> QED BY <2>3, <2>4, <2>5 DEF RowEffect, Reopened
  <1> QED BY <1>1, <1>2

LEMMA AdmitRowInv ==
    ASSUME RowInv, AdmitEffect
    PROVE  RowInv'
  <1>1. TypeOK /\ Past /\ Passes
    BY DEF RowInv
  <1>2. UNCHANGED <<clock, beats, pass, running>> /\ RowEffect /\ AdmitTypes /\ SpentTypes
    BY DEF AdmitEffect
  <1>3. clock \in Nat /\ clock <= clock
    <2>1. clock \in Nat
      BY Typed
    <2> QED BY SMT, <2>1
  <1>4. lastRan' \in [Instances -> Stamp] /\ \A j \in Instances : lastRan'[j] <= clock
    <2>2. CASE UNCHANGED lastRan
      BY <1>1, <2>2 DEF TypeOK, Past
    <2>3. CASE RanNow(clock)
      BY <1>3, <2>3, RanNowTyped
    <2> QED BY <1>2, <2>2, <2>3 DEF RowEffect
  <1>5. /\ rollout' \in Rollout \cup {NoRollout}
        /\ rollout' # NoRollout => rollout'.created <= clock
    BY <1>1, <1>2, <1>3, Typed DEF RowEffect, Reopened, Opened, FailedOf, Past
  <1>6. TypeOK'
    BY <1>1, <1>2, <1>4, <1>5 DEF TypeOK, AdmitTypes, SpentTypes
  <1>7. Past'
    BY <1>1, <1>2, <1>4, <1>5 DEF Past, AdmitTypes
  <1>8. Passes'
    <2>1. Len(requests) <= Len(requests') /\ Len(requests') \in Nat /\ Len(requests) \in Nat
      <3>1. requests' \in Seq(Versions) /\ Len(requests) <= Len(requests')
        BY <1>2 DEF AdmitTypes
      <3>2. Len(requests') \in Nat
        BY SMT, <3>1
      <3> QED BY <3>1, <3>2, Typed
    <2>2. ASSUME NEW i \in Instances
          PROVE  /\ pass[i].known <= Len(requests') /\ Shaped(pass[i])
                 /\ Behind(rollout', pass[i].seen)
      <3>1. pass[i].known \in Nat /\ pass[i].known <= Len(requests)
        BY Typed
      <3>2. pass[i].known <= Len(requests')
        BY SMT, <2>1, <3>1
      <3> QED BY <1>2, <3>2, Typed, BehindRow
    <2> QED BY <1>2, <2>2 DEF Passes
  <1> QED BY <1>6, <1>7, <1>8 DEF RowInv

\* A heartbeat of one process is written now; others may be pruned.
BeatEffect(i) ==
    /\ \A j \in Instances :
          \/ beats'[j] = NoBeat \/ beats'[j] = beats[j]
          \/ /\ j = i /\ beats'[j] \in Beat /\ beats'[j].at = clock
             /\ beats'[j].app \in {running[j], Broken}
    /\ beats' \in [Instances -> Beat \cup {NoBeat}]
    /\ UNCHANGED <<clock, source, rollout, requests, outcomes, admission, pass, running,
                   lastRan>>
    /\ SpentTypes

LEMMA WriteOnceEffect ==
    ASSUME RowInv, NEW i \in Instances, NEW readable \in BOOLEAN, NEW due \in BOOLEAN,
           WriteOnce(i, readable, due)
    PROVE  BeatEffect(i)
  <1> DEFINE app == IF readable THEN running[i] ELSE Broken
             row == [at |-> clock, app |-> app]
             written == [beats EXCEPT ![i] = row]
             old == {j \in Instances : written[j] # NoBeat /\ written[j].at < clock - Retention}
  <1>1. beats \in [Instances -> Beat \cup {NoBeat}] /\ clock \in Nat
        /\ running[i] \in Versions \cup {NoVersion}
    BY DEF RowInv, TypeOK
  <1>2. app \in Versions \cup {NoVersion, Broken} /\ app \in {running[i], Broken}
    BY <1>1
  <1> HIDE DEF app
  <1>3. row \in Beat /\ row.at = clock /\ row.app = app
    BY <1>1, <1>2 DEF Beat
  <1> HIDE DEF row
  <1>4. \A j \in Instances : written[j] = IF j = i THEN row ELSE beats[j]
    BY <1>1
  <1>5. beats' = [j \in Instances |-> IF due /\ j \in old THEN NoBeat ELSE written[j]]
        /\ UNCHANGED <<clock, source, rollout, requests, outcomes, admission, pass, running,
                       lastRan>>
    BY DEF WriteOnce, row, app
  <1> HIDE DEF written, old
  <1>6. \A j \in Instances : beats'[j] = NoBeat \/ beats'[j] = beats[j]
                             \/ (j = i /\ beats'[j] = row)
    BY <1>4, <1>5
  <1>7. beats' \in [Instances -> Beat \cup {NoBeat}]
    <2>1. \A j \in Instances : beats'[j] \in Beat \cup {NoBeat}
      BY <1>1, <1>3, <1>6
    <2>2. beats' = [j \in Instances |-> beats'[j]]
      BY <1>5
    <2> QED BY <2>1, <2>2
  <1>8. SpentTypes
    BY SpendFault DEF WriteOnce
  <1> QED BY <1>2, <1>3, <1>5, <1>6, <1>7, <1>8 DEF BeatEffect

LEMMA BeatRowInv ==
    ASSUME RowInv, NEW i \in Instances, BeatEffect(i)
    PROVE  RowInv'
  <1>1. TypeOK /\ Past /\ Passes
    BY DEF RowInv
  <1>2. clock <= clock
    <2>1. clock \in Nat
      BY Typed
    <2> QED BY SMT, <2>1
  <1>3. /\ UNCHANGED <<clock, source, rollout, requests, outcomes, admission, pass, running,
                       lastRan>>
        /\ beats' \in [Instances -> Beat \cup {NoBeat}] /\ SpentTypes
    BY DEF BeatEffect
  <1>4. \A j \in Instances : beats'[j] # NoBeat => beats'[j].at <= clock
    BY <1>1, <1>2 DEF BeatEffect, Past
  <1>5. TypeOK'
    BY <1>1, <1>3 DEF TypeOK, SpentTypes
  <1>6. Past'
    BY <1>1, <1>3, <1>4 DEF Past
  <1>7. Passes'
    BY <1>1, <1>3 DEF Passes
  <1> QED BY <1>5, <1>6, <1>7 DEF RowInv

LEMMA TickRowInv ==
    ASSUME RowInv, Tick
    PROVE  RowInv'
  <1>1. TypeOK /\ Past /\ Passes
    BY DEF RowInv
  <1>2. clock \in Nat /\ clock' = clock + 1 /\ RanNow(clock')
        /\ UNCHANGED <<source, rollout, requests, outcomes, admission, beats, pass, running,
                       spent>>
    BY Typed DEF Tick
  <1>3. clock' \in Nat /\ clock <= clock' /\ \A n \in Nat : n <= clock => n <= clock'
    BY SMT, <1>2
  <1>4. lastRan' \in [Instances -> Stamp] /\ \A j \in Instances : lastRan'[j] <= clock'
    BY <1>2, <1>3, RanNowTyped
  <1>5. TypeOK'
    BY <1>1, <1>2, <1>3, <1>4 DEF TypeOK
  <1>6. rollout # NoRollout => rollout.created <= clock'
    <2>1. rollout # NoRollout => rollout.created \in Nat /\ rollout.created <= clock
      BY <1>1, Typed DEF Rollout, Past
    <2> QED BY <1>3, <2>1
  <1>7. \A j \in Instances : beats[j] # NoBeat => beats[j].at <= clock'
    <2>1. \A j \in Instances : beats[j] # NoBeat => beats[j].at \in Nat /\ beats[j].at <= clock
      BY <1>1 DEF TypeOK, Past, Beat
    <2> QED BY <1>3, <2>1
  <1>8. Past'
    BY <1>1, <1>2, <1>4, <1>6, <1>7 DEF Past
  <1>9. Passes'
    BY <1>1, <1>2 DEF Passes
  <1> QED BY <1>5, <1>8, <1>9 DEF RowInv

\* At the start no process holds anything and nothing is recorded but the install.
THEOREM RowInit == Init => RowInv
  <1> SUFFICES ASSUME Init PROVE RowInv
    OBVIOUS
  <1>1. 0 \in Nat /\ clock = 0 /\ rollout = NoRollout /\ admission = NoVersion
    BY DEF Init
  <1>2. source \in [current : Sources, minimum : Nat \ {0}, updated : Nat]
    <2>1. source \in [current : Sources, minimum : Minimums, updated : {0}]
      BY DEF Init
    <2>2. Minimums \subseteq Nat \ {0}
      BY HeartbeatConstants
    <2> QED BY <1>1, <2>1, <2>2
  <1>3. /\ requests \in Seq(Versions)
        /\ outcomes \in Seq({"none"} \cup TerminalStates) /\ Len(outcomes) = Len(requests)
    <2>1. CASE Installed = NoVersion
      <3>1. requests = <<>> /\ outcomes = <<>>
        BY <2>1 DEF Init
      <3>2. \A S : <<>> \in Seq(S)
        BY SMT
      <3> QED BY <3>1, <3>2
    <2>2. CASE Installed # NoVersion
      <3>1. requests = <<Installed>> /\ outcomes = <<"complete">> /\ Installed \in Versions
        BY <2>2, HeartbeatConstants DEF Init
      <3>2. "complete" \in {"none"} \cup TerminalStates
        BY DEF TerminalStates
      <3>3. \A S : \A x \in S : <<x>> \in Seq(S) /\ Len(<<x>>) = 1
        BY SMT
      <3> QED BY <3>1, <3>2, <3>3
    <2> QED BY <2>1, <2>2
  <1>4. ASSUME NEW label, label \in {"off", "idle"}
        PROVE  /\ PassAt(label) \in Pass /\ PassAt(label).known = 0
               /\ PassAt(label).seen = NoRollout /\ PassAt(label).at = label
    BY SMT, <1>4 DEF PassAt, Pass
  <1>5. 0 <= Len(requests)
    <2>1. \A S, q : q \in Seq(S) => Len(q) \in Nat
      BY SMT
    <2>2. Len(requests) \in Nat
      BY <1>3, <2>1
    <2> QED BY SMT, <2>2
  <1>6. pass = [i \in Instances |-> PassAt(IF i \in Joining THEN "off" ELSE "idle")]
    BY DEF Init
  <1>7. ASSUME NEW i \in Instances
        PROVE  pass[i] \in Pass /\ pass[i].known <= Len(requests)
               /\ Shaped(pass[i]) /\ Behind(rollout, pass[i].seen)
    <2> DEFINE label == IF i \in Joining THEN "off" ELSE "idle"
    <2>1. label \in {"off", "idle"} /\ pass[i] = PassAt(label)
      BY <1>6
    <2> HIDE DEF label
    <2>2. pass[i] \in Pass /\ pass[i].known = 0 /\ pass[i].seen = NoRollout
          /\ pass[i].at \in {"off", "idle"}
      BY <1>4, <2>1
    <2> QED BY <1>5, <2>2 DEF Shaped, Behind
  <1>8. running \in [Instances -> Versions \cup {NoVersion}]
    BY HeartbeatConstants DEF Init
  <1>9. spent \in [admissions : Nat, activations : Nat, faults : Nat, crashes : Nat]
    BY <1>1 DEF Init
  <1>10. lastRan \in [Instances -> Stamp] /\ \A i \in Instances : lastRan[i] <= clock
    BY SMT DEF Init, Stamp, Never
  <1>11. beats \in [Instances -> Beat \cup {NoBeat}] /\ \A i \in Instances : beats[i] = NoBeat
    BY DEF Init
  <1>12. TypeOK
    <2>1. pass \in [Instances -> Pass]
      BY <1>6, <1>7
    <2> QED BY <1>1, <1>2, <1>3, <1>8, <1>9, <1>10, <1>11, <2>1 DEF TypeOK
  <1>13. Past /\ Passes
    BY <1>1, <1>7, <1>10, <1>11 DEF Past, Passes
  <1> QED BY <1>12, <1>13 DEF RowInv

\* Every step of Next is one of these.
LEMMA NextEffects ==
    ASSUME RowInv, Next
    PROVE  \/ AdmitEffect \/ Tick
           \/ \E i \in Instances : BeatEffect(i) \/ PollEffect(i)
  <1>1. Admit => AdmitEffect
    BY AdmitCreateEffect, AdmitAppendEffect, AdmitUndoEffect, AdmitCrashEffect DEF Admit
  <1> QED BY <1>1, ActivateEffect, WriteOnceEffect, PollStepEffect DEF Next

\* Every step keeps the types, the times and what the passes know of the row.
THEOREM RowStep == RowInv /\ [Next]_vars => RowInv'
  <1> SUFFICES ASSUME RowInv, [Next]_vars PROVE RowInv'
    OBVIOUS
  <1>1. CASE UNCHANGED vars
    BY <1>1 DEF vars, RowInv, TypeOK, Past, Passes
  <1>2. CASE Next
    BY <1>2, NextEffects, AdmitRowInv, TickRowInv, BeatRowInv, PollRowInv
  <1> QED BY <1>1, <1>2

\* RowInv holds in every state, for every value of the constants.
THEOREM RowInvHolds == Spec => []RowInv
  BY RowInit, RowStep, PTL DEF Spec

\* Type correctness of the heartbeat rollout.
THEOREM TypeCorrect == Spec => []TypeOK
  <1>1. RowInv => TypeOK
    BY DEF RowInv
  <1> QED BY <1>1, RowInvHolds, PTL

-----------------------------------------------------------------------------
(* What happens to the row: the source it is for, the order of the         *)
(* observations, and its epochs.                                           *)

RowChange ==
    \/ UNCHANGED rollout
    \/ Opened /\ ~IsActive(rollout)
    \/ Reopened
    \/ rollout # NoRollout /\ FailedOf(rollout, rollout')
    \/ \E i \in Instances : Evaluated(i)

LEMMA RowChanges ==
    ASSUME RowInv, [Next]_vars
    PROVE  RowChange
  <1>1. CASE UNCHANGED vars
    BY <1>1 DEF vars, RowChange
  <1>2. CASE Next
    <2>1. CASE AdmitEffect
      BY <2>1 DEF AdmitEffect, RowEffect, RowChange
    <2>2. CASE Tick
      BY <2>2 DEF Tick, RowChange
    <2>3. ASSUME NEW i \in Instances, BeatEffect(i) \/ PollEffect(i)
          PROVE  RowChange
      BY <2>3 DEF BeatEffect, PollEffect, RowChange
    <2> QED BY <1>2, <2>1, <2>2, <2>3, NextEffects
  <1> QED BY <1>1, <1>2

\* An admission opens a rollout for the current source and capacity, an activation
\* retargets every rollout in progress that it makes stale, and nothing else
\* changes either side.
LEMMA TargetStep == RowInv /\ TargetIsCurrent /\ [Next]_vars => TargetIsCurrent'
  <1> SUFFICES ASSUME RowInv, TargetIsCurrent, [Next]_vars PROVE TargetIsCurrent'
    OBVIOUS
  <1>1. CASE UNCHANGED <<rollout, source>>
    BY <1>1 DEF TargetIsCurrent, IsActive
  <1>2. CASE AdmitEffect
    <2>1. CASE Opened
      BY <2>1 DEF Opened, TargetIsCurrent
    <2>2. CASE UNCHANGED rollout /\ (IsActive(rollout) => SameTarget)
      BY <2>2 DEF TargetIsCurrent, IsActive, SameTarget
    <2>3. CASE rollout # NoRollout /\ FailedOf(rollout, rollout') /\ SameTarget
      <3>1. IsActive(rollout') => rollout' = rollout
        BY <2>3 DEF FailedOf, IsActive, ActiveStates
      <3> QED BY <2>3, <3>1 DEF TargetIsCurrent, SameTarget
    <2> QED BY <1>2, <2>1, <2>2, <2>3 DEF AdmitEffect, RowEffect, Reopened
  <1>3. ASSUME NEW i \in Instances, PollEffect(i)
        PROVE  TargetIsCurrent'
    <2>1. UNCHANGED source
      BY <1>3 DEF PollEffect, Elsewhere
    <2>2. CASE Evaluated(i)
      <3>1. /\ rollout.state = "restarting" /\ rollout # NoRollout
            /\ rollout'.target = rollout.target /\ rollout'.minimum = rollout.minimum
        BY <2>2 DEF Evaluated, ObservedOf, Evaluates, TransitionResult
      <3>2. IsActive(rollout)
        BY <3>1 DEF IsActive, ActiveStates
      <3> QED BY <2>1, <3>1, <3>2 DEF TargetIsCurrent
    <2> QED BY <1>1, <1>3, <2>1, <2>2 DEF PollEffect
  <1>4. ASSUME NEW i \in Instances, BeatEffect(i)
        PROVE  TargetIsCurrent'
    BY <1>1, <1>4 DEF BeatEffect
  <1>5. CASE Tick
    BY <1>1, <1>5 DEF Tick
  <1>6. CASE UNCHANGED vars
    BY <1>1, <1>6 DEF vars
  <1> QED BY <1>2, <1>3, <1>4, <1>5, <1>6, NextEffects

\* A rollout in progress is always for the source version and the capacity that are
\* current: no interleaving of admissions and activations leaves one behind.
THEOREM TargetIsCurrentHolds == Spec => []TargetIsCurrent
  <1>1. Init => TargetIsCurrent
    BY DEF Init, TargetIsCurrent, IsActive
  <1> QED BY <1>1, TargetStep, RowInvHolds, PTL DEF Spec

InOrder ==
    /\ rollout # NoRollout /\ rollout' # rollout
    /\ rollout'.version = rollout.version /\ SameEpoch(rollout, rollout')
    => /\ rollout.state \notin TerminalStates
       /\ rollout'.evaluated >= rollout.evaluated
       /\ rollout.healthySince = Never \/ rollout'.healthySince \in
              {Never, rollout.healthySince}

LEMMA OrderStep ==
    ASSUME RowInv, [Next]_vars
    PROVE  InOrder
  <1> SUFFICES ASSUME rollout # NoRollout, rollout' # rollout, SameEpoch(rollout, rollout')
               PROVE  /\ rollout.state \notin TerminalStates
                      /\ rollout'.evaluated >= rollout.evaluated
                      /\ rollout.healthySince = Never \/ rollout'.healthySince \in
                             {Never, rollout.healthySince}
    BY DEF InOrder
  <1>1. rollout \in Rollout
    BY Typed
  <1>2. rollout.created \in Nat /\ clock \in Nat /\ rollout.evaluated \in Stamp
    BY <1>1, Typed DEF Rollout
  <1>3. ~Opened
    <2> SUFFICES ASSUME Opened PROVE FALSE
      OBVIOUS
    <2>1. rollout'.created = clock /\ rollout.created < clock /\ rollout.created = rollout'.created
      BY DEF Opened, SameEpoch
    <2> QED BY SMT, <1>2, <2>1
  <1>4. CASE FailedOf(rollout, rollout')
    <2>1. rollout.state \in ActiveStates /\ rollout'.evaluated = rollout.evaluated
          /\ rollout'.healthySince = rollout.healthySince
      BY <1>4 DEF FailedOf
    <2>2. rollout.state \notin TerminalStates
      BY <2>1 DEF ActiveStates, TerminalStates
    <2>3. rollout.evaluated >= rollout.evaluated
      BY SMT, <1>2 DEF Stamp, Never
    <2> QED BY <2>1, <2>2, <2>3
  <1>5. ASSUME NEW i \in Instances, Evaluated(i)
        PROVE  /\ rollout.state \notin TerminalStates
               /\ rollout'.evaluated >= rollout.evaluated
               /\ rollout.healthySince = Never \/ rollout'.healthySince \in
                      {Never, rollout.healthySince}
    BY <1>5 DEF Evaluated, ObservedOf, Evaluates, TerminalStates
  <1> QED BY <1>3, <1>4, <1>5, RowChanges DEF RowChange, Reopened

\* Whoever evaluates and however late, the observations of one epoch are applied in
\* the order of their times, health never gets older and what ended stays ended.
THEOREM ObservationsInOrderHolds == Spec => ObservationsInOrder
  <1>1. RowInv /\ [Next]_vars => [InOrder]_vars
    BY OrderStep
  <1> QED BY <1>1, RowInvHolds, PTL DEF Spec, ObservationsInOrder, InOrder

Mapped ==
    IF rollout = NoRollout THEN NoRollout
    ELSE [version |-> rollout.version, mode |-> rollout.mode,
          target |-> rollout.target, created |-> rollout.created,
          state |-> rollout.state]

\* A row and the epoch it stands for.
MappedTo(r, e) ==
    /\ e = [version |-> r.version, mode |-> r.mode, target |-> r.target,
            created |-> r.created, state |-> r.state]
    /\ e \in Epochs!Epoch /\ e # NoRollout
    /\ e.version = r.version /\ e.state = r.state /\ e.created = r.created
    /\ e.mode = r.mode

LEMMA RowMaps ==
    ASSUME NEW r \in Rollout,
           NEW e, e = [version |-> r.version, mode |-> r.mode, target |-> r.target,
                       created |-> r.created, state |-> r.state]
    PROVE  MappedTo(r, e)
  <1>1. e \in Epochs!Epoch
    BY DEF Rollout, Modes, Epochs!Epoch, Epochs!EpochStates, ActiveStates, TerminalStates
  <1>2. e.version = r.version /\ e.state = r.state /\ e.created = r.created /\ e.mode = r.mode
    OBVIOUS
  <1> QED BY <1>1, <1>2, EpochConstants DEF MappedTo

LEMMA MappedRows ==
    ASSUME RowInv, RowInv'
    PROVE  /\ rollout # NoRollout => MappedTo(rollout, Mapped)
           /\ rollout' # NoRollout => MappedTo(rollout', Mapped')
           /\ rollout = NoRollout => Mapped = NoRollout
  <1>1. rollout \in Rollout \cup {NoRollout}
    BY Typed
  <1>2. rollout' \in Rollout \cup {NoRollout}
    BY DEF RowInv, TypeOK
  <1>3. ASSUME rollout # NoRollout PROVE MappedTo(rollout, Mapped)
    BY <1>1, <1>3, RowMaps DEF Mapped
  <1>4. ASSUME rollout' # NoRollout PROVE MappedTo(rollout', Mapped')
    BY <1>2, <1>4, RowMaps DEF Mapped
  <1> QED BY <1>3, <1>4 DEF Mapped

LEMMA EpochsStep ==
    ASSUME RowInv, RowInv', [Next]_vars
    PROVE  [Epochs!Next]_Mapped
  <1>1. CASE UNCHANGED rollout
    BY <1>1 DEF Mapped
  <1>2. ASSUME Opened
        PROVE  Epochs!NewEpoch(rollout'.version) /\ rollout'.version \in Versions
    <2>1. MappedTo(rollout', Mapped') /\ rollout' \in Rollout
      BY <1>2, MappedRows DEF Opened
    <2>2. rollout'.version \in Versions
      BY <2>1 DEF Rollout
    <2>3. Mapped # NoRollout => Mapped'.created > Mapped.created
      <3>1. CASE rollout = NoRollout
        BY <3>1, MappedRows
      <3>2. CASE rollout # NoRollout
        <4>1. Mapped.created = rollout.created /\ Mapped'.created = clock
          BY <1>2, <2>1, <3>2, MappedRows DEF MappedTo, Opened
        <4>2. rollout.created < clock /\ rollout.created \in Nat /\ clock \in Nat
          BY <1>2, <3>2, Typed DEF Opened, Rollout
        <4>3. clock > rollout.created
          BY SMT, <4>2
        <4> QED BY <4>1, <4>3
      <3> QED BY <3>1, <3>2
    <2>4. Mapped' \in Epochs!Epoch /\ Mapped'.version = rollout'.version
          /\ Mapped'.state = "restarting" /\ Mapped'.mode = "heartbeat"
      BY <1>2, <2>1 DEF MappedTo, Opened
    <2> QED BY <2>2, <2>3, <2>4 DEF Epochs!NewEpoch, Epochs!FirstState, Mapped
  <1>3. CASE Opened /\ ~IsActive(rollout)
    <2>1. ~Epochs!InProgress
      <3>1. CASE rollout = NoRollout
        BY <3>1 DEF Epochs!InProgress
      <3>2. CASE rollout # NoRollout
        BY <1>3, <3>2, MappedRows DEF IsActive, ActiveStates, Epochs!InProgress, Mapped, MappedTo
      <3> QED BY <3>1, <3>2
    <2>2. Epochs!Start
      BY <1>2, <1>3, <2>1 DEF Epochs!Start
    <2> QED BY <2>2 DEF Epochs!Next
  <1>4. CASE Reopened
    <2>1. Opened /\ rollout # NoRollout /\ rollout.state # "complete"
          /\ rollout'.version = rollout.version
      BY <1>4 DEF Reopened
    <2>2. Epochs!NewEpoch(rollout.version)
      BY <1>2, <2>1
    <2>3. MappedTo(rollout, Mapped)
      BY <2>1, MappedRows
    <2>4. Mapped # NoRollout /\ Mapped.state # "complete" /\ Epochs!NewEpoch(Mapped.version)
      BY <2>1, <2>2, <2>3 DEF MappedTo
    <2>5. Epochs!Reopen
      BY <2>4 DEF Epochs!Reopen, Mapped
    <2> QED BY <2>5 DEF Epochs!Next
  <1>5. ASSUME rollout # NoRollout, rollout' # NoRollout, IsActive(rollout),
               rollout'.version = rollout.version, SameEpoch(rollout, rollout'),
               NEW state, rollout'.state = state,
               \/ state = "failed" \/ state = rollout.state
               \/ state = "complete" /\ rollout.state = "restarting"
        PROVE  [Epochs!Next]_Mapped
    <2>1. MappedTo(rollout, Mapped) /\ MappedTo(rollout', Mapped')
      BY <1>5, MappedRows
    <2>2. Mapped = [version |-> rollout.version, mode |-> rollout.mode,
                    target |-> rollout.target, created |-> rollout.created,
                    state |-> rollout.state]
      BY <2>1 DEF MappedTo
    <2>3. Mapped' = [version |-> rollout.version, mode |-> rollout.mode,
                     target |-> rollout.target, created |-> rollout.created,
                     state |-> state]
      BY <1>5, <2>1 DEF MappedTo, SameEpoch
    <2>4. Mapped' = [Mapped EXCEPT !.state = state]
      <3> HIDE DEF Mapped
      <3> QED BY SMT, <2>2, <2>3
    <2>5. Mapped # NoRollout /\ Mapped.state = rollout.state
      BY <2>1 DEF MappedTo
    <2>6. CASE state = rollout.state
      BY <2>2, <2>3, <2>6
    <2>7. CASE state = "failed"
      <3>1. Epochs!Fail
        BY <1>5, <2>4, <2>5, <2>7 DEF Epochs!Fail, Epochs!InProgress, Mapped, IsActive,
           ActiveStates
      <3> QED BY <3>1 DEF Epochs!Next
    <2>8. CASE state = "complete" /\ rollout.state = "restarting"
      <3>1. Epochs!Complete
        BY <2>4, <2>5, <2>8 DEF Epochs!Complete, Mapped
      <3> QED BY <3>1 DEF Epochs!Next
    <2> QED BY <1>5, <2>6, <2>7, <2>8
  <1>6. CASE rollout # NoRollout /\ FailedOf(rollout, rollout')
    <2>1. CASE rollout' = rollout
      BY <1>1, <2>1
    <2>2. CASE rollout' # rollout
      <3>1. rollout.state \in ActiveStates /\ rollout'.state = "failed" /\ rollout' # NoRollout
            /\ rollout'.version = rollout.version /\ SameEpoch(rollout, rollout')
        BY <1>6, <2>2 DEF FailedOf, SameEpoch
      <3> QED BY <1>5, <1>6, <3>1 DEF IsActive
    <2> QED BY <2>1, <2>2
  <1>7. ASSUME NEW i \in Instances, Evaluated(i)
        PROVE  [Epochs!Next]_Mapped
    <2>1. rollout # NoRollout /\ rollout.state = "restarting"
      BY <1>7 DEF Evaluated, Evaluates, TransitionResult
    <2>2. /\ rollout' # NoRollout /\ rollout'.version = rollout.version
          /\ SameEpoch(rollout, rollout')
          /\ rollout'.state \in {"complete", "failed", rollout.state}
      BY <1>7 DEF Evaluated, ObservedOf, SameEpoch
    <2> QED BY <1>5, <2>1, <2>2 DEF IsActive, ActiveStates
  <1> QED BY <1>1, <1>3, <1>4, <1>6, <1>7, RowChanges DEF RowChange

\* With heartbeats as with enrollment, the app has one rollout at a time, which ends
\* once and starts over only as a younger epoch: the row implements RolloutEpochs.
THEOREM ImplementsEpochsHolds == Spec => ImplementsEpochs
  <1>1. Init => Epochs!Init
    BY DEF Init, Epochs!Init
  <1>2. RowInv /\ RowInv' /\ [Next]_vars => [Epochs!Next]_Mapped
    BY EpochsStep
  <1> QED BY <1>1, <1>2, RowInvHolds, PTL DEF Spec, ImplementsEpochs, Epochs!Spec, Mapped

-----------------------------------------------------------------------------
(* The health of the rollout. *)

\* The longer the version runs, and the further back one looks, the more replicas
\* have run it.
LEMMA RanMore ==
    ASSUME NEW target, NEW old \in [Instances -> Stamp], NEW new \in [Instances -> Stamp],
           \A i \in Instances : new[i] >= old[i], NEW s \in Int, NEW t \in Int, t <= s
    PROVE  /\ Cardinality(Ran(target, old, s)) \in Nat
           /\ Cardinality(Ran(target, new, t)) \in Nat
           /\ Cardinality(Ran(target, old, s)) <= Cardinality(Ran(target, new, t))
  <1>1. \A i \in Instances : old[i] \in Int /\ new[i] \in Int
    BY SMT DEF Stamp, Never
  <1>2. Ran(target, old, s) \subseteq Ran(target, new, t)
    <2>1. ASSUME NEW i \in Instances, old[i] >= s
          PROVE  new[i] >= t
      <3>1. old[i] \in Int /\ new[i] \in Int /\ new[i] >= old[i]
        BY <1>1
      <3> QED BY SMT, <2>1, <3>1
    <2> QED BY <2>1 DEF Ran
  <1>3. IsFiniteSet(Ran(target, new, t))
    <2>1. Ran(target, new, t) \subseteq Instances
      BY DEF Ran
    <2> QED BY <2>1, FS_Subset, HeartbeatConstants
  <1> QED BY <1>2, <1>3, FS_Subset, FS_CardinalityType

\* The replicas that ran it after t have run it since t + 1.
LEMMA RanAfter ==
    ASSUME NEW target, NEW ran \in [Instances -> Stamp], NEW t \in Int
    PROVE  {i \in Instances : SourceOf[i] = target /\ ran[i] > t} = Ran(target, ran, t + 1)
  <1>1. \A i \in Instances : ran[i] > t <=> ran[i] >= t + 1
    BY SMT DEF Stamp, Never
  <1> QED BY <1>1 DEF Ran

\* Under the same rollout, a replica's last run never gets older.
SameRollout ==
    /\ rollout # NoRollout /\ rollout' # NoRollout
    /\ rollout'.version = rollout.version /\ rollout'.target = rollout.target
    /\ rollout'.minimum = rollout.minimum /\ rollout'.created = rollout.created

Grows == \A i \in Instances : lastRan'[i] >= lastRan[i]

LEMMA RunsGrow ==
    ASSUME RowInv, NEW t \in Nat, clock <= t, rollout # NoRollout, rollout' # NoRollout,
           rollout'.version = rollout.version, RanNow(t) \/ UNCHANGED lastRan
    PROVE  Grows
  <1>1. lastRan \in [Instances -> Stamp] /\ clock \in Nat
        /\ \A i \in Instances : lastRan[i] <= clock
    BY DEF RowInv, TypeOK, Past
  <1>2. ASSUME NEW i \in Instances
        PROVE  t >= lastRan[i] /\ lastRan[i] >= lastRan[i]
    BY SMT, <1>1 DEF Stamp, Never
  <1>3. ASSUME NEW i \in Instances
        PROVE  lastRan'[i] \in {t, lastRan[i]}
    BY DEF RanNow
  <1> QED BY <1>2, <1>3 DEF Grows

LEMMA RanTyped ==
    ASSUME RowInv, RowInv'
    PROVE  lastRan \in [Instances -> Stamp] /\ lastRan' \in [Instances -> Stamp]
  BY DEF RowInv, TypeOK

\* What a replica's heartbeats say it ran within the lease, it ran.
LEMMA SeenFleet ==
    ASSUME RowInv, BeatsRan, NEW i \in Instances, pass[i].at = "list",
           Healthy(pass[i].seen, pass[i].now), rollout # NoRollout,
           pass[i].seen.created = rollout.created,
           pass[i].now - HeartbeatTTL > rollout.created
    PROVE  Cardinality(RanSince(pass[i].now - HeartbeatTTL)) >= rollout.minimum
  <1> DEFINE seen == pass[i].seen
             since == pass[i].now - HeartbeatTTL
             counted == {j \in FreshBeats(seen.target, pass[i].now) : beats[j].app = seen.version}
  <1>1. /\ seen # NoRollout /\ seen.version = rollout.version /\ seen.target = rollout.target
        /\ seen.minimum = rollout.minimum
    BY Typed DEF Shaped, Behind
  <1>2. /\ rollout \in Rollout /\ pass[i].now \in Nat /\ HeartbeatTTL \in Nat
        /\ rollout.created \in Nat /\ rollout.minimum \in Nat
    BY Typed, HeartbeatConstants DEF Rollout
  <1>3. since \in Int
    BY SMT, <1>2
  <1>4. Cardinality(counted) >= rollout.minimum
    BY <1>1 DEF Healthy
  <1>5. counted \subseteq RanSince(since)
    <2>1. ASSUME NEW j \in counted
          PROVE  j \in RanSince(since)
      <3>1. /\ j \in Instances /\ beats[j] # NoBeat /\ SourceOf[j] = rollout.target
            /\ beats[j].at >= since /\ beats[j].app = rollout.version
        BY <1>1 DEF FreshBeats
      <3>2. beats[j].at \in Nat /\ lastRan[j] \in Stamp
        BY <3>1 DEF RowInv, TypeOK, Beat
      <3> HIDE DEF since
      <3>3. beats[j].at > rollout.created
        <4>1. since > rollout.created
          BY DEF since
        <4> QED BY SMT, <1>2, <1>3, <3>1, <3>2, <4>1
      <3>4. lastRan[j] >= beats[j].at
        BY <3>1, <3>3 DEF BeatsRan
      <3>5. lastRan[j] >= since
        BY SMT, <1>3, <3>1, <3>2, <3>4 DEF Stamp, Never
      <3> QED BY <3>1, <3>5 DEF RanSince, Ran
    <2> QED BY <2>1
  <1>6. IsFiniteSet(RanSince(since))
    <2>1. RanSince(since) \subseteq Instances
      BY DEF RanSince, Ran
    <2> QED BY <2>1, FS_Subset, HeartbeatConstants
  <1> HIDE DEF counted, since
  <1>7. /\ Cardinality(counted) <= Cardinality(RanSince(since))
        /\ Cardinality(counted) \in Nat /\ Cardinality(RanSince(since)) \in Nat
    BY <1>5, <1>6, FS_Subset, FS_CardinalityType
  <1>8. Cardinality(RanSince(since)) >= rollout.minimum
    BY SMT, <1>2, <1>4, <1>7
  <1> QED BY <1>8 DEF since

\* A pass is as it was, has nothing good to report, or listed the heartbeats just now.
PassTold(i) ==
    \/ pass'[i] = pass[i]
    \/ ~(pass'[i].at = "evaluate" /\ pass'[i].healthy)
    \/ /\ pass'[i].seen = pass[i].seen /\ pass'[i].now = pass[i].now
       /\ Healthy(pass[i].seen, pass[i].now) /\ pass[i].at = "list"
       /\ UNCHANGED <<rollout, lastRan>>

LEMMA SeenKept ==
    ASSUME RowInv, RowInv', BeatsRan, SeenHealthy, SameRollout, Grows,
           \A i \in Instances : PassTold(i)
    PROVE  SeenHealthy'
  <1> SUFFICES ASSUME NEW i \in Instances, pass'[i].at = "evaluate", pass'[i].healthy,
                      pass'[i].seen.created = rollout'.created,
                      pass'[i].now - HeartbeatTTL > rollout'.created
               PROVE  Cardinality(Ran(rollout'.target, lastRan', pass'[i].now - HeartbeatTTL))
                         >= rollout'.minimum
    BY DEF SeenHealthy, RanSince
  <1> DEFINE since == pass[i].now - HeartbeatTTL
  <1>1. pass[i].now \in Nat /\ HeartbeatTTL \in Nat /\ rollout \in Rollout
    BY Typed, HeartbeatConstants DEF SameRollout
  <1>2. rollout.minimum \in Nat
    BY <1>1 DEF Rollout
  <1>3. since \in Int /\ since <= since
    BY SMT, <1>1
  <1>4. pass'[i].now = pass[i].now /\ pass'[i].seen = pass[i].seen
    BY DEF PassTold
  <1>5. Cardinality(RanSince(since)) >= rollout.minimum
    <2>1. CASE pass'[i] = pass[i]
      BY <2>1 DEF SeenHealthy, SameRollout
    <2>2. CASE Healthy(pass[i].seen, pass[i].now) /\ pass[i].at = "list"
      BY <1>4, <2>2, SeenFleet DEF SameRollout
    <2> QED BY <2>1, <2>2 DEF PassTold
  <1> HIDE DEF since
  <1> DEFINE A == Cardinality(Ran(rollout.target, lastRan, since))
             B == Cardinality(Ran(rollout.target, lastRan', since))
  <1>6. A \in Nat /\ B \in Nat /\ A <= B
    BY <1>3, RanTyped, RanMore DEF Grows
  <1>7. A >= rollout.minimum
    BY <1>5 DEF RanSince
  <1> HIDE DEF A, B
  <1>8. B >= rollout.minimum
    BY SMT, <1>2, <1>6, <1>7
  <1> QED BY <1>4, <1>8 DEF SameRollout, B, since

\* A row whose health is as it was.
LEMMA HealthKept ==
    ASSUME RowInv, RowInv', HealthYoung, CompletedStable, SameRollout, Grows,
           rollout'.healthySince = rollout.healthySince,
           rollout'.state = "complete" => rollout.state = "complete"
    PROVE  HealthYoung' /\ CompletedStable'
  <1>1. HealthYoung'
    BY DEF HealthYoung, SameRollout
  <1>2. CASE rollout'.state # "complete"
    BY <1>1, <1>2 DEF CompletedStable
  <1>3. CASE rollout'.state = "complete"
    <2> DEFINE t == rollout.healthySince
               A == Cardinality(Ran(rollout.target, lastRan, t + 1))
               B == Cardinality(Ran(rollout.target, lastRan', t + 1))
    <2>1. rollout \in Rollout
      BY Typed DEF SameRollout
    <2>2. t \in Stamp /\ rollout.minimum \in Nat
      BY <2>1 DEF Rollout
    <2>3. t \in Int /\ t + 1 \in Int /\ t + 1 <= t + 1
      BY SMT, <2>2 DEF Stamp, Never
    <2>4. A >= rollout.minimum
      <3>1. Cardinality({i \in Instances : SourceOf[i] = rollout.target /\ lastRan[i] > t})
               >= rollout.minimum
        BY <1>3 DEF CompletedStable, SameRollout
      <3>2. {i \in Instances : SourceOf[i] = rollout.target /\ lastRan[i] > t}
               = Ran(rollout.target, lastRan, t + 1)
        <4> HIDE DEF t
        <4> QED BY <2>3, RanAfter, RanTyped
      <3> QED BY <3>1, <3>2
    <2>5. A \in Nat /\ B \in Nat /\ A <= B
      BY <2>3, RanTyped, RanMore DEF Grows
    <2>6. B >= rollout.minimum
      <3> HIDE DEF A, B
      <3> QED BY SMT, <2>2, <2>4, <2>5
    <2>7. Cardinality({i \in Instances : SourceOf[i] = rollout.target /\ lastRan'[i] > t})
             >= rollout.minimum
      <3>1. {i \in Instances : SourceOf[i] = rollout.target /\ lastRan'[i] > t}
               = Ran(rollout.target, lastRan', t + 1)
        <4> HIDE DEF t
        <4> QED BY <2>3, RanAfter, RanTyped
      <3> QED BY <2>6, <3>1
    <2>8. rollout.healthySince >= rollout.created
          /\ rollout.healthySince + StabilityWindow <= Deadline(rollout)
      BY <1>3 DEF CompletedStable, SameRollout
    <2>9. Deadline(rollout') = Deadline(rollout)
      BY DEF Deadline, SameRollout
    <2> QED BY <1>1, <2>7, <2>8, <2>9 DEF CompletedStable, SameRollout
  <1> QED BY <1>2, <1>3

\* A row that is opened has no health yet, and no pass has seen it.
LEMMA OpenedHealth ==
    ASSUME RowInv, Opened, UNCHANGED pass
    PROVE  HealthYoung' /\ SeenHealthy' /\ CompletedStable'
  <1>1. HealthYoung' /\ CompletedStable'
    BY DEF Opened, HealthYoung, CompletedStable
  <1>2. ASSUME NEW i \in Instances, pass[i].at = "evaluate", pass[i].seen.created = clock
        PROVE  FALSE
    <2>1. pass[i].seen # NoRollout /\ rollout # NoRollout
          /\ pass[i].seen.created <= rollout.created
      BY <1>2, Typed DEF Shaped, Behind
    <2>2. rollout.created < clock /\ rollout.created \in Nat /\ clock \in Nat
      BY <2>1, Typed DEF Opened, Rollout
    <2> QED BY SMT, <1>2, <2>1, <2>2
  <1>3. SeenHealthy'
    BY <1>2 DEF SeenHealthy, Opened
  <1> QED BY <1>1, <1>3

\* The observation that completes a rollout comes from a pass that saw the fleet
\* healthy a whole window after healthy_since: the lease that its heartbeats prove
\* began after that.
LEMMA EvaluatedHealth ==
    ASSUME RowInv, RowInv', HealthYoung, SeenHealthy, NEW i \in Instances, Evaluated(i),
           UNCHANGED lastRan
    PROVE  HealthYoung' /\ CompletedStable'
  <1> DEFINE p == pass[i]
             t == rollout'.healthySince
             since == p.now - HeartbeatTTL
  <1>1. /\ rollout # NoRollout /\ p.seen.created = rollout.created /\ rollout.state = "restarting"
        /\ p.at = "evaluate" /\ rollout \in Rollout /\ p.now \in Nat
    BY Typed DEF Evaluated, TransitionResult, SameEpoch, Evaluates
  <1>2. ObservedOf(rollout, rollout', p.healthy, p.now)
    BY DEF Evaluated
  <1>3. /\ rollout.created \in Nat /\ rollout.healthySince \in Stamp /\ rollout.minimum \in Nat
    BY <1>1 DEF Rollout
  <1>4. p.now >= rollout.created
    <2>1. rollout.created <= p.now
      BY <1>1, Typed DEF Shaped
    <2> QED BY SMT, <1>1, <1>3, <2>1
  <1>5. HealthYoung'
    BY <1>1, <1>2, <1>4 DEF HealthYoung, ObservedOf
  <1>6. CASE rollout'.state # "complete"
    BY <1>5, <1>6 DEF CompletedStable
  <1>7. CASE rollout'.state = "complete"
    <2>1. /\ p.healthy /\ rollout.healthySince # Never /\ t = rollout.healthySince
          /\ p.now >= t + StabilityWindow /\ t + StabilityWindow <= Deadline(rollout')
      BY <1>1, <1>2, <1>7 DEF ObservedOf
    <2>2. t >= rollout.created /\ t \in Int
      <3>1. rollout.healthySince \in Int
        BY SMT, <1>3 DEF Stamp, Never
      <3> QED BY <1>1, <2>1, <3>1 DEF HealthYoung
    <2>3. HeartbeatTTL \in Nat /\ StabilityWindow \in Nat /\ StabilityWindow > HeartbeatTTL
      BY HeartbeatConstants, RolloutConstants
    <2> HIDE DEF t
    <2>4. since > rollout.created /\ since \in Int /\ t + 1 \in Int /\ t + 1 <= since
      BY SMT, <1>1, <1>3, <2>1, <2>2, <2>3
    <2> DEFINE A == Cardinality(Ran(rollout.target, lastRan, since))
               B == Cardinality(Ran(rollout.target, lastRan, t + 1))
    <2>5. A >= rollout.minimum
      BY <1>1, <2>1, <2>4 DEF SeenHealthy, RanSince
    <2> HIDE DEF since
    <2>6. \A j \in Instances : lastRan[j] >= lastRan[j]
      <3>1. \A j \in Instances : lastRan[j] \in Stamp
        BY RanTyped
      <3> QED BY SMT, <3>1 DEF Stamp, Never
    <2>7. A \in Nat /\ B \in Nat /\ A <= B
      BY <2>4, <2>6, RanTyped, RanMore
    <2>8. B >= rollout.minimum
      <3> HIDE DEF A, B
      <3> QED BY SMT, <1>3, <2>5, <2>7
    <2>9. Cardinality({j \in Instances : SourceOf[j] = rollout.target /\ lastRan[j] > t})
             >= rollout.minimum
      <3>1. {j \in Instances : SourceOf[j] = rollout.target /\ lastRan[j] > t}
               = Ran(rollout.target, lastRan, t + 1)
        BY <2>2, RanAfter, RanTyped
      <3> QED BY <2>8, <3>1
    <2>10. rollout'.target = rollout.target /\ rollout'.minimum = rollout.minimum
           /\ rollout'.created = rollout.created
      BY <1>2 DEF ObservedOf
    <2> QED BY <1>5, <2>1, <2>2, <2>9, <2>10 DEF CompletedStable, t
  <1> QED BY <1>6, <1>7

\* The first half of BeatsRan: who runs the version runs it now.
LEMMA RunsNow ==
    ASSUME NEW t, RanNow(t), rollout' # NoRollout
    PROVE  \A i \in Instances : running'[i] = rollout'.version => lastRan'[i] = t
  BY DEF RanNow

LEMMA BeatsKept ==
    ASSUME RowInv, RowInv', BeatsRan, SameRollout, Grows, UNCHANGED beats,
           \A i \in Instances : running'[i] = rollout'.version => lastRan'[i] = clock'
    PROVE  BeatsRan'
  <1>1. ASSUME NEW i \in Instances, beats[i] # NoBeat, beats[i].app = rollout.version,
               beats[i].at > rollout.created
        PROVE  lastRan'[i] >= beats[i].at
    <2>1. lastRan[i] >= beats[i].at
      BY <1>1 DEF BeatsRan, SameRollout
    <2>2. lastRan[i] \in Stamp /\ lastRan'[i] \in Stamp /\ beats[i].at \in Nat
      BY <1>1, RanTyped DEF RowInv, TypeOK, Beat
    <2>3. lastRan'[i] >= lastRan[i]
      BY DEF Grows
    <2> QED BY SMT, <2>1, <2>2, <2>3 DEF Stamp, Never
  <1> QED BY <1>1 DEF BeatsRan, SameRollout

LEMMA TickHealth ==
    ASSUME RowInv, RowInv', HealthInv, Tick
    PROVE  HealthInv'
  <1>1. HealthYoung /\ BeatsRan /\ SeenHealthy /\ CompletedStable
    BY DEF HealthInv
  <1>2. /\ UNCHANGED <<rollout, beats, pass, running>> /\ RanNow(clock')
        /\ clock' \in Nat /\ clock <= clock'
    <2>1. clock \in Nat /\ clock' = clock + 1
      BY Typed DEF Tick
    <2>2. clock' \in Nat /\ clock <= clock'
      BY SMT, <2>1
    <2> QED BY <2>2 DEF Tick
  <1>3. CASE rollout = NoRollout
    BY <1>2, <1>3 DEF HealthInv, HealthYoung, BeatsRan, SeenHealthy, CompletedStable
  <1>4. CASE rollout # NoRollout
    <2>1. SameRollout /\ Grows
      BY <1>2, <1>4, RunsGrow DEF SameRollout
    <2>2. HealthYoung' /\ CompletedStable'
      BY <1>1, <1>2, <2>1, HealthKept
    <2>3. SeenHealthy'
      BY <1>1, <1>2, <2>1, SeenKept DEF PassTold
    <2>4. BeatsRan'
      BY <1>1, <1>2, <1>4, <2>1, RunsNow, BeatsKept
    <2> QED BY <2>2, <2>3, <2>4 DEF HealthInv
  <1> QED BY <1>3, <1>4

LEMMA BeatHealth ==
    ASSUME RowInv, RowInv', HealthInv, NEW i \in Instances, BeatEffect(i)
    PROVE  HealthInv'
  <1>1. HealthYoung /\ BeatsRan /\ SeenHealthy /\ CompletedStable
    BY DEF HealthInv
  <1>2. UNCHANGED <<clock, rollout, pass, running, lastRan>>
    BY DEF BeatEffect
  <1>3. HealthYoung' /\ SeenHealthy' /\ CompletedStable'
    BY <1>1, <1>2 DEF HealthYoung, SeenHealthy, CompletedStable, RanSince
  <1>4. ASSUME NEW j \in Instances, rollout # NoRollout, beats'[j] # NoBeat,
               beats'[j].app = rollout.version, beats'[j].at > rollout.created
        PROVE  lastRan[j] >= beats'[j].at
    <2>1. CASE beats'[j] = beats[j]
      BY <1>1, <1>4, <2>1 DEF BeatsRan
    <2>2. CASE beats'[j].at = clock /\ beats'[j].app \in {running[j], Broken}
      <3>1. rollout.version \in Versions /\ clock \in Nat
        BY <1>4, Typed DEF Rollout
      <3>2. running[j] = rollout.version
        BY <1>4, <2>2, <3>1, HeartbeatConstants
      <3>3. lastRan[j] = clock
        BY <1>1, <1>4, <3>2 DEF BeatsRan
      <3>4. clock >= clock
        BY SMT, <3>1
      <3> QED BY <2>2, <3>3, <3>4
    <2> QED BY <1>4, <2>1, <2>2 DEF BeatEffect
  <1>5. BeatsRan'
    BY <1>1, <1>2, <1>4 DEF BeatsRan
  <1> QED BY <1>3, <1>5 DEF HealthInv

LEMMA AdmitHealth ==
    ASSUME RowInv, RowInv', HealthInv, AdmitEffect
    PROVE  HealthInv'
  <1>1. HealthYoung /\ BeatsRan /\ SeenHealthy /\ CompletedStable
    BY DEF HealthInv
  <1>2. UNCHANGED <<clock, beats, pass, running>> /\ RowEffect
    BY DEF AdmitEffect
  <1>3. clock \in Nat /\ clock <= clock
    <2>1. clock \in Nat
      BY Typed
    <2> QED BY SMT, <2>1
  <1>4. CASE rollout = NoRollout /\ UNCHANGED rollout
    BY <1>2, <1>4 DEF HealthInv, HealthYoung, BeatsRan, SeenHealthy, CompletedStable
  <1>5. CASE /\ rollout # NoRollout /\ UNCHANGED lastRan
             /\ UNCHANGED rollout \/ FailedOf(rollout, rollout')
    <2>1. SameRollout /\ rollout'.healthySince = rollout.healthySince
          /\ (rollout'.state = "complete" => rollout.state = "complete")
      BY <1>5 DEF SameRollout, FailedOf
    <2>2. Grows
      BY <1>3, <1>5, <2>1, RunsGrow DEF SameRollout
    <2>3. HealthYoung' /\ CompletedStable'
      BY <1>1, <2>1, <2>2, HealthKept
    <2>4. SeenHealthy'
      BY <1>1, <1>2, <2>1, <2>2, SeenKept DEF PassTold
    <2>5. BeatsRan'
      <3>1. \A j \in Instances : running'[j] = rollout'.version => lastRan'[j] = clock'
        BY <1>1, <1>2, <1>5, <2>1 DEF BeatsRan, SameRollout
      <3> QED BY <1>1, <1>2, <2>1, <2>2, <3>1, BeatsKept
    <2> QED BY <2>3, <2>4, <2>5 DEF HealthInv
  <1>6. CASE Opened /\ (RanNow(clock) \/ (Reopened /\ UNCHANGED lastRan))
    <2>1. HealthYoung' /\ SeenHealthy' /\ CompletedStable'
      BY <1>2, <1>6, OpenedHealth
    <2>2. \A j \in Instances : running[j] = rollout'.version => lastRan'[j] = clock
      <3>1. CASE RanNow(clock)
        BY <1>2, <1>6, <3>1, RunsNow DEF Opened
      <3>2. CASE Reopened /\ UNCHANGED lastRan
        BY <1>1, <3>2 DEF Reopened, BeatsRan
      <3> QED BY <1>6, <3>1, <3>2
    <2>3. ASSUME NEW j \in Instances, beats[j] # NoBeat, beats[j].at > rollout'.created
          PROVE  FALSE
      <3>1. beats[j].at <= clock /\ beats[j].at \in Nat /\ rollout'.created = clock
        BY <1>6, <2>3 DEF RowInv, TypeOK, Past, Beat, Opened
      <3> QED BY SMT, <1>3, <2>3, <3>1
    <2>4. BeatsRan'
      BY <1>2, <2>2, <2>3 DEF BeatsRan
    <2> QED BY <2>1, <2>4 DEF HealthInv
  <1> QED BY <1>2, <1>4, <1>5, <1>6 DEF RowEffect, Reopened

LEMMA PollHealth ==
    ASSUME RowInv, RowInv', HealthInv, NEW i \in Instances, PollEffect(i)
    PROVE  HealthInv'
  <1>1. HealthYoung /\ BeatsRan /\ SeenHealthy /\ CompletedStable
    BY DEF HealthInv
  <1>2. UNCHANGED <<clock, beats>> /\ PassMoves(i)
    BY DEF PollEffect, Elsewhere
  <1>3. clock \in Nat /\ clock <= clock
    <2>1. clock \in Nat
      BY Typed
    <2> QED BY SMT, <2>1
  <1>4. CASE rollout = NoRollout
    <2>1. rollout' = NoRollout
      BY <1>4 DEF PollEffect, Evaluated, TransitionResult
    <2> QED BY <2>1 DEF HealthInv, HealthYoung, BeatsRan, SeenHealthy, CompletedStable
  <1>5. CASE rollout # NoRollout
    <2>1. SameRollout
      BY <1>5 DEF PollEffect, Evaluated, ObservedOf, SameRollout
    <2>2. Grows
      BY <1>3, <1>5, <2>1, RunsGrow DEF SameRollout, PollEffect
    <2>3. \A j \in Instances : PassTold(j)
      BY <1>2 DEF PassMoves, PassTold
    <2>4. SeenHealthy'
      BY <1>1, <2>1, <2>2, <2>3, SeenKept
    <2>5. HealthYoung' /\ CompletedStable'
      <3>1. CASE UNCHANGED rollout
        BY <1>1, <2>1, <2>2, <3>1, HealthKept
      <3>2. CASE Evaluated(i) /\ UNCHANGED lastRan
        BY <1>1, <3>2, EvaluatedHealth
      <3> QED BY <3>1, <3>2 DEF PollEffect
    <2>6. \A j \in Instances : running'[j] = rollout'.version => lastRan'[j] = clock'
      <3>1. CASE RanNow(clock)
        BY <1>2, <2>1, <3>1, RunsNow DEF SameRollout
      <3>2. CASE UNCHANGED lastRan /\ \A j \in Instances : running'[j] \in {running[j], NoVersion}
        <4>1. rollout.version # NoVersion
          <5>1. rollout \in Rollout
            BY <1>5, Typed
          <5> QED BY <5>1, HeartbeatConstants DEF Rollout
        <4> QED BY <1>1, <1>2, <1>5, <2>1, <3>2, <4>1 DEF BeatsRan, SameRollout
      <3>3. UNCHANGED running => \A j \in Instances : running'[j] \in {running[j], NoVersion}
        OBVIOUS
      <3> QED BY <3>1, <3>2, <3>3 DEF PollEffect
    <2>7. BeatsRan'
      BY <1>1, <1>2, <2>1, <2>2, <2>6, BeatsKept
    <2> QED BY <2>4, <2>5, <2>7 DEF HealthInv
  <1> QED BY <1>4, <1>5

\* Every step keeps what the heartbeats, the passes and the row prove of the fleet.
THEOREM HealthStep == RowInv /\ RowInv' /\ HealthInv /\ [Next]_vars => HealthInv'
  <1> SUFFICES ASSUME RowInv, RowInv', HealthInv, [Next]_vars PROVE HealthInv'
    OBVIOUS
  <1>1. CASE UNCHANGED vars
    BY <1>1 DEF vars, HealthInv, HealthYoung, BeatsRan, SeenHealthy, CompletedStable, RanSince
  <1>2. CASE Next
    BY <1>2, NextEffects, AdmitHealth, TickHealth, BeatHealth, PollHealth
  <1> QED BY <1>1, <1>2

\* HealthInv holds in every state, for every value of the constants.
THEOREM HealthInvHolds == Spec => []HealthInv
  <1>1. Init => HealthInv
    BY DEF Init, HealthInv, HealthYoung, BeatsRan, SeenHealthy, CompletedStable
  <1> QED BY <1>1, HealthStep, RowInvHolds, PTL DEF Spec

\* However the evaluations of the fleet interleave with crashes, restarts, late
\* heartbeats and activations, a rollout completes only when it was healthy for the
\* window before its deadline, on enough replicas that ran its version after
\* healthy_since was set.
THEOREM CompletedStableHolds == Spec => []CompletedStable
  <1>1. HealthInv => CompletedStable
    BY DEF HealthInv
  <1> QED BY <1>1, HealthInvHolds, PTL

=============================================================================
