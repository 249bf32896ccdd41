---------------------- MODULE EnrollmentRolloutProofs ----------------------
(***************************************************************************)
(* For every fleet, every set of versions and sources, every window and     *)
(* every bound: the types of EnrollmentRollout, that the rollout row         *)
(* implements RolloutEpochs, and, when no acknowledgement lands after        *)
(* enrollment ended, that a frozen cohort stays frozen, that a complete      *)
(* rollout has a cohort that restarted in time, and that the members of a    *)
(* complete rollout run its version.                                         *)
(***************************************************************************)
EXTENDS EnrollmentRollout, TLAPS

(* The obligations are many and small; a slow machine may take its time. *)
USE ZenonT(60), RolloutConstants, FleetConstants DEF Never, Stamp, ActiveStates, TerminalStates

\* Within an epoch the row only leaves enrollment; otherwise a younger epoch
\* takes its place.
RowMoves ==
    \/ UNCHANGED rollout
    \/ /\ rollout # NoRollout /\ rollout' # NoRollout
       /\ rollout'.version = rollout.version /\ SameEpoch(rollout, rollout')
       /\ rollout'.state # "enrolling"

RowReplaced ==
    /\ rollout' # NoRollout
    /\ rollout # NoRollout => rollout'.created > rollout.created

\* What holds of a sequence and of one that is appended to.
LEMMA SeqFacts ==
    ASSUME NEW S, NEW q \in Seq(S), NEW e \in S
    PROVE  /\ Len(q) \in Nat
           /\ \A j \in 1 .. Len(q) : q[j] \in S
           /\ Append(q, e) \in Seq(S)
           /\ Len(Append(q, e)) = Len(q) + 1
           /\ \A j \in 1 .. Len(q) : Append(q, e)[j] = q[j]
           /\ Append(q, e)[Len(q) + 1] = e
  BY SMTT(60)

LEMMA RequestsTyped ==
    ASSUME TypeOK
    PROVE  /\ Len(requests) \in Nat
           /\ \A j \in 1 .. Len(requests) :
                  requests[j] \in [to : Versions, at : Nat]
                  /\ requests[j].to \in Versions /\ requests[j].at \in Nat
  <1>1. requests \in Seq([to : Versions, at : Nat])
    BY DEF TypeOK
  <1>2. \A S, q : q \in Seq(S) => Len(q) \in Nat /\ \A j \in 1 .. Len(q) : q[j] \in S
    BY SMTT(60)
  <1>3. Len(requests) \in Nat /\ \A j \in 1 .. Len(requests) : requests[j] \in [to : Versions, at : Nat]
    BY <1>1, <1>2
  <1> QED BY <1>3

\* A pass stays behind the row whatever a step does to the row.
LEMMA BehindKept ==
    ASSUME RowMoves \/ RowReplaced,
           rollout \in Rollout \cup {NoRollout}, rollout' \in Rollout \cup {NoRollout},
           NEW i \in Instances, pass[i] \in Pass, Behind(pass[i].seen),
           pass'[i].seen = pass[i].seen
    PROVE  Behind(pass[i].seen)'
  <1>1. pass[i].seen \in Rollout \cup {NoRollout}
    BY DEF Pass
  <1> QED BY SMTT(60), <1>1 DEF RowMoves, RowReplaced, Behind, Rollout, SameEpoch

\* The request with the latest timestamp exists, since requests are in order.
LEMMA LatestKnown ==
    ASSUME TypeOK, TimesPast, NEW k \in 0 .. Len(requests)
    PROVE  /\ LatestKnownVersion(k) \in Versions \cup {NoVersion}
           /\ KnownVersions(k) \subseteq Versions
           /\ k # 0 =>
                 /\ LatestKnownVersion(k) \in Versions
                 /\ LatestKnownVersion(k) \in KnownVersions(k)
                 /\ \E j \in 1 .. Len(requests) :
                        UpdatedAt(LatestKnownVersion(k), k) = requests[j].at
                 /\ UpdatedAt(LatestKnownVersion(k), k) \in Nat
  <1>0. /\ \A j \in 1 .. Len(requests) : requests[j] \in [to : Versions, at : Nat]
        /\ 1 .. k \subseteq 1 .. Len(requests) /\ Len(requests) \in Nat
    BY SMTT(60), RequestsTyped
  <1>1. CASE k = 0
    <2>1. LatestKnownVersion(k) = NoVersion
      BY <1>1 DEF LatestKnownVersion
    <2>2. KnownVersions(k) \subseteq Versions
      BY <1>0 DEF KnownVersions
    <2> QED BY <1>1, <2>1, <2>2
  <1>2. CASE k # 0
    <2> DEFINE l == Latest(1 .. k)
               v == requests[l].to
               m == Latest(RequestsFor(v, k))
    <2>1. l \in 1 .. k /\ \A j \in 1 .. k : requests[j].at <= requests[l].at
      <3>1. k \in 1 .. k /\ \A j \in 1 .. k : requests[j].at <= requests[k].at
        BY SMTT(60), <1>0, <1>2 DEF TimesPast
      <3> QED BY <3>1 DEF Latest
    <2>2. m \in RequestsFor(v, k)
      <3>1. l \in RequestsFor(v, k) /\ \A j \in RequestsFor(v, k) : requests[j].at <= requests[l].at
        BY <2>1 DEF RequestsFor
      <3> HIDE DEF l
      <3> QED BY <3>1 DEF Latest
    <2>3. v \in Versions /\ v \in KnownVersions(k) /\ LatestKnownVersion(k) = v
      BY <1>0, <1>2, <2>1 DEF KnownVersions, LatestKnownVersion
    <2>4. m \in 1 .. k
      <3> HIDE DEF m
      <3> QED BY <2>2 DEF RequestsFor
    <2>5. UpdatedAt(v, k) = requests[m].at
      BY DEF UpdatedAt
    <2>6. KnownVersions(k) \subseteq Versions
      BY <1>0 DEF KnownVersions
    <2> HIDE DEF l, v, m
    <2> QED BY <1>0, <2>3, <2>4, <2>5, <2>6
  <1> QED BY <1>1, <1>2

-----------------------------------------------------------------------------
(* EpochInvariant is inductive.                                             *)

THEOREM EpochInit == Init => EpochInvariant
  <1> SUFFICES ASSUME Init PROVE EpochInvariant
    OBVIOUS
  <1>1. requests = <<>> /\ outcomes = <<>> /\ Len(requests) = 0 /\ Len(outcomes) = 0
    BY DEF Init
  <1>2. \A l \in {"off", "idle"} : PassAt(l) \in Pass
    BY DEF PassAt, Pass, NoAck, Ack
  <1>3. \A i \in Instances : pass[i] \in {PassAt("off"), PassAt("idle")}
    BY DEF Init
  <1>4. TypeOK
    <2>1. pass \in [Instances -> Pass]
      BY <1>2 DEF Init
    <2>2. requests \in Seq([to : Versions, at : Nat]) /\ outcomes \in Seq({"none"} \cup TerminalStates)
      BY SMTT(60), <1>1
    <2>3. source \in [current : Sources, minimum : Nat, updated : Nat]
      BY SMTT(60) DEF Init
    <2>4. admission \in [step : {"idle", "create", "append", "undo"},
                      version : Versions \cup {NoVersion}, at : Nat]
      BY DEF Init, Idle
    <2>5. spent \in [admissions : Nat, activations : Nat, faults : Nat, crashes : Nat]
      BY DEF Init
    <2>6. /\ clock \in Nat /\ admittedAt \in Nat /\ ended \subseteq Nat \X TerminalStates
          /\ rollout \in Rollout \cup {NoRollout}
          /\ progress \in [Instances -> [Versions -> Row \cup {NoRow}]]
          /\ running \in [Instances -> Versions \cup {NoVersion}]
      BY DEF Init
    <2> QED BY <1>1, <2>1, <2>2, <2>3, <2>4, <2>5, <2>6 DEF TypeOK
  <1>5. TimesPast
    BY SMTT(60), <1>1 DEF TimesPast, Init, Idle
  <1>6. PassShape
    BY SMTT(60), <1>1, <1>3 DEF PassShape, Shaped, PassAt
  <1>7. SeenBehind
    BY SMTT(60), <1>3 DEF SeenBehind, Behind, PassAt
  <1> QED BY <1>4, <1>5, <1>6, <1>7 DEF EpochInvariant

\* What a step of instance i's pass has to show: it works on its own pass, keeps
\* the parts well typed, and leaves the row alone or moves it within its epoch.
PassMoves(i) ==
    /\ pass' \in [Instances -> Pass]
    /\ \A j \in Instances \ {i} : pass'[j] = pass[j]
    /\ Shaped(pass'[i], progress'[i])
    /\ pass'[i].seen \in {NoRollout, pass[i].seen, rollout'}

\* Rows of progress are an instance's own, and stay once they exist.
RowsKept(i) ==
    /\ progress' \in [Instances -> [Versions -> Row \cup {NoRow}]]
    /\ \A j \in Instances \ {i} : progress'[j] = progress[j]
    /\ \A v \in Versions : progress[i][v] # NoRow => progress'[i][v] # NoRow

OwnTypes ==
    /\ running' \in [Instances -> Versions \cup {NoVersion}]
    /\ spent' \in [admissions : Nat, activations : Nat, faults : Nat, crashes : Nat]

OutcomeTypes ==
    /\ outcomes' \in Seq({"none"} \cup TerminalStates)
    /\ Len(outcomes') = Len(outcomes)

RowTypes ==
    /\ rollout' \in Rollout \cup {NoRollout}
    /\ ended' \subseteq Nat \X TerminalStates

LEMMA PollKeepsEpochs ==
    ASSUME EpochInvariant, NEW i \in Instances, Elsewhere, PassMoves(i), RowsKept(i),
           OwnTypes, OutcomeTypes, RowTypes, RowMoves
    PROVE  EpochInvariant'
  <1> USE DEF EpochInvariant
  <1>1. TypeOK'
    BY DEF TypeOK, Elsewhere, PassMoves, RowsKept, OwnTypes, OutcomeTypes, RowTypes
  <1>2. TimesPast'
    <2>1. Elsewhere /\ TimesPast /\ RowMoves
      OBVIOUS
    <2>2. rollout # NoRollout => rollout' # NoRollout /\ rollout'.created = rollout.created
      BY <2>1 DEF RowMoves, SameEpoch
    <2> QED BY <2>1, <2>2 DEF TimesPast, Elsewhere, RowMoves
  <1>3. PassShape'
    <2> SUFFICES ASSUME NEW j \in Instances PROVE Shaped(pass[j], progress[j])'
      BY DEF PassShape
    <2>1. requests' = requests
      BY DEF Elsewhere
    <2>2. Shaped(pass'[j], progress'[j])
      BY DEF PassMoves, RowsKept, PassShape
    <2> QED BY <2>1, <2>2 DEF Shaped, KnownVersions
  <1>4. SeenBehind'
    <2> SUFFICES ASSUME NEW j \in Instances PROVE Behind(pass[j].seen)'
      BY DEF SeenBehind
    <2>1. rollout \in Rollout \cup {NoRollout} /\ rollout' \in Rollout \cup {NoRollout}
      BY DEF TypeOK, RowTypes
    <2>2. pass[j] \in Pass /\ Behind(pass[j].seen)
      BY DEF TypeOK, SeenBehind
    <2>3. CASE pass'[j].seen = pass[j].seen
      BY <2>1, <2>2, <2>3, BehindKept
    <2>4. CASE pass'[j].seen = NoRollout
      BY <2>4 DEF Behind
    <2>5. CASE pass'[j].seen = rollout'
      BY SMTT(60), <2>1, <2>5 DEF Behind, SameEpoch, Rollout
    <2> QED BY <2>3, <2>4, <2>5 DEF PassMoves
  <1> QED BY <1>1, <1>2, <1>3, <1>4

LEMMA KeepRow ==
    ASSUME EpochInvariant, KeepRollout
    PROVE  RowMoves /\ RowTypes
  BY DEF EpochInvariant, TypeOK, KeepRollout, RowMoves, RowTypes

LEMMA KeepRows ==
    ASSUME EpochInvariant, NEW i \in Instances, UNCHANGED progress
    PROVE  RowsKept(i)
  BY DEF EpochInvariant, TypeOK, RowsKept

LEMMA KeepTypes ==
    ASSUME EpochInvariant
    PROVE  /\ progress \in [Instances -> [Versions -> Row \cup {NoRow}]]
           /\ running \in [Instances -> Versions \cup {NoVersion}]
           /\ spent \in [admissions : Nat, activations : Nat, faults : Nat, crashes : Nat]
           /\ pass \in [Instances -> Pass] /\ clock \in Nat
           /\ outcomes \in Seq({"none"} \cup TerminalStates) /\ Len(outcomes) = Len(requests)
           /\ rollout \in Rollout \cup {NoRollout} /\ ended \subseteq Nat \X TerminalStates
           /\ admittedAt \in Nat /\ Len(requests) \in Nat
           /\ TypeOK /\ TimesPast
           /\ \A i \in Instances : Shaped(pass[i], progress[i])
  BY RequestsTyped DEF EpochInvariant, TypeOK, PassShape

LEMMA EndPassMoves ==
    ASSUME EpochInvariant, NEW i \in Instances, EndPass(i)
    PROVE  PassMoves(i)
  <1>1. PassAt("idle") \in Pass /\ pass \in [Instances -> Pass]
    BY KeepTypes DEF PassAt, Pass, NoAck, Ack
  <1>2. pass' = [pass EXCEPT ![i] = PassAt("idle")]
    BY DEF EndPass
  <1>3. Shaped(PassAt("idle"), progress'[i])
    BY SMTT(60), KeepTypes DEF Shaped, PassAt
  <1>4. PassAt("idle").seen = NoRollout
    BY DEF PassAt
  <1> HIDE DEF PassAt
  <1> QED BY <1>1, <1>2, <1>3, <1>4 DEF PassMoves

LEMMA DesiredMoves ==
    ASSUME EpochInvariant, NEW i \in Instances,
           pass' = [pass EXCEPT ![i].at = "desired"],
           pass[i].seen # NoRollout => progress'[i][pass[i].seen.version] # NoRow
    PROVE  PassMoves(i)
  <1> DEFINE q == [pass[i] EXCEPT !.at = "desired"]
  <1>1. pass' = [pass EXCEPT ![i] = q]
    BY KeepTypes
  <1>2. q \in Pass /\ q.at = "desired" /\ q.seen = pass[i].seen /\ q.known = pass[i].known
    <2>1. pass[i] \in Pass
      BY KeepTypes
    <2> QED BY <2>1 DEF Pass
  <1>3. pass[i].known <= Len(requests)
    BY KeepTypes DEF Shaped
  <1> HIDE DEF q
  <1>4. Shaped(q, progress'[i])
    BY <1>2, <1>3 DEF Shaped
  <1>5. pass \in [Instances -> Pass]
    BY KeepTypes
  <1> QED BY <1>1, <1>2, <1>4, <1>5 DEF PassMoves

\* A row of progress with one more attempt is a row.
LEMMA ChargeTypes ==
    ASSUME EpochInvariant, NEW i \in Instances, ChargeAttempt(i)
    PROVE  RowsKept(i)
  <1> DEFINE v == Driver(i)
  <1>1. progress \in [Instances -> [Versions -> Row \cup {NoRow}]]
    BY KeepTypes
  <1>2. CASE v \in Versions /\ progress[i][v] # NoRow
    <2>1. progress[i][v] \in Row
      BY <1>1, <1>2
    <2>2. [progress[i][v] EXCEPT !.attempts = @ + 1] \in Row
      BY SMTT(60), <2>1 DEF Row
    <2>3. progress' = [progress EXCEPT ![i][v].attempts = @ + 1]
      BY <1>2 DEF ChargeAttempt
    <2> HIDE DEF v
    <2>4. progress' = [progress EXCEPT ![i] = [progress[i] EXCEPT ![v] = [progress[i][v] EXCEPT !.attempts = @ + 1]]]
      BY <1>1, <1>2, <2>3
    <2>5. [progress[i][v] EXCEPT !.attempts = @ + 1] # NoRow
      BY <2>2
    <2> QED BY <1>1, <1>2, <2>2, <2>4, <2>5 DEF RowsKept
  <1>3. CASE ~(v \in Versions /\ progress[i][v] # NoRow)
    BY <1>1, <1>3 DEF ChargeAttempt, RowsKept
  <1> QED BY <1>2, <1>3

LEMMA PassUpdate ==
    ASSUME EpochInvariant, NEW i \in Instances, NEW q \in Pass,
           pass' = [pass EXCEPT ![i] = q], Shaped(q, progress'[i]),
           q.seen \in {NoRollout, pass[i].seen, rollout'}
    PROVE  PassMoves(i)
  BY KeepTypes DEF PassMoves

\* A transition keeps the row's version and epoch, and never goes back.
LEMMA TransitionedRow ==
    ASSUME NEW r \in Rollout, NEW state \in {"restarting", "complete", "failed"},
           NEW at \in Nat
    PROVE  LET new == Transitioned(r, state, at) IN
           /\ new \in Rollout /\ new # NoRollout
           /\ new.version = r.version /\ SameEpoch(r, new)
           /\ new.state # "enrolling"
           /\ state # "restarting" => new.state \in TerminalStates
           /\ r.state \in ActiveStates => new.state = state
           /\ r.state \notin ActiveStates => new = r
  <1> DEFINE new == Transitioned(r, state, at)
             f == IF state = "failed" THEN at ELSE r.failed
  <1>1. CASE r.state \in ActiveStates
    <2>1. new = [r EXCEPT !.state = state, !.failed = f]
      BY <1>1 DEF Transitioned, Rollout
    <2>2. f \in Stamp
      BY DEF Rollout
    <2> HIDE DEF new, f
    <2>3. new \in Rollout /\ new.state = state
      BY <2>1, <2>2 DEF Rollout
    <2>4. new.version = r.version /\ SameEpoch(r, new)
      BY <2>1 DEF Rollout, SameEpoch
    <2> QED BY <1>1, <2>3, <2>4 DEF new
  <1>2. CASE r.state \notin ActiveStates
    BY <1>2 DEF Transitioned, Rollout, SameEpoch
  <1> QED BY <1>1, <1>2

\* The same as one fact about the row and the row it becomes.
MovedRow(r, new, state) ==
    /\ new \in Rollout /\ new # NoRollout
    /\ new.version = r.version /\ SameEpoch(r, new)
    /\ new.state # "enrolling"
    /\ state # "restarting" => new.state \in TerminalStates

LEMMA TransitionedMoves ==
    ASSUME NEW r \in Rollout, NEW state \in {"restarting", "complete", "failed"},
           NEW at \in Nat
    PROVE  MovedRow(r, Transitioned(r, state, at), state)
  <1> HIDE DEF Never, Stamp, ActiveStates, TerminalStates
  <1> QED BY SMTT(60), TransitionedRow DEF MovedRow

\* The facts a Mark...ForRollout call of a pass that holds a rollout gives.
LEMMA MarkMoves ==
    ASSUME EpochInvariant, NEW i \in Instances,
           NEW state \in {"restarting", "complete", "failed"}, NEW next,
           next \in {"idle", "desired"},
           pass[i].seen # NoRollout, MarkForRollout(i, state, next),
           state = "restarting" \/ next = "desired" \/
             pass[i].seen.version \in KnownVersions(pass[i].known) =>
               progress[i][pass[i].seen.version] # NoRow
    PROVE  /\ PassMoves(i) /\ RowMoves /\ RowTypes
           /\ RowsKept(i)
  <1> DEFINE seen == pass[i].seen
             result == TransitionResult(rollout, seen)
             new == TransitionFor(rollout, seen, state, clock)
             label == IF state = "restarting" THEN ThenEvaluate(new) ELSE "record"
  <1>1. CASE /\ result = "ok" /\ ChangeRollout(new) /\ UNCHANGED progress
             /\ pass' = [pass EXCEPT ![i].seen = new, ![i].at = label]
    <2>1. rollout \in Rollout /\ rollout # NoRollout /\ clock \in Nat
      BY <1>1, KeepTypes DEF TransitionResult
    <2>2. new = Transitioned(rollout, state, clock)
      BY <1>1 DEF TransitionFor
    <2>3. /\ new \in Rollout /\ new # NoRollout
          /\ new.version = rollout.version /\ SameEpoch(rollout, new)
          /\ new.state # "enrolling"
          /\ state # "restarting" => new.state \in TerminalStates
      <3>1. MovedRow(rollout, Transitioned(rollout, state, clock), state)
        BY <2>1, TransitionedMoves
      <3> HIDE DEF new
      <3> QED BY <2>2, <3>1 DEF MovedRow
    <2>4. /\ label \in {"cohort", "desired", "record"}
          /\ label = "cohort" => new.state = "restarting"
          /\ label = "record" => new.state \in TerminalStates
          /\ label # "record" => state = "restarting"
      BY <2>3 DEF ThenEvaluate
    <2>8. new.version = pass[i].seen.version
      BY <1>1, <2>3 DEF TransitionResult
    <2> HIDE DEF new, label
    <2>5. rollout' = new /\ RowMoves
      BY <1>1, <2>1, <2>3 DEF ChangeRollout, RowMoves
    <2>6. RowTypes
      BY SMTT(60), <1>1, <2>3, KeepTypes DEF ChangeRollout, RowTypes
    <2>7. PassMoves(i)
      <3>1. pass' = [pass EXCEPT ![i] = [pass[i] EXCEPT !.seen = new, !.at = label]]
        BY <1>1, KeepTypes
      <3>2. [pass[i] EXCEPT !.seen = new, !.at = label] \in Pass
        <4>1. pass[i] \in Pass
          BY KeepTypes
        <4> QED BY <2>3, <2>4, <4>1 DEF Pass
      <3> DEFINE q == [pass[i] EXCEPT !.seen = new, !.at = label]
      <3>3. q.seen = new /\ q.at = label /\ q.known = pass[i].known
        <4>1. pass[i] \in Pass
          BY KeepTypes
        <4> QED BY <4>1 DEF Pass
      <3>4. pass[i].known <= Len(requests)
        BY KeepTypes DEF Shaped
      <3> HIDE DEF q
      <3>5. Shaped(q, progress'[i])
        BY <1>1, <2>3, <2>4, <2>8, <3>3, <3>4 DEF Shaped
      <3> QED BY <2>5, <3>1, <3>2, <3>3, <3>5, PassUpdate DEF q
    <2> QED BY <1>1, <2>5, <2>6, <2>7, KeepRows
  <1>2. CASE result = "epochMismatch" /\ KeepRollout /\ Goto(i, next) /\ UNCHANGED progress
    <2>1. CASE next = "idle"
      BY <1>2, <2>1, EndPassMoves, KeepRow, KeepRows DEF Goto
    <2>2. CASE next = "desired"
      BY <1>2, <2>2, DesiredMoves, KeepRow, KeepRows DEF Goto
    <2> QED BY <2>1, <2>2
  <1>3. CASE result = "versionMismatch" /\ KeepRollout /\ FailPass(i)
    BY <1>3, EndPassMoves, ChargeTypes, KeepRow DEF FailPass
  <1> QED BY <1>1, <1>2, <1>3 DEF MarkForRollout

\* Every step of a pass that touches nothing but the pass.
LEMMA PassOnly ==
    ASSUME EpochInvariant, NEW i \in Instances, PassMoves(i), Elsewhere, KeepRollout,
           UNCHANGED <<progress, outcomes, running, spent>>
    PROVE  EpochInvariant'
  BY KeepTypes, KeepRows, KeepRow, KeepRows, PollKeepsEpochs DEF OwnTypes, OutcomeTypes

LEMMA SpendFault ==
    ASSUME EpochInvariant, NEW free \in BOOLEAN,
           spent' = [spent EXCEPT !.faults = IF free THEN @ ELSE @ + 1]
    PROVE  spent' \in [admissions : Nat, activations : Nat, faults : Nat, crashes : Nat]
  <1>1. spent \in [admissions : Nat, activations : Nat, faults : Nat, crashes : Nat]
    BY KeepTypes
  <1> QED BY SMTT(60), <1>1

LEMMA BootEpochs ==
    ASSUME EpochInvariant, NEW i \in Instances, NEW started \in BOOLEAN, Boot(i, started)
    PROVE  EpochInvariant'
  <1>1. EndPass(i) /\ Elsewhere /\ KeepRollout /\ UNCHANGED <<progress, outcomes>>
    BY DEF Boot
  <1>2. running' \in [Instances -> Versions \cup {NoVersion}]
    <2>1. LatestKnownVersion(Len(requests)) \in Versions \cup {NoVersion}
      BY SMTT(60), KeepTypes, LatestKnown
    <2>2. running' = [running EXCEPT ![i] =
              IF started THEN LatestKnownVersion(Len(requests)) ELSE NoVersion]
      BY DEF Boot
    <2> QED BY <2>1, <2>2, KeepTypes
  <1>3. OwnTypes /\ OutcomeTypes
    BY <1>1, <1>2, SpendFault, KeepTypes DEF Boot, OwnTypes, OutcomeTypes
  <1> QED BY <1>1, <1>3, EndPassMoves, KeepRow, KeepRows, PollKeepsEpochs

LEMMA ReadEpochs ==
    ASSUME EpochInvariant, NEW i \in Instances, ReadKnown(i) \/ ReadRollout(i)
    PROVE  EpochInvariant'
  <1> DEFINE p == pass[i]
  <1>0. p \in Pass /\ Shaped(p, progress[i]) /\ pass \in [Instances -> Pass]
    BY KeepTypes
  <1>1. CASE ReadKnown(i)
    <2> DEFINE q == [p EXCEPT !.at = "rollout", !.known = Len(requests)]
    <2>1. pass' = [pass EXCEPT ![i] = q]
      BY <1>0, <1>1 DEF ReadKnown
    <2>2. q \in Pass /\ q.at = "rollout" /\ q.known = Len(requests) /\ q.seen = p.seen
      <3>1. Len(requests) \in Nat
        BY KeepTypes
      <3> QED BY <1>0, <3>1 DEF Pass
    <2>3. p.seen = NoRollout /\ Len(requests) \in Nat
      BY <1>0, <1>1, KeepTypes DEF Shaped, ReadKnown, At
    <2> HIDE DEF q
    <2>4. Shaped(q, progress'[i])
      BY SMTT(60), <2>2, <2>3 DEF Shaped
    <2>5. PassMoves(i)
      BY <2>1, <2>2, <2>4, PassUpdate
    <2> QED BY <1>1, <2>5, PassOnly DEF ReadKnown
  <1>2. CASE ReadRollout(i)
    <2>0. At(i, "rollout") /\ Elsewhere /\ KeepRollout
          /\ UNCHANGED <<progress, outcomes, running, spent>>
      BY <1>2 DEF ReadRollout
    <2>1. CASE IsActive(rollout)
      <3> DEFINE l == IF rollout.version \in KnownVersions(p.known) THEN "ack" ELSE "unaccepted"
                 q == [p EXCEPT !.seen = rollout, !.at = l]
      <3>1. pass' = [pass EXCEPT ![i] = q]
        BY <1>0, <1>2, <2>1 DEF ReadRollout
      <3>2. rollout \in Rollout /\ rollout # NoRollout /\ rollout.state \in ActiveStates /\ rollout' = rollout
        BY <2>0, <2>1, KeepTypes DEF IsActive, KeepRollout
      <3>3. l \in {"ack", "unaccepted"} /\ (l = "ack" <=> rollout.version \in KnownVersions(p.known))
        OBVIOUS
      <3> HIDE DEF l
      <3>4. q \in Pass /\ q.at = l /\ q.seen = rollout /\ q.known = p.known
        BY <1>0, <3>2, <3>3 DEF Pass
      <3> HIDE DEF q
      <3>5. Shaped(q, progress'[i])
        BY <1>0, <3>2, <3>3, <3>4 DEF Shaped
      <3>6. PassMoves(i)
        BY <3>1, <3>2, <3>4, <3>5, PassUpdate
      <3> QED BY <2>0, <3>6, PassOnly
    <2>2. CASE ~IsActive(rollout)
      <3>1. pass[i].seen = NoRollout
        BY <1>0, <2>0 DEF Shaped, At
      <3> QED BY <1>2, <2>0, <2>2, <3>1, DesiredMoves, PassOnly DEF ReadRollout
    <2> QED BY <2>1, <2>2
  <1> QED BY <1>1, <1>2

LEMMA UnacceptedEpochs ==
    ASSUME EpochInvariant, NEW i \in Instances, Unaccepted(i)
    PROVE  EpochInvariant'
  <1>0. At(i, "unaccepted") /\ Elsewhere /\ UNCHANGED <<outcomes, running, spent>>
        /\ pass[i].seen # NoRollout /\ pass[i].seen.version \notin KnownVersions(pass[i].known)
    BY KeepTypes DEF Unaccepted, Shaped, At
  <1>1. CASE EndPass(i) /\ KeepRollout /\ UNCHANGED progress
    BY <1>0, <1>1, EndPassMoves, PassOnly
  <1>2. CASE MarkForRollout(i, "failed", "idle")
    <2>1. /\ PassMoves(i) /\ RowMoves /\ RowTypes /\ RowsKept(i)
      BY <1>0, <1>2, MarkMoves
    <2> QED BY <1>0, <2>1, KeepTypes, PollKeepsEpochs DEF OwnTypes, OutcomeTypes
  <1> QED BY <1>1, <1>2 DEF Unaccepted

LEMMA StampEpochs ==
    ASSUME EpochInvariant, NEW i \in Instances, NEW v \in Versions, NEW since \in Nat,
           NEW label \in {"ackWrite", "desiredWrite"}, StampAck(i, v, since, label),
           At(i, IF label = "ackWrite" THEN "ack" ELSE "desired")
    PROVE  EpochInvariant'
  <1> DEFINE p == pass[i]
             a == [version |-> v, since |-> since, at |-> clock]
             q == [p EXCEPT !.at = label, !.ack = a]
  <1>0. p \in Pass /\ Shaped(p, progress[i]) /\ pass \in [Instances -> Pass] /\ clock \in Nat
    BY KeepTypes
  <1>1. pass' = [pass EXCEPT ![i] = q]
    BY <1>0 DEF StampAck
  <1>2. a \in Ack /\ a.version = v
    BY <1>0 DEF Ack
  <1> HIDE DEF a
  <1>3. q \in Pass /\ q.at = label /\ q.ack = a /\ q.seen = p.seen /\ q.known = p.known
    BY <1>0, <1>2 DEF Pass
  <1> HIDE DEF q
  <1>4. progress' = progress /\ p.at = (IF label = "ackWrite" THEN "ack" ELSE "desired")
    BY DEF StampAck, At
  <1>6. Shaped(q, progress'[i])
    BY <1>0, <1>2, <1>3, <1>4 DEF Shaped
  <1>5. PassMoves(i)
    BY <1>1, <1>3, <1>6, PassUpdate
  <1> QED BY <1>5, PassOnly DEF StampAck

\* What WriteAck does to the row of progress it starts over.
LEMMA WriteAckRow ==
    ASSUME EpochInvariant, NEW i \in Instances, NEW label, WriteAck(i, label),
           pass[i].at \in {"ackWrite", "desiredWrite"}
    PROVE  LET ack == pass[i].ack
               row == [ack |-> IF ack.at < ack.since THEN ack.since ELSE ack.at,
                       restarted |-> Never, attempts |-> 0]
           IN  /\ ack \in Ack /\ ack.version \in Versions /\ row \in Row
               /\ progress' = [progress EXCEPT ![i] = [progress[i] EXCEPT ![ack.version] = row]]
               /\ RowsKept(i)
  <1> DEFINE ack == pass[i].ack
             row == [ack |-> IF ack.at < ack.since THEN ack.since ELSE ack.at,
                     restarted |-> Never, attempts |-> 0]
  <1>1. ack \in Ack /\ ack.version \in Versions
    <2>1. pass[i] \in Pass /\ Shaped(pass[i], progress[i])
      BY KeepTypes
    <2> QED BY <2>1 DEF Shaped, Pass
  <1>2. row \in Row
    BY <1>1 DEF Ack, Row
  <1>3. progress' = [progress EXCEPT ![i][ack.version] = row]
    BY DEF WriteAck
  <1> HIDE DEF ack, row
  <1>4. progress' = [progress EXCEPT ![i] = [progress[i] EXCEPT ![ack.version] = row]]
    BY <1>3, KeepTypes
  <1>5. RowsKept(i)
    BY <1>1, <1>2, <1>4, KeepTypes DEF RowsKept
  <1> QED BY <1>1, <1>2, <1>4, <1>5 DEF ack, row

LEMMA WriteEpochs ==
    ASSUME EpochInvariant, NEW i \in Instances, AckRolloutWrite(i) \/ AckDesiredWrite(i)
    PROVE  EpochInvariant'
  <1> PICK label \in {"ack", "desired"} :
          /\ WriteAck(i, label) /\ pass[i].at \in {"ackWrite", "desiredWrite"}
          /\ pass[i].at = IF label = "ack" THEN "ackWrite" ELSE "desiredWrite"
    BY DEF AckRolloutWrite, AckDesiredWrite, At
  <1> DEFINE p == pass[i]
             q == [p EXCEPT !.at = label, !.ack = NoAck]
  <1>0. p \in Pass /\ Shaped(p, progress[i]) /\ pass \in [Instances -> Pass]
    BY KeepTypes
  <1>1. pass' = [pass EXCEPT ![i] = q]
    BY <1>0 DEF WriteAck
  <1>2. NoAck \in Ack
    BY DEF Ack, NoAck
  <1>3. q \in Pass /\ q.at = label /\ q.seen = p.seen /\ q.known = p.known
    BY <1>0, <1>2 DEF Pass
  <1> HIDE DEF q
  <1>4. RowsKept(i)
    BY WriteAckRow
  <1>5. p.seen # NoRollout => p.seen.version \in Versions
    BY <1>0 DEF Pass, Rollout
  <1>6. Shaped(q, progress'[i])
    BY <1>0, <1>3, <1>4, <1>5 DEF Shaped, RowsKept
  <1>7. PassMoves(i)
    BY <1>1, <1>3, <1>6, PassUpdate
  <1>8. Elsewhere /\ KeepRollout /\ UNCHANGED <<outcomes, running, spent>>
    BY DEF WriteAck
  <1> QED BY <1>4, <1>7, <1>8, KeepRow, KeepTypes, PollKeepsEpochs DEF OwnTypes, OutcomeTypes

LEMMA PhaseEpochs ==
    ASSUME EpochInvariant, NEW i \in Instances, Phase(i)
    PROVE  EpochInvariant'
  <1> DEFINE p == pass[i]
  <1>0. p \in Pass /\ Shaped(p, progress[i]) /\ pass \in [Instances -> Pass]
    BY KeepTypes
  <1>1. At(i, "ack") /\ Elsewhere /\ UNCHANGED <<outcomes, running, spent>>
        /\ p.seen # NoRollout /\ progress[i][p.seen.version] # NoRow
    BY <1>0 DEF Phase, Shaped, At, Acknowledged
  <1>2. CASE /\ pass' = [pass EXCEPT ![i].at = ThenEvaluate(p.seen),
                                     ![i].blocked = RestartBlocked(p.seen)]
             /\ KeepRollout /\ UNCHANGED progress
    <2> DEFINE l == ThenEvaluate(p.seen)
               b == RestartBlocked(p.seen)
               q == [p EXCEPT !.at = l, !.blocked = b]
    <2>1. pass' = [pass EXCEPT ![i] = q]
      BY <1>0, <1>2
    <2>2. l \in {"cohort", "desired"} /\ b \in BOOLEAN /\ (l = "cohort" => p.seen.state = "restarting")
      BY DEF ThenEvaluate, RestartBlocked
    <2> HIDE DEF l, b
    <2>3. q \in Pass /\ q.at = l /\ q.seen = p.seen /\ q.known = p.known
      BY <1>0, <2>2 DEF Pass
    <2> HIDE DEF q
    <2>4. Shaped(q, progress'[i])
      BY <1>0, <1>1, <1>2, <2>2, <2>3 DEF Shaped
    <2>5. PassMoves(i)
      BY <2>1, <2>3, <2>4, PassUpdate
    <2> QED BY <1>1, <1>2, <2>5, PassOnly
  <1>3. CASE MarkForRollout(i, "restarting", "idle")
    <2>1. /\ PassMoves(i) /\ RowMoves /\ RowTypes /\ RowsKept(i)
      BY <1>1, <1>3, MarkMoves
    <2> QED BY <1>1, <2>1, KeepTypes, PollKeepsEpochs DEF OwnTypes, OutcomeTypes
  <1> QED BY <1>2, <1>3 DEF Phase

LEMMA AckEpochs ==
    ASSUME EpochInvariant, NEW i \in Instances, AckRollout(i) \/ AckDesired(i)
    PROVE  EpochInvariant'
  <1>0. pass[i] \in Pass /\ Shaped(pass[i], progress[i]) /\ Len(requests) \in Nat
    BY KeepTypes
  <1>1. CASE AckRollout(i)
    <2>1. pass[i].seen \in Rollout
      BY <1>0, <1>1 DEF AckRollout, At, Shaped, Pass
    <2>2. pass[i].seen.version \in Versions /\ pass[i].seen.created \in Nat
      BY <2>1 DEF Rollout
    <2> QED BY <1>1, <2>2, StampEpochs DEF AckRollout
  <1>2. CASE AckDesired(i)
    <2>1. pass[i].known \in 0 .. Len(requests) /\ pass[i].known # 0
      <3>1. pass[i].known \in Nat
        BY <1>0 DEF Pass
      <3>2. pass[i].known <= Len(requests)
        BY <1>0 DEF Shaped
      <3>3. pass[i].known # 0
        BY <1>2 DEF AckDesired, NeedsAck
      <3> QED BY SMTT(60), <1>0, <3>1, <3>2, <3>3
    <2>2. Driver(i) \in Versions /\ UpdatedAt(Driver(i), pass[i].known) \in Nat
      BY <2>1, LatestKnown, KeepTypes DEF Driver
    <2> QED BY <1>2, <2>2, StampEpochs DEF AckDesired
  <1> QED BY <1>1, <1>2

LEMMA CohortEpochs ==
    ASSUME EpochInvariant, NEW i \in Instances, ListCohort(i)
    PROVE  EpochInvariant'
  <1> DEFINE p == pass[i]
             c == Converged(p.seen)
             q == [p EXCEPT !.at = "decide", !.converged = c]
  <1>0. p \in Pass /\ Shaped(p, progress[i]) /\ pass \in [Instances -> Pass] /\ p.at = "cohort"
    BY KeepTypes DEF ListCohort, At
  <1>1. pass' = [pass EXCEPT ![i] = q]
    BY <1>0 DEF ListCohort
  <1>2. c \in BOOLEAN
    BY DEF Converged
  <1> HIDE DEF c
  <1>3. q \in Pass /\ q.at = "decide" /\ q.seen = p.seen /\ q.known = p.known
    BY <1>0, <1>2 DEF Pass
  <1> HIDE DEF q
  <1>4. Shaped(q, progress'[i])
    BY <1>0, <1>3 DEF Shaped, ListCohort
  <1>5. PassMoves(i)
    BY <1>1, <1>3, <1>4, PassUpdate
  <1> QED BY <1>5, PassOnly DEF ListCohort

LEMMA DecideEpochs ==
    ASSUME EpochInvariant, NEW i \in Instances, NEW hook \in Hook, Decide(i, hook)
    PROVE  EpochInvariant'
  <1>0. pass[i] \in Pass /\ Shaped(pass[i], progress[i])
    BY KeepTypes
  <1>1. pass[i].seen # NoRollout /\ progress[i][pass[i].seen.version] # NoRow
    BY <1>0 DEF Decide, At, Shaped
  <1>2. AfterOutcome(i) \in {"idle", "desired"}
    BY DEF AfterOutcome
  <1>3. spent' \in [admissions : Nat, activations : Nat, faults : Nat, crashes : Nat]
    <2>1. spent' = [spent EXCEPT !.faults = IF hook = "ready" THEN @ ELSE @ + 1]
      BY DEF Decide
    <2> QED BY <2>1, SpendFault
  <1>4. Elsewhere /\ UNCHANGED <<outcomes, running>>
    BY DEF Decide
  <1>5. /\ PassMoves(i) /\ RowMoves /\ RowTypes /\ RowsKept(i)
    <2>1. CASE \E s \in {"complete", "failed"} : MarkForRollout(i, s, AfterOutcome(i))
      BY <1>1, <1>2, <2>1, MarkMoves
    <2>2. CASE FailPass(i) /\ KeepRollout
      BY <2>2, EndPassMoves, ChargeTypes, KeepRow DEF FailPass
    <2>3. CASE Goto(i, AfterOutcome(i)) /\ UNCHANGED progress /\ KeepRollout
      <3>1. PassMoves(i)
        BY <1>1, <1>2, <2>3, EndPassMoves, DesiredMoves DEF Goto
      <3> QED BY <2>3, <3>1, KeepRow, KeepRows
    <2> QED BY <2>1, <2>2, <2>3 DEF Decide
  <1> QED BY <1>3, <1>4, <1>5, KeepTypes, PollKeepsEpochs DEF OwnTypes, OutcomeTypes

LEMMA RecordEpochs ==
    ASSUME EpochInvariant, NEW i \in Instances, RecordOutcome(i)
    PROVE  EpochInvariant'
  <1> DEFINE seen == pass[i].seen
             request == LatestRevisionIDForVersion(seen.version)
             next == IF seen.version \in KnownVersions(pass[i].known)
                     THEN AfterOutcome(i) ELSE "idle"
  <1>0. pass[i] \in Pass /\ Shaped(pass[i], progress[i]) /\ pass[i].at = "record"
    BY KeepTypes DEF RecordOutcome, At
  <1>1. OutcomeTypes
    <2>1. seen.state \in TerminalStates
      BY <1>0 DEF Shaped
    <2>2. outcomes \in Seq({"none"} \cup TerminalStates)
      BY KeepTypes
    <2>3. outcomes' = outcomes \/ outcomes' = [outcomes EXCEPT ![request] = seen.state]
      BY DEF RecordOutcome, RecordedOutcome
    <2> HIDE DEF seen, request
    <2> QED BY SMTT(60), <2>1, <2>2, <2>3 DEF OutcomeTypes
  <1>2. PassMoves(i)
    <2>1. next \in {"idle", "desired"} /\ Goto(i, next)
      BY DEF RecordOutcome, AfterOutcome
    <2>2. next = "desired" => progress'[i][seen.version] # NoRow
      BY <1>0 DEF Shaped, RecordOutcome
    <2> HIDE DEF next
    <2> QED BY <2>1, <2>2, EndPassMoves, DesiredMoves DEF Goto
  <1>3. Elsewhere /\ KeepRollout /\ UNCHANGED <<progress, running, spent>>
    BY DEF RecordOutcome
  <1> QED BY <1>1, <1>2, <1>3, KeepRow, KeepRows, KeepTypes, PollKeepsEpochs DEF OwnTypes

\* A replica about to restart has a row of progress for the desired version.
LEMMA PendingRow ==
    ASSUME EpochInvariant, NEW i \in Instances, Pending(i)
    PROVE  Driver(i) \in Versions /\ progress[i][Driver(i)] \in Row
  <1>0. pass[i] \in Pass /\ Shaped(pass[i], progress[i]) /\ Len(requests) \in Nat
    BY KeepTypes
  <1>1. pass[i].known \in 0 .. Len(requests) /\ pass[i].known # 0
    <2>1. /\ pass[i].known \in Nat /\ pass[i].known <= Len(requests)
          /\ pass[i].known # 0
      BY <1>0 DEF Pending, Shaped, Pass
    <2> QED BY SMTT(60), <1>0, <2>1
  <1>2. Driver(i) \in Versions
    <2>1. TypeOK /\ TimesPast
      BY KeepTypes
    <2>2. LatestKnownVersion(pass[i].known) \in Versions
      BY <1>1, <2>1, LatestKnown
    <2> QED BY <2>2 DEF Driver
  <1>3. progress[i][Driver(i)] # NoRow
    BY <1>0, <1>1 DEF Pending, NeedsAck, Acknowledged, Shaped, At
  <1> QED BY SMTT(60), <1>2, <1>3, KeepTypes

\* The row of progress that Restart stamps.
LEMMA RestartRow ==
    ASSUME EpochInvariant, NEW i \in Instances, Restart(i)
    PROVE  LET v == Driver(i)
               row == [progress[i][v] EXCEPT !.restarted = clock]
           IN  /\ v \in Versions /\ progress[i][v] \in Row /\ row \in Row
               /\ progress' = [progress EXCEPT ![i] = [progress[i] EXCEPT ![v] = row]]
               /\ RowsKept(i)
  <1> DEFINE v == Driver(i)
             row == [progress[i][v] EXCEPT !.restarted = clock]
  <1>1. v \in Versions /\ progress[i][v] \in Row /\ clock \in Nat
    BY PendingRow, KeepTypes DEF Restart
  <1>2. progress' = [progress EXCEPT ![i][v].restarted = clock]
    BY DEF Restart
  <1>3. progress \in [Instances -> [Versions -> Row \cup {NoRow}]]
    BY KeepTypes
  <1> HIDE DEF v
  <1>4. row \in Row
    BY <1>1 DEF Row
  <1>5. progress' = [progress EXCEPT ![i] = [progress[i] EXCEPT ![v] = row]]
    BY <1>1, <1>2, <1>3
  <1> HIDE DEF row
  <1>6. RowsKept(i)
    BY <1>1, <1>3, <1>4, <1>5 DEF RowsKept
  <1> QED BY <1>1, <1>4, <1>5, <1>6 DEF v, row

LEMMA RestartEpochs ==
    ASSUME EpochInvariant, NEW i \in Instances, Restart(i)
    PROVE  EpochInvariant'
  <1> DEFINE p == pass[i]
             v == Driver(i)
  <1>0. p \in Pass /\ Shaped(p, progress[i]) /\ pass \in [Instances -> Pass] /\ p.at = "desired"
    BY KeepTypes DEF Restart, Pending, At
  <1>1. v \in Versions /\ RowsKept(i)
    BY RestartRow
  <1>2. running' \in [Instances -> Versions \cup {NoVersion}]
    <2>1. running' = [running EXCEPT ![i] = IF FoundRunning(i, v) THEN @ ELSE v]
      BY DEF Restart
    <2> HIDE DEF v
    <2> QED BY <1>1, <2>1, KeepTypes
  <1>3. PassMoves(i)
    <2>1. CASE EndPass(i)
      BY <2>1, EndPassMoves
    <2>2. CASE /\ p.seen # NoRollout /\ p.seen.state = "restarting"
               /\ pass' = [pass EXCEPT ![i].at = "cohort", ![i].final = TRUE]
      <3> DEFINE q == [p EXCEPT !.at = "cohort", !.final = TRUE]
      <3>1. pass' = [pass EXCEPT ![i] = q]
        BY <1>0, <2>2
      <3>2. q \in Pass /\ q.at = "cohort" /\ q.seen = p.seen /\ q.known = p.known
        BY <1>0 DEF Pass
      <3>3. p.seen.version \in Versions
        BY <1>0, <2>2 DEF Pass, Rollout
      <3> HIDE DEF q
      <3>4. Shaped(q, progress'[i])
        BY <1>0, <1>1, <2>2, <3>2, <3>3 DEF Shaped, RowsKept
      <3> QED BY <3>1, <3>2, <3>4, PassUpdate
    <2> QED BY <2>1, <2>2 DEF Restart
  <1>4. Elsewhere /\ KeepRollout /\ UNCHANGED <<outcomes, spent>>
    BY DEF Restart
  <1> QED BY <1>1, <1>2, <1>3, <1>4, KeepRow, KeepTypes, PollKeepsEpochs DEF OwnTypes, OutcomeTypes

LEMMA RestartFailsEpochs ==
    ASSUME EpochInvariant, NEW i \in Instances, NEW left \in Versions \cup {NoVersion},
           RestartFails(i, left)
    PROVE  EpochInvariant'
  <1>1. running' \in [Instances -> Versions \cup {NoVersion}]
    <2>1. running' = [running EXCEPT ![i] = left]
      BY DEF RestartFails
    <2> QED BY <2>1, KeepTypes
  <1>2. spent' \in [admissions : Nat, activations : Nat, faults : Nat, crashes : Nat]
    <2>1. spent' = [spent EXCEPT !.faults = @ + 1]
      BY DEF RestartFails
    <2>2. spent \in [admissions : Nat, activations : Nat, faults : Nat, crashes : Nat]
      BY KeepTypes
    <2> QED BY SMTT(60), <2>1, <2>2
  <1>3. PassMoves(i) /\ RowsKept(i)
    BY EndPassMoves, ChargeTypes DEF RestartFails, FailPass
  <1>4. Elsewhere /\ KeepRollout /\ UNCHANGED outcomes
    BY DEF RestartFails
  <1> QED BY <1>1, <1>2, <1>3, <1>4, KeepRow, KeepTypes, PollKeepsEpochs DEF OwnTypes, OutcomeTypes

LEMMA CrashEpochs ==
    ASSUME EpochInvariant, NEW i \in Instances, Crash(i)
    PROVE  EpochInvariant'
  <1>1. running' \in [Instances -> Versions \cup {NoVersion}]
    <2>1. running' = [running EXCEPT ![i] = NoVersion]
      BY DEF Crash
    <2> QED BY <2>1, KeepTypes
  <1>2. spent' \in [admissions : Nat, activations : Nat, faults : Nat, crashes : Nat]
    <2>1. spent' = [spent EXCEPT !.crashes = @ + 1]
      BY DEF Crash
    <2>2. spent \in [admissions : Nat, activations : Nat, faults : Nat, crashes : Nat]
      BY KeepTypes
    <2> QED BY SMTT(60), <2>1, <2>2
  <1>3. PassMoves(i)
    <2> DEFINE q == PassAt("dead")
    <2>1. q \in Pass /\ q.at = "dead" /\ q.seen = NoRollout /\ q.known = 0
      BY DEF PassAt, Pass, NoAck, Ack
    <2>2. pass' = [pass EXCEPT ![i] = q]
      BY DEF Crash
    <2> HIDE DEF q
    <2>3. 0 <= Len(requests)
      BY SMTT(60), KeepTypes
    <2>4. Shaped(q, progress'[i])
      BY <2>1, <2>3 DEF Shaped
    <2> QED BY <2>1, <2>2, <2>4, PassUpdate
  <1>4. Elsewhere /\ KeepRollout /\ UNCHANGED <<progress, outcomes>>
    BY DEF Crash
  <1> QED BY <1>1, <1>2, <1>3, <1>4, KeepRow, KeepRows, KeepTypes, PollKeepsEpochs
          DEF OwnTypes, OutcomeTypes

LEMMA PollEpochs ==
    ASSUME EpochInvariant, NEW i \in Instances, PollStep(i)
    PROVE  EpochInvariant'
  <1>1. CASE LeaveAlone(i)
    BY <1>1, EndPassMoves, PassOnly DEF LeaveAlone
  <1> QED
    BY <1>1, BootEpochs, ReadEpochs, UnacceptedEpochs, AckEpochs, WriteEpochs,
       PhaseEpochs, CohortEpochs, DecideEpochs, RecordEpochs, RestartEpochs,
       RestartFailsEpochs DEF PollStep

\* Change requests are only added.
RequestsGrow ==
    /\ requests' \in Seq([to : Versions, at : Nat])
    /\ Len(requests) <= Len(requests')
    /\ \A j \in 1 .. Len(requests) : requests'[j] = requests[j]

LEMMA KnownKept ==
    ASSUME TypeOK, RequestsGrow
    PROVE  /\ Len(requests') \in Nat
           /\ \A k \in 0 .. Len(requests) :
                  {requests'[j].to : j \in 1 .. k} = KnownVersions(k)
  <1>1. Len(requests') \in Nat /\ Len(requests) \in Nat
    BY SMTT(60), RequestsTyped DEF RequestsGrow
  <1> SUFFICES ASSUME NEW k \in 0 .. Len(requests)
               PROVE  {requests'[j].to : j \in 1 .. k} = KnownVersions(k)
    BY <1>1
  <1>2. \A j \in 1 .. k : requests'[j] = requests[j]
    BY SMTT(60), <1>1 DEF RequestsGrow
  <1> QED BY <1>2 DEF KnownVersions

\* A step outside the pollers keeps what is known of their passes.
LEMMA PassesKept ==
    ASSUME EpochInvariant, UNCHANGED <<pass, progress>>, RequestsGrow,
           RowMoves \/ RowReplaced, rollout' \in Rollout \cup {NoRollout}
    PROVE  PassShape' /\ SeenBehind'
  <1>1. PassShape'
    <2> SUFFICES ASSUME NEW i \in Instances PROVE Shaped(pass[i], progress[i])'
      BY DEF PassShape
    <2>1. pass[i] \in Pass /\ Shaped(pass[i], progress[i]) /\ pass'[i] = pass[i]
          /\ progress'[i] = progress[i] /\ TypeOK
      BY KeepTypes
    <2>2. pass[i].known \in 0 .. Len(requests) /\ pass[i].known <= Len(requests')
      <3>1. pass[i].known \in Nat
        BY <2>1 DEF Pass
      <3>2. pass[i].known <= Len(requests)
        BY <2>1 DEF Shaped
      <3>3. Len(requests) \in Nat /\ Len(requests') \in Nat /\ Len(requests) <= Len(requests')
        BY <2>1, KnownKept, RequestsTyped DEF RequestsGrow
      <3> QED BY SMTT(60), <3>1, <3>2, <3>3
    <2>3. {requests'[j].to : j \in 1 .. pass[i].known} = KnownVersions(pass[i].known)
      BY <2>1, <2>2, KnownKept
    <2>4. KnownVersions(pass[i].known)' = KnownVersions(pass[i].known)
      BY <2>1, <2>3 DEF KnownVersions
    <2> QED BY <2>1, <2>2, <2>4 DEF Shaped
  <1>2. SeenBehind'
    <2> SUFFICES ASSUME NEW i \in Instances PROVE Behind(pass[i].seen)'
      BY DEF SeenBehind
    <2> QED BY BehindKept, KeepTypes DEF EpochInvariant, SeenBehind
  <1> QED BY <1>1, <1>2

LEMMA RequestsSame ==
    ASSUME EpochInvariant, UNCHANGED requests
    PROVE  RequestsGrow
  <1>1. TypeOK /\ Len(requests) \in Nat
    BY KeepTypes
  <1> QED BY SMTT(60), <1>1 DEF TypeOK, RequestsGrow

\* A fresh row is a row, in the first state of its mode.
LEMMA FreshRow ==
    ASSUME NEW v \in Versions, NEW s \in Sources, NEW at \in Nat
    PROVE  LET r == Fresh(v, "enrollment", s, 0, at) IN
           /\ r \in Rollout /\ r # NoRollout
           /\ r.version = v /\ r.target = s /\ r.created = at
           /\ r.mode = "enrollment" /\ r.state = "enrolling"
  <1> DEFINE r == Fresh(v, "enrollment", s, 0, at)
  <1>1. r = [version |-> v, state |-> "enrolling", mode |-> "enrollment",
             target |-> s, minimum |-> 0, created |-> at, healthySince |-> Never,
             evaluated |-> Never, failed |-> Never]
    BY DEF Fresh, InitialState
  <1>2. r \in Rollout
    BY SMTT(60), <1>1 DEF Rollout, Modes
  <1> QED BY SMTT(60), <1>1, <1>2

LEMMA ActivateEpochs ==
    ASSUME EpochInvariant, NEW s \in Sources, NEW retry \in BOOLEAN, Activate(s, retry)
    PROVE  EpochInvariant'
  <1>0. /\ UNCHANGED <<clock, requests, progress, outcomes, admission, pass, running,
                       admittedAt, ended>>
        /\ clock \in Nat /\ rollout \in Rollout \cup {NoRollout}
    BY KeepTypes DEF Activate
  <1>1. source' \in [current : Sources, minimum : Nat, updated : Nat]
    <2>1. source \in [current : Sources, minimum : Nat, updated : Nat]
      BY DEF EpochInvariant, TypeOK
    <2> QED BY <1>0, <2>1 DEF Activate, ActivatedSource
  <1>2. spent' \in [admissions : Nat, activations : Nat, faults : Nat, crashes : Nat]
    <2>1. spent' = [spent EXCEPT !.activations = @ + 1]
      BY DEF Activate
    <2>2. spent \in [admissions : Nat, activations : Nat, faults : Nat, crashes : Nat]
      BY KeepTypes
    <2> QED BY SMTT(60), <2>1, <2>2
  <1>3. \/ UNCHANGED rollout
        \/ /\ rollout' \in Rollout /\ rollout # NoRollout /\ rollout' # NoRollout
           /\ rollout'.created = clock /\ clock > rollout.created
    <2>1. CASE Retargets(rollout, source, s, 0, retry)
      <3>1. rollout # NoRollout /\ rollout.version \in Versions /\ clock > rollout.created
        BY <1>0, <2>1 DEF Retargets, Rollout, Activate, RoomForRollout
      <3>2. rollout' = Fresh(rollout.version, "enrollment", s, 0, clock)
        BY <2>1 DEF Activate, Retargeted
      <3> QED BY SMTT(60), <1>0, <3>1, <3>2, FreshRow
    <2>2. CASE ~Retargets(rollout, source, s, 0, retry)
      BY <2>2 DEF Activate
    <2> QED BY <2>1, <2>2
  <1>4. TypeOK'
    BY <1>0, <1>1, <1>2, <1>3 DEF EpochInvariant, TypeOK
  <1>5. TimesPast'
    <2>1. TimesPast /\ \A j \in 1 .. Len(requests) : requests[j].at \in Nat
      BY RequestsTyped, KeepTypes
    <2>2. admission.at \in Nat
      BY DEF EpochInvariant, TypeOK
    <2>3. rollout # NoRollout => rollout.created \in Nat
      BY <1>0 DEF Rollout
    <2> QED BY SMTT(60), <1>0, <1>3, <2>1, <2>2, <2>3 DEF TimesPast
  <1>6. RowMoves \/ RowReplaced
    BY <1>3 DEF RowMoves, RowReplaced
  <1>7. rollout' \in Rollout \cup {NoRollout}
    BY <1>0, <1>3
  <1> QED BY <1>0, <1>4, <1>5, <1>6, <1>7, RequestsSame, PassesKept DEF EpochInvariant

\* The facts about an admission that its steps use.
LEMMA AdmissionTyped ==
    ASSUME EpochInvariant
    PROVE  /\ admission \in [step : {"idle", "create", "append", "undo"},
                             version : Versions \cup {NoVersion}, at : Nat]
           /\ source.current \in Sources
           /\ rollout # NoRollout => rollout.created \in Nat /\ rollout.version \in Versions
           /\ Idle \in [step : {"idle"}, version : {NoVersion}, at : Nat]
           /\ \A j \in 1 .. Len(requests) : requests[j].at \in Nat
  <1>1. rollout \in Rollout \cup {NoRollout} /\ TypeOK
    BY KeepTypes
  <1>2. rollout # NoRollout => rollout.created \in Nat /\ rollout.version \in Versions
    BY <1>1 DEF Rollout
  <1> QED BY <1>1, <1>2, RequestsTyped DEF TypeOK, Idle

\* A step that only moves the admission on, or ends it.
LEMMA AdmissionOnly ==
    ASSUME EpochInvariant,
           UNCHANGED <<clock, source, rollout, requests, progress, outcomes, pass,
                       running, admittedAt, ended>>,
           spent' \in [admissions : Nat, activations : Nat, faults : Nat, crashes : Nat],
           \/ admission' = Idle
           \/ /\ admission' \in [step : {"create"}, version : Versions, at : Nat]
    PROVE  EpochInvariant'
  <1>1. TypeOK'
    BY AdmissionTyped DEF EpochInvariant, TypeOK
  <1>2. TimesPast'
    <2>1. admission'.step \in {"idle", "create"} /\ (admission'.step # "idle" => admission'.version \in Versions)
      BY SMTT(60) DEF Idle
    <2> QED BY <2>1, KeepTypes DEF TimesPast
  <1>3. RowMoves /\ rollout' \in Rollout \cup {NoRollout}
    BY KeepTypes DEF RowMoves
  <1> QED BY <1>1, <1>2, <1>3, RequestsSame, PassesKept DEF EpochInvariant

LEMMA AdmitCheckEpochs ==
    ASSUME EpochInvariant, NEW v \in Versions, AdmitCheck(v)
    PROVE  EpochInvariant'
  <1>1. spent' \in [admissions : Nat, activations : Nat, faults : Nat, crashes : Nat]
    <2>1. spent \in [admissions : Nat, activations : Nat, faults : Nat, crashes : Nat]
      BY KeepTypes
    <2> QED BY SMTT(60), <2>1 DEF AdmitCheck
  <1> QED BY <1>1, AdmissionOnly DEF AdmitCheck

LEMMA AdmitEndEpochs ==
    ASSUME EpochInvariant, AdmitRefuse \/ AdmitCrash
    PROVE  EpochInvariant'
  <1>1. spent' \in [admissions : Nat, activations : Nat, faults : Nat, crashes : Nat]
    <2>1. spent \in [admissions : Nat, activations : Nat, faults : Nat, crashes : Nat]
      BY KeepTypes
    <2> QED BY SMTT(60), <2>1 DEF AdmitRefuse, AdmitCrash
  <1> QED BY <1>1, AdmissionOnly DEF AdmitRefuse, AdmitCrash

LEMMA AdmitCreateEpochs ==
    ASSUME EpochInvariant, AdmitCreate
    PROVE  EpochInvariant'
  <1>0. /\ UNCHANGED <<clock, source, requests, progress, outcomes, pass, running, spent, ended>>
        /\ admission.step = "create" /\ clock \in Nat
    BY KeepTypes DEF AdmitCreate
  <1>1. admission.version \in Versions
    BY <1>0 DEF EpochInvariant, TimesPast
  <1>2. /\ RoomForRollout /\ admittedAt' = clock
        /\ rollout' = Fresh(admission.version, "enrollment", source.current, 0, clock)
        /\ admission' = [admission EXCEPT !.step = "append", !.at = clock]
    BY DEF AdmitCreate
  <1>3. rollout' \in Rollout /\ rollout' # NoRollout /\ rollout'.created = clock
    BY SMTT(60), <1>0, <1>1, <1>2, FreshRow, AdmissionTyped
  <1>4. /\ admission' \in [step : {"append"}, version : Versions, at : {clock}]
        /\ admission'.step = "append" /\ admission'.version \in Versions /\ admission'.at = clock
    BY <1>1, <1>2, AdmissionTyped
  <1>5. TypeOK'
    BY <1>0, <1>2, <1>3, <1>4 DEF EpochInvariant, TypeOK
  <1>6. TimesPast'
    <2>1. \A j \in 1 .. Len(requests) : requests[j].at <= clock
      BY SMTT(60), <1>0, AdmissionTyped DEF EpochInvariant, TimesPast
    <2> QED BY SMTT(60), <1>0, <1>3, <1>4, <2>1, KeepTypes DEF TimesPast
  <1>7. RowReplaced
    BY <1>2, <1>3 DEF RoomForRollout, RowReplaced
  <1> QED BY <1>0, <1>3, <1>5, <1>6, <1>7, RequestsSame, PassesKept DEF EpochInvariant

LEMMA AdmitAppendEpochs ==
    ASSUME EpochInvariant, AdmitAppend \/ \E w \in BOOLEAN : AdmitAppendFails(w)
    PROVE  EpochInvariant'
  <1> DEFINE e == [to |-> admission.version, at |-> admission.at]
  <1>0. /\ UNCHANGED <<clock, source, rollout, progress, pass, running, admittedAt, ended>>
        /\ admission.step = "append" /\ rollout # NoRollout
        /\ admission.version \in Versions /\ admission.at \in Nat
        /\ admission.at <= rollout.created
        /\ \A j \in 1 .. Len(requests) : requests[j].at <= admission.at
    BY AdmissionTyped DEF AdmitAppend, AdmitAppendFails, EpochInvariant, TimesPast
  <1>1. spent' \in [admissions : Nat, activations : Nat, faults : Nat, crashes : Nat]
    <2>1. spent \in [admissions : Nat, activations : Nat, faults : Nat, crashes : Nat]
      BY KeepTypes
    <2> QED BY SMTT(60), <2>1 DEF AdmitAppend, AdmitAppendFails
  <1>2. /\ admission' \in [step : {"idle", "undo"}, version : Versions \cup {NoVersion}, at : Nat]
        /\ admission'.step = "undo" => admission'.at = admission.at
        /\ admission'.step # "idle" => admission'.version \in Versions
    BY <1>0, AdmissionTyped DEF AdmitAppend, AdmitAppendFails, Idle
  <1>3. RowMoves /\ rollout' \in Rollout \cup {NoRollout}
    BY <1>0, KeepTypes DEF RowMoves
  <1>4. CASE UNCHANGED <<requests, outcomes>>
    <2>1. TypeOK'
      BY <1>0, <1>1, <1>2, <1>4 DEF EpochInvariant, TypeOK
    <2>2. TimesPast'
      BY <1>0, <1>2, <1>4, KeepTypes DEF TimesPast
    <2> QED BY <1>0, <1>3, <1>4, <2>1, <2>2, RequestsSame, PassesKept DEF EpochInvariant
  <1>5. CASE AppendRequest
    <2>0. /\ requests' = Append(requests, e) /\ outcomes' = Append(outcomes, "none")
          /\ e \in [to : Versions, at : Nat] /\ e.at = admission.at
          /\ requests \in Seq([to : Versions, at : Nat])
      BY <1>0, <1>5 DEF AppendRequest, EpochInvariant, TypeOK
    <2> HIDE DEF e
    <2>1. /\ requests' \in Seq([to : Versions, at : Nat]) /\ Len(requests) \in Nat
          /\ Len(requests') = Len(requests) + 1
          /\ \A j \in 1 .. Len(requests) : requests'[j] = requests[j]
          /\ requests'[Len(requests) + 1] = e
      BY SMTT(60), <2>0, SeqFacts
    <2>2. /\ outcomes' \in Seq({"none"} \cup TerminalStates)
          /\ Len(outcomes') = Len(requests')
      BY SMTT(60), <2>0, <2>1, KeepTypes, SeqFacts
    <2>3. RequestsGrow
      BY SMTT(60), <2>1 DEF RequestsGrow
    <2>4. TypeOK'
      BY <1>0, <1>1, <1>2, <2>1, <2>2 DEF EpochInvariant, TypeOK
    <2>5. TimesPast'
      <3>1. \A j \in 1 .. Len(requests') :
               j \in 1 .. Len(requests) \/ (j = Len(requests) + 1 /\ requests'[j].at = admission.at)
        BY SMTT(60), <2>0, <2>1
      <3>2. \A j \in 1 .. Len(requests') : requests'[j].at <= rollout.created
        <4>1. \A j \in 1 .. Len(requests) : requests'[j].at <= rollout.created
          BY <2>1, KeepTypes DEF TimesPast
        <4> QED BY <1>0, <3>1, <4>1
      <3>3. ASSUME NEW j \in 1 .. Len(requests'), NEW k \in 1 .. Len(requests'), j <= k
            PROVE  requests'[j].at <= requests'[k].at
        <4>1. \A l, m \in 1 .. Len(requests) : l <= m => requests[l].at <= requests[m].at
          BY KeepTypes DEF TimesPast
        <4>2. CASE k \in 1 .. Len(requests)
          <5>1. j \in 1 .. Len(requests)
            BY SMTT(60), <2>1, <3>3, <4>2
          <5> QED BY <2>1, <3>3, <4>1, <4>2, <5>1
        <4>3. CASE k = Len(requests) + 1 /\ requests'[k].at = admission.at
          BY SMTT(60), <1>0, <2>1, <3>1, <4>3
        <4> QED BY <3>1, <4>2, <4>3
      <3> QED BY <1>0, <1>2, <3>2, <3>3, KeepTypes DEF TimesPast
    <2> QED BY <1>0, <1>3, <2>3, <2>4, <2>5, PassesKept DEF EpochInvariant
  <1> QED BY <1>4, <1>5 DEF AdmitAppend, AdmitAppendFails

LEMMA AdmitUndoEpochs ==
    ASSUME EpochInvariant, AdmitUndo
    PROVE  EpochInvariant'
  <1>0. /\ UNCHANGED <<clock, source, requests, progress, outcomes, pass, running, spent, admittedAt>>
        /\ admission' = Idle /\ clock \in Nat /\ rollout \in Rollout
    BY KeepTypes DEF AdmitUndo, TimesPast
  <1>1. /\ RowMoves /\ RowTypes
        /\ rollout' # NoRollout /\ rollout'.created = rollout.created
    <2>1. CASE KeepRollout
      BY <1>0, <2>1, KeepRow DEF KeepRollout
    <2>2. CASE ChangeRollout(Transitioned(rollout, "failed", clock))
      <3> DEFINE new == Transitioned(rollout, "failed", clock)
      <3>1. /\ new \in Rollout /\ new # NoRollout
            /\ new.version = rollout.version /\ SameEpoch(rollout, new)
            /\ new.state # "enrolling" /\ new.state \in TerminalStates
        BY SMTT(60), <1>0, TransitionedRow
      <3> HIDE DEF new
      <3>2. rollout' = new /\ RowMoves /\ rollout'.created = rollout.created
        BY <1>0, <2>2, <3>1 DEF ChangeRollout, RowMoves, SameEpoch, new
      <3>3. RowTypes
        BY SMTT(60), <2>2, <3>1, KeepTypes DEF ChangeRollout, RowTypes, new
      <3> QED BY <3>1, <3>2, <3>3
    <2> QED BY <2>1, <2>2 DEF AdmitUndo
  <1>2. TypeOK'
    BY <1>0, <1>1, AdmissionTyped DEF EpochInvariant, TypeOK, RowTypes
  <1>3. TimesPast'
    <2>1. admission'.step = "idle"
      BY <1>0 DEF Idle
    <2> QED BY <1>0, <1>1, <2>1, KeepTypes DEF TimesPast
  <1> QED BY <1>0, <1>1, <1>2, <1>3, RequestsSame, PassesKept DEF EpochInvariant, RowTypes

LEMMA TickEpochs ==
    ASSUME EpochInvariant, Tick
    PROVE  EpochInvariant'
  <1>0. /\ UNCHANGED <<source, rollout, requests, progress, outcomes, admission, pass,
                       running, spent, admittedAt, ended>>
        /\ clock' = clock + 1 /\ clock \in Nat
    BY KeepTypes DEF Tick
  <1>1. TypeOK'
    BY SMTT(60), <1>0 DEF EpochInvariant, TypeOK
  <1>2. TimesPast'
    BY SMTT(60), <1>0, AdmissionTyped, KeepTypes DEF TimesPast
  <1>3. RowMoves /\ rollout' \in Rollout \cup {NoRollout}
    BY <1>0, KeepTypes DEF RowMoves
  <1> QED BY <1>0, <1>1, <1>2, <1>3, RequestsSame, PassesKept DEF EpochInvariant

\* The inductive step: whoever moves, the parts of EpochInvariant are kept.
THEOREM EpochStep == EpochInvariant /\ [Next]_vars => EpochInvariant'
  <1> SUFFICES ASSUME EpochInvariant, [Next]_vars PROVE EpochInvariant'
    OBVIOUS
  <1>1. CASE UNCHANGED vars
    <2>0. TypeOK'
      BY <1>1 DEF vars, EpochInvariant, TypeOK
    <2>1. TypeOK' /\ TimesPast'
      BY <1>1, <2>0 DEF vars, EpochInvariant, TimesPast
    <2>2. RowMoves /\ rollout' \in Rollout \cup {NoRollout} /\ UNCHANGED <<pass, progress, requests>>
      BY <1>1, KeepTypes DEF vars, RowMoves
    <2> QED BY <2>1, <2>2, RequestsSame, PassesKept DEF EpochInvariant
  <1>2. CASE Admit
    BY <1>2, AdmitCheckEpochs, AdmitEndEpochs, AdmitCreateEpochs, AdmitAppendEpochs,
       AdmitUndoEpochs DEF Admit
  <1>3. CASE \E s \in Sources, retry \in BOOLEAN : Activate(s, retry)
    BY <1>3, ActivateEpochs
  <1>4. CASE \E i \in Instances : PollStep(i) \/ Crash(i)
    BY <1>4, PollEpochs, CrashEpochs
  <1>5. CASE Tick
    BY <1>5, TickEpochs
  <1> QED BY <1>1, <1>2, <1>3, <1>4, <1>5 DEF Next

THEOREM EpochInvariantHolds == Spec => []EpochInvariant
  BY EpochInit, EpochStep, PTL DEF Spec

\* The shared rows, the passes and the snapshots they hold are well typed in
\* every reachable state, whatever the fleet and the bounds.
THEOREM TypeCorrect == Spec => []TypeOK
  <1>1. EpochInvariant => TypeOK
    BY DEF EpochInvariant
  <1> QED BY <1>1, EpochInvariantHolds, PTL

-----------------------------------------------------------------------------
(* The rollout row implements RolloutEpochs.                                *)

\* The ways a step changes the row.
Opens ==
    /\ \E v \in Versions, s \in Sources : rollout' = Fresh(v, "enrollment", s, 0, clock)
    /\ ~IsActive(rollout)
    /\ rollout # NoRollout => clock > rollout.created

Reopens ==
    /\ rollout # NoRollout /\ rollout.state # "complete" /\ clock > rollout.created
    /\ \E s \in Sources : rollout' = Fresh(rollout.version, "enrollment", s, 0, clock)

Turns ==
    \E state \in {"restarting", "complete", "failed"} :
        /\ rollout # NoRollout
        /\ rollout' = Transitioned(rollout, state, clock)
        /\ state = "complete" => rollout.state # "enrolling"

\* A call that completes the rollout comes from a pass that holds the same epoch
\* in its restart phase.
LEMMA MarkTurns ==
    ASSUME EpochInvariant, NEW i \in Instances,
           NEW state \in {"restarting", "complete", "failed"}, NEW next,
           pass[i].seen # NoRollout, MarkForRollout(i, state, next),
           state = "complete" => pass[i].seen.state = "restarting"
    PROVE  UNCHANGED rollout \/ Turns
  <1> DEFINE seen == pass[i].seen
             result == TransitionResult(rollout, seen)
             new == TransitionFor(rollout, seen, state, clock)
  <1>1. CASE result = "ok" /\ ChangeRollout(new)
    <2>1. rollout # NoRollout /\ SameEpoch(rollout, seen)
      BY <1>1 DEF TransitionResult
    <2>2. rollout' = Transitioned(rollout, state, clock)
      BY <1>1 DEF TransitionFor, ChangeRollout
    <2>3. state = "complete" => rollout.state # "enrolling"
      BY <2>1 DEF EpochInvariant, SeenBehind, Behind, SameEpoch
    <2> QED BY <2>1, <2>2, <2>3 DEF Turns
  <1>2. CASE KeepRollout
    BY <1>2 DEF KeepRollout
  <1> QED BY <1>1, <1>2 DEF MarkForRollout

LEMMA RowStep ==
    ASSUME EpochInvariant, [Next]_vars
    PROVE  UNCHANGED rollout \/ Opens \/ Reopens \/ Turns
  <1>1. CASE UNCHANGED vars
    BY <1>1 DEF vars
  <1>2. CASE Admit
    <2>1. CASE AdmitCreate
      <3>1. admission.version \in Versions /\ source.current \in Sources
        BY <2>1, KeepTypes, AdmissionTyped DEF AdmitCreate, TimesPast
      <3>2. CASE IsActive(rollout)
        BY <2>1, <3>2 DEF AdmitCreate
      <3>3. CASE ~IsActive(rollout)
        <4>1. Opens
          BY <2>1, <3>1, <3>3 DEF AdmitCreate, RoomForRollout, Opens
        <4> QED BY <4>1
      <3> QED BY <3>2, <3>3
    <2>2. CASE AdmitUndo
      <3>1. rollout # NoRollout
        BY <2>2, KeepTypes DEF AdmitUndo, TimesPast
      <3> QED BY <2>2, <3>1 DEF AdmitUndo, ChangeRollout, KeepRollout, Turns
    <2>3. CASE ~AdmitCreate /\ ~AdmitUndo
      BY <1>2, <2>3 DEF Admit, AdmitCheck, AdmitRefuse, AdmitAppend, AdmitAppendFails, AdmitCrash
    <2> QED BY <2>1, <2>2, <2>3
  <1>3. ASSUME NEW s \in Sources, NEW retry \in BOOLEAN, Activate(s, retry)
        PROVE  UNCHANGED rollout \/ Reopens
    <2>1. CASE Retargets(rollout, source, s, 0, retry)
      <3>1. rollout # NoRollout /\ rollout.state # "complete"
        BY <2>1 DEF Retargets, IsActive
      <3>2. rollout' = Fresh(rollout.version, "enrollment", s, 0, clock) /\ clock > rollout.created
        BY <1>3, <2>1, <3>1 DEF Activate, Retargeted, RoomForRollout
      <3> QED BY <3>1, <3>2 DEF Reopens
    <2>2. CASE ~Retargets(rollout, source, s, 0, retry)
      BY <1>3, <2>2 DEF Activate
    <2> QED BY <2>1, <2>2
  <1>4. ASSUME NEW i \in Instances, PollStep(i) \/ Crash(i)
        PROVE  UNCHANGED rollout \/ Turns
    <2>0. Shaped(pass[i], progress[i])
      BY KeepTypes
    <2>1. CASE Unaccepted(i)
      BY <2>0, <2>1, MarkTurns DEF Unaccepted, KeepRollout, Shaped, At
    <2>2. CASE Phase(i)
      BY <2>0, <2>2, MarkTurns DEF Phase, KeepRollout, Shaped, At
    <2>3. ASSUME NEW hook \in Hook, Decide(i, hook)
          PROVE  UNCHANGED rollout \/ Turns
      <3>1. pass[i].seen # NoRollout /\ pass[i].seen.state = "restarting"
        BY <2>0, <2>3 DEF Decide, Shaped, At
      <3> QED BY <2>3, <3>1, MarkTurns DEF Decide, KeepRollout
    <2>4. CASE KeepRollout
      BY <2>4 DEF KeepRollout
    <2> QED BY <1>4, <2>1, <2>2, <2>3, <2>4 DEF PollStep, Boot, ReadKnown, ReadRollout,
          AckRollout, StampAck, AckRolloutWrite, WriteAck, ListCohort, RecordOutcome,
          AckDesired, AckDesiredWrite, LeaveAlone, Restart, RestartFails, Crash
  <1>5. CASE Tick
    BY <1>5 DEF Tick
  <1> QED BY <1>1, <1>2, <1>3, <1>4, <1>5 DEF Next

Mapped ==
    IF rollout = NoRollout THEN NoRollout
    ELSE [version |-> rollout.version, mode |-> rollout.mode,
          target |-> rollout.target, created |-> rollout.created,
          state |-> rollout.state]

LEMMA MappedRow ==
    ASSUME EpochInvariant
    PROVE  /\ rollout = NoRollout <=> Mapped = NoRollout
           /\ rollout # NoRollout =>
                 /\ Mapped \in Epochs!Epoch
                 /\ Mapped.version = rollout.version /\ Mapped.state = rollout.state
                 /\ Mapped.created = rollout.created
  <1>1. CASE rollout # NoRollout
    <2>1. rollout \in Rollout
      BY <1>1, KeepTypes
    <2>2. Mapped = [version |-> rollout.version, mode |-> rollout.mode,
                    target |-> rollout.target, created |-> rollout.created,
                    state |-> rollout.state]
      BY <1>1 DEF Mapped
    <2>3. Mapped \in Epochs!Epoch
      BY <2>1, <2>2 DEF Rollout, Modes, Epochs!Epoch, Epochs!EpochStates
    <2> QED BY <1>1, <2>2, <2>3, EpochConstants
  <1>2. CASE rollout = NoRollout
    BY <1>2 DEF Mapped
  <1> QED BY <1>1, <1>2

LEMMA EpochsStep ==
    ASSUME EpochInvariant, EpochInvariant', [Next]_vars
    PROVE  [Epochs!Next]_Mapped
  <1>0. /\ rollout \in Rollout \cup {NoRollout} /\ clock \in Nat
        /\ rollout' \in Rollout \cup {NoRollout}
    <2>1. TypeOK'
      BY DEF EpochInvariant
    <2>2. rollout' \in Rollout \cup {NoRollout}
      BY <2>1 DEF TypeOK
    <2> QED BY <2>2, KeepTypes
  <1>1. CASE UNCHANGED rollout
    BY <1>1 DEF Mapped
  <1>2. ASSUME NEW v \in Versions, NEW s \in Sources,
               rollout' = Fresh(v, "enrollment", s, 0, clock),
               rollout # NoRollout => clock > rollout.created
        PROVE  Epochs!NewEpoch(v)
    <2>1. /\ rollout' # NoRollout /\ rollout'.version = v /\ rollout'.created = clock
          /\ rollout'.mode = "enrollment" /\ rollout'.state = "enrolling" /\ rollout'.target = s
      BY SMTT(60), <1>0, <1>2, FreshRow
    <2>2. Mapped' = [version |-> v, mode |-> "enrollment", target |-> s,
                     created |-> clock, state |-> "enrolling"]
      BY <2>1 DEF Mapped
    <2>3. Mapped' \in Epochs!Epoch
      BY <1>0, <2>2 DEF Epochs!Epoch, Epochs!EpochStates
    <2>4. Mapped # NoRollout => Mapped'.created > Mapped.created
      BY <1>2, <2>2, MappedRow
    <2> QED BY SMTT(60), <2>2, <2>3, <2>4 DEF Epochs!NewEpoch, Epochs!FirstState, Mapped
  <1>3. CASE Opens
    <2>1. ~Epochs!InProgress
      BY <1>3, MappedRow DEF Opens, IsActive, Epochs!InProgress, Mapped
    <2>2. Epochs!Start
      BY <1>2, <1>3, <2>1 DEF Opens, Epochs!Start
    <2> QED BY <2>2 DEF Epochs!Next
  <1>4. CASE Reopens
    <2>1. rollout # NoRollout /\ rollout.version \in Versions
      BY <1>0, <1>4 DEF Reopens, Rollout
    <2>2. Epochs!NewEpoch(rollout.version)
      BY <1>2, <1>4, <2>1 DEF Reopens
    <2>3. Epochs!Reopen
      BY <1>4, <2>1, <2>2, MappedRow DEF Reopens, Epochs!Reopen, Mapped
    <2> QED BY <2>3 DEF Epochs!Next
  <1>5. CASE Turns
    <2> PICK state \in {"restarting", "complete", "failed"} :
            /\ rollout # NoRollout
            /\ rollout' = Transitioned(rollout, state, clock)
            /\ state = "complete" => rollout.state # "enrolling"
      BY <1>5 DEF Turns
    <2>1. CASE rollout.state \notin ActiveStates
      <3>1. rollout' = rollout
        BY <2>1 DEF Transitioned
      <3> QED BY <1>1, <3>1
    <2>2. CASE rollout.state \in ActiveStates
      <3>1. /\ rollout' # NoRollout /\ rollout'.state = state
            /\ rollout'.version = rollout.version /\ SameEpoch(rollout, rollout')
        <4>1. rollout \in Rollout
          BY <1>0
        <4>2. LET new == Transitioned(rollout, state, clock) IN
              /\ new \in Rollout /\ new # NoRollout
              /\ new.version = rollout.version /\ SameEpoch(rollout, new)
              /\ rollout.state \in ActiveStates => new.state = state
          BY SMTT(60), <1>0, <4>1, TransitionedRow
        <4> QED BY <2>2, <4>2
      <3>2. Mapped' = [Mapped EXCEPT !.state = state]
        <4>1. Mapped = [version |-> rollout.version, mode |-> rollout.mode,
                        target |-> rollout.target, created |-> rollout.created,
                        state |-> rollout.state]
          BY DEF Mapped
        <4>2. Mapped' = [version |-> rollout.version, mode |-> rollout.mode,
                         target |-> rollout.target, created |-> rollout.created,
                         state |-> state]
          BY <3>1 DEF Mapped, SameEpoch
        <4> HIDE DEF Mapped
        <4> QED BY SMTT(60), <4>1, <4>2
      <3>3. Mapped # NoRollout /\ Mapped.state = rollout.state /\ Mapped \in Epochs!Epoch
        BY MappedRow
      <3>4. CASE state = "restarting" /\ rollout.state = "restarting"
        <4>1. Mapped' = Mapped
          BY <3>1, <3>4 DEF Mapped, SameEpoch
        <4> QED BY <4>1
      <3>5. CASE state = "restarting" /\ rollout.state = "enrolling"
        <4>1. Epochs!CloseEnrollment
          BY <3>2, <3>3, <3>5 DEF Epochs!CloseEnrollment, Mapped
        <4> QED BY <4>1 DEF Epochs!Next
      <3>6. CASE state = "complete"
        <4>1. Epochs!Complete
          BY <2>2, <3>2, <3>3, <3>6 DEF Epochs!Complete, Mapped
        <4> QED BY <4>1 DEF Epochs!Next
      <3>7. CASE state = "failed"
        <4>1. Epochs!Fail
          BY <2>2, <3>2, <3>3, <3>7 DEF Epochs!Fail, Epochs!InProgress, Mapped
        <4> QED BY <4>1 DEF Epochs!Next
      <3> QED BY <2>2, <3>4, <3>5, <3>6, <3>7
    <2> QED BY <2>1, <2>2
  <1> QED BY <1>1, <1>3, <1>4, <1>5, RowStep

\* Whatever pollers, admissions, activations and crashes do to each other, the
\* app has one rollout at a time, which ends once and starts over only as a
\* younger epoch: the row implements RolloutEpochs.
THEOREM ImplementsEpochsHolds == Spec => ImplementsEpochs
  <1>1. Init => Epochs!Init
    BY DEF Init, Epochs!Init
  <1>2. EpochInvariant /\ EpochInvariant' /\ [Next]_vars => [Epochs!Next]_Mapped
    BY EpochsStep
  <1> QED BY <1>1, <1>2, EpochInvariantHolds, PTL DEF Spec, ImplementsEpochs, Epochs!Spec, Mapped

-----------------------------------------------------------------------------
(* The cohort of a rollout: provided that an acknowledgement stamped inside *)
(* the enrollment window also lands inside it, the cohort is frozen once    *)
(* enrollment is over and a complete rollout has a cohort all of whose      *)
(* members restarted in time.  The argument is CohortInvariant, on top of   *)
(* EpochInvariant.                                                          *)

\* What one step may do to a row of progress: nothing; change its attempts;
\* stamp a restart on it; or start it over for an acknowledgement on its way.
SameAck(i, v) ==
    /\ progress[i][v] \in Row /\ progress'[i][v] \in Row
    /\ progress'[i][v].ack = progress[i][v].ack

Charged(i, v) ==
    SameAck(i, v) /\ progress'[i][v].restarted = progress[i][v].restarted

Restarted(i, v) == SameAck(i, v) /\ progress[i][v].restarted = Never

Acked(i, v) ==
    /\ pass[i].at \in {"ackWrite", "desiredWrite"} /\ v = pass[i].ack.version
    /\ progress'[i][v] \in Row
    /\ progress'[i][v].ack >= pass[i].ack.at
    /\ pass'[i].at \notin {"ackWrite", "desiredWrite"}
    /\ UNCHANGED <<rollout, clock>>

RowChange(i, v) ==
    \/ progress'[i][v] = progress[i][v]
    \/ Charged(i, v) \/ Restarted(i, v) \/ Acked(i, v)

LEMMA ChargeChanges ==
    ASSUME EpochInvariant, NEW i \in Instances, ChargeAttempt(i),
           NEW j \in Instances, NEW v \in Versions
    PROVE  progress'[j][v] = progress[j][v] \/ Charged(j, v)
  <1> DEFINE w == Driver(i)
  <1>1. progress \in [Instances -> [Versions -> Row \cup {NoRow}]]
    BY KeepTypes
  <1>2. CASE w \in Versions /\ progress[i][w] # NoRow
    <2>1. progress[i][w] \in Row
      BY <1>1, <1>2
    <2> DEFINE row == [progress[i][w] EXCEPT !.attempts = @ + 1]
    <2>2. row \in Row /\ row.ack = progress[i][w].ack /\ row.restarted = progress[i][w].restarted
      BY SMTT(60), <2>1 DEF Row
    <2>3. progress' = [progress EXCEPT ![i][w].attempts = @ + 1]
      BY <1>2 DEF ChargeAttempt
    <2> HIDE DEF w
    <2>4. progress' = [progress EXCEPT ![i] = [progress[i] EXCEPT ![w] = row]]
      BY <1>1, <1>2, <2>3
    <2> HIDE DEF row
    <2> QED BY <1>1, <1>2, <2>1, <2>2, <2>4 DEF Charged, SameAck
  <1>3. CASE ~(w \in Versions /\ progress[i][w] # NoRow)
    BY <1>1, <1>3 DEF ChargeAttempt
  <1> QED BY <1>2, <1>3

LEMMA MarkChanges ==
    ASSUME EpochInvariant, NEW i \in Instances, NEW state, NEW next,
           MarkForRollout(i, state, next), NEW j \in Instances, NEW v \in Versions
    PROVE  RowChange(j, v)
  <1>1. CASE UNCHANGED progress
    BY <1>1 DEF RowChange
  <1>2. CASE ChargeAttempt(i)
    BY <1>2, ChargeChanges DEF RowChange
  <1> QED BY <1>1, <1>2 DEF MarkForRollout, FailPass

LEMMA WriteChanges ==
    ASSUME EpochInvariant, NEW i \in Instances, AckRolloutWrite(i) \/ AckDesiredWrite(i),
           NEW j \in Instances, NEW v \in Versions
    PROVE  RowChange(j, v)
  <1> PICK label \in {"ack", "desired"} :
          WriteAck(i, label) /\ pass[i].at \in {"ackWrite", "desiredWrite"}
    BY DEF AckRolloutWrite, AckDesiredWrite, At
  <1> DEFINE ack == pass[i].ack
             row == [ack |-> IF ack.at < ack.since THEN ack.since ELSE ack.at,
                     restarted |-> Never, attempts |-> 0]
  <1>1. /\ ack \in Ack /\ ack.version \in Versions /\ row \in Row
        /\ progress' = [progress EXCEPT ![i] = [progress[i] EXCEPT ![ack.version] = row]]
    BY WriteAckRow
  <1>2. row.ack >= ack.at
    BY SMTT(60), <1>1 DEF Ack
  <1>3. pass'[i].at = label /\ UNCHANGED <<rollout, clock>>
    BY SMTT(60), KeepTypes DEF WriteAck, KeepRollout, Elsewhere, Pass
  <1>4. progress \in [Instances -> [Versions -> Row \cup {NoRow}]]
    BY KeepTypes
  <1>5. CASE j = i /\ v = ack.version
    <2>1. progress'[j][v] = row
      BY <1>1, <1>4, <1>5
    <2> HIDE DEF row
    <2> QED BY <1>1, <1>2, <1>3, <1>5, <2>1 DEF RowChange, Acked
  <1>6. CASE ~(j = i /\ v = ack.version)
    <2> HIDE DEF row, ack
    <2> QED BY <1>1, <1>4, <1>6 DEF RowChange
  <1> QED BY <1>5, <1>6

LEMMA RestartChanges ==
    ASSUME EpochInvariant, NEW i \in Instances, Restart(i),
           NEW j \in Instances, NEW v \in Versions
    PROVE  RowChange(j, v)
  <1> DEFINE w == Driver(i)
             row == [progress[i][w] EXCEPT !.restarted = clock]
  <1>1. /\ w \in Versions /\ progress[i][w] \in Row /\ row \in Row
        /\ progress' = [progress EXCEPT ![i] = [progress[i] EXCEPT ![w] = row]]
    BY RestartRow
  <1>2. row.ack = progress[i][w].ack
    BY <1>1 DEF Row
  <1>3. progress[i][w].restarted = Never
    BY DEF Restart, Pending
  <1>4. progress \in [Instances -> [Versions -> Row \cup {NoRow}]]
    BY KeepTypes
  <1> HIDE DEF row, w
  <1>5. CASE j = i /\ v = w
    BY <1>1, <1>2, <1>3, <1>4, <1>5 DEF RowChange, Restarted, SameAck
  <1>6. CASE ~(j = i /\ v = w)
    BY <1>1, <1>4, <1>6 DEF RowChange
  <1> QED BY <1>5, <1>6

LEMMA RowChanges ==
    ASSUME EpochInvariant, [Next]_vars, NEW j \in Instances, NEW v \in Versions
    PROVE  RowChange(j, v)
  <1>1. CASE UNCHANGED progress
    BY <1>1 DEF RowChange
  <1>2. ASSUME NEW i \in Instances, PollStep(i) \/ Crash(i)
        PROVE  RowChange(j, v)
    <2>1. CASE Unaccepted(i) \/ Phase(i) \/ \E hook \in Hook : Decide(i, hook)
      BY <1>1, <2>1, MarkChanges, ChargeChanges DEF Unaccepted, Phase, Decide, FailPass, RowChange
    <2>2. CASE \E left \in Versions \cup {NoVersion} : RestartFails(i, left)
      BY <2>2, ChargeChanges DEF RestartFails, FailPass, RowChange
    <2>3. CASE AckRolloutWrite(i) \/ AckDesiredWrite(i)
      BY <2>3, WriteChanges
    <2>4. CASE Restart(i)
      BY <2>4, RestartChanges
    <2> QED BY <1>1, <1>2, <2>1, <2>2, <2>3, <2>4 DEF PollStep, Boot, ReadKnown, ReadRollout,
          AckRollout, StampAck, ListCohort, RecordOutcome, AckDesired, LeaveAlone, Crash
  <1>3. CASE Admit \/ Tick \/ UNCHANGED vars \/
             \E s \in Sources, retry \in BOOLEAN : Activate(s, retry)
    BY <1>1, <1>3 DEF Admit, AdmitCheck, AdmitCreate, AdmitRefuse, AdmitAppend,
       AdmitAppendFails, AdmitUndo, AdmitCrash, Tick, Activate, vars
  <1> QED BY <1>2, <1>3 DEF Next

\* Requests are only added and time does not go back.
LEMMA Forward ==
    ASSUME EpochInvariant, [Next]_vars
    PROVE  RequestsGrow /\ clock \in Nat /\ clock' \in Nat /\ clock <= clock'
  <1>1. clock \in Nat /\ TypeOK /\ requests \in Seq([to : Versions, at : Nat])
        /\ (UNCHANGED requests => RequestsGrow)
    BY KeepTypes, RequestsSame DEF EpochInvariant, TypeOK
  <1>2. clock' \in {clock, clock + 1}
    BY DEF Next, vars, Admit, AdmitCheck, AdmitCreate, AdmitRefuse, AdmitAppend,
       AdmitAppendFails, AdmitUndo, AdmitCrash, Activate, Tick, PollStep, Elsewhere,
       Boot, ReadKnown, ReadRollout, Unaccepted, AckRollout, StampAck, AckRolloutWrite,
       WriteAck, Phase, ListCohort, Decide, RecordOutcome, AckDesired, AckDesiredWrite,
       LeaveAlone, Restart, RestartFails, Crash
  <1>3. CASE AdmitAppend \/ \E w \in BOOLEAN : AdmitAppendFails(w)
    <2> DEFINE e == [to |-> admission.version, at |-> admission.at]
    <2>1. e \in [to : Versions, at : Nat]
      BY <1>3, AdmissionTyped, KeepTypes DEF AdmitAppend, AdmitAppendFails, TimesPast
    <2>2. requests' = Append(requests, e) \/ UNCHANGED requests
      BY <1>3 DEF AdmitAppend, AdmitAppendFails, AppendRequest
    <2> HIDE DEF e
    <2>3. requests' = Append(requests, e) => RequestsGrow
      BY SMTT(60), <1>1, <2>1, SeqFacts DEF RequestsGrow
    <2> QED BY SMTT(60), <1>1, <1>2, <2>2, <2>3
  <1>4. CASE UNCHANGED requests
    BY SMTT(60), <1>1, <1>2, <1>4
  <1> QED BY <1>3, <1>4 DEF Next, vars, Admit, AdmitCheck, AdmitCreate, AdmitRefuse,
       AdmitUndo, AdmitCrash, Activate, Tick, PollStep, Elsewhere,
       Boot, ReadKnown, ReadRollout, Unaccepted, AckRollout, StampAck, AckRolloutWrite,
       WriteAck, Phase, ListCohort, Decide, RecordOutcome, AckDesired, AckDesiredWrite,
       LeaveAlone, Restart, RestartFails, Crash

\* What is accepted stays accepted.
LEMMA AcceptedKept ==
    ASSUME EpochInvariant, [Next]_vars
    PROVE  KnownVersions(Len(requests)) \subseteq KnownVersions(Len(requests))'
  <1>1. RequestsGrow /\ Len(requests) \in Nat /\ Len(requests') \in Nat
    BY Forward, KeepTypes, KnownKept
  <1> QED BY SMTT(60), <1>1 DEF RequestsGrow, KnownVersions

\* After the window nobody joins or leaves the cohort, and a restart counted once
\* stays on record: an acknowledgement still on its way restarts a row that was
\* too old to count, and makes it too young.
LEMMA CohortKept ==
    ASSUME EpochInvariant, EpochInvariant', AckDue, WindowClosed, [Next]_vars,
           rollout # NoRollout, EnrollmentEndsAt(rollout) <= clock,
           rollout' # NoRollout, rollout'.version = rollout.version,
           SameEpoch(rollout, rollout')
    PROVE  /\ Cohort(rollout)' = Cohort(rollout)
           /\ \A i \in Cohort(rollout) :
                  progress[i][rollout.version].restarted # Never =>
                      progress'[i][rollout.version].restarted
                          = progress[i][rollout.version].restarted
  <1> DEFINE v == rollout.version
             c == rollout.created
  <1>0. /\ v \in Versions /\ c \in Nat /\ rollout'.created = c
        /\ rollout'.target = rollout.target
        /\ progress \in [Instances -> [Versions -> Row \cup {NoRow}]]
        /\ progress' \in [Instances -> [Versions -> Row \cup {NoRow}]]
    <2>1. rollout \in Rollout
      BY KeepTypes
    <2> QED BY <2>1, KeepTypes DEF Rollout, SameEpoch, EpochInvariant, TypeOK
  <1>1. ASSUME NEW i \in Instances
        PROVE  /\ i \in Cohort(rollout)' <=> i \in Cohort(rollout)
               /\ i \in Cohort(rollout) /\ progress[i][v].restarted # Never =>
                      progress'[i][v].restarted = progress[i][v].restarted
    <2>1. CASE progress'[i][v] = progress[i][v]
      BY <1>0, <2>1 DEF Cohort, EnrollmentEndsAt
    <2>2. CASE Charged(i, v) \/ Restarted(i, v)
      <3>1. /\ progress[i][v] # NoRow /\ progress'[i][v] # NoRow
            /\ progress'[i][v].ack = progress[i][v].ack
        BY <2>2 DEF Charged, Restarted, SameAck
      <3>2. progress[i][v].restarted # Never => progress'[i][v].restarted = progress[i][v].restarted
        BY <2>2 DEF Charged, Restarted
      <3> QED BY <1>0, <3>1, <3>2 DEF Cohort, EnrollmentEndsAt
    <2>3. CASE Acked(i, v)
      <3> DEFINE ack == pass[i].ack
      <3>1. /\ ack.since <= c /\ (progress[i][v] # NoRow => progress[i][v].ack < ack.since)
            /\ ack.version = v /\ pass[i].at \in {"ackWrite", "desiredWrite"}
            /\ progress'[i][v] \in Row /\ progress'[i][v].ack >= ack.at
        BY <2>3 DEF Acked, AckDue
      <3>2. ack.since \in Nat /\ ack.at \in Nat
        <4>1. pass[i] \in Pass
          BY KeepTypes
        <4> QED BY <4>1 DEF Pass, Ack
      <3>3. ack.at >= c + EnrollmentWindow
        <4>1. ~AckInFlight(i)
          BY DEF WindowClosed
        <4> QED BY SMTT(60), <1>0, <3>1, <3>2, <4>1 DEF AckInFlight, EnrollmentEndsAt
      <3>4. i \notin Cohort(rollout)
        <4>1. progress[i][v] # NoRow => progress[i][v] \in Row
          BY SMTT(60), <1>0
        <4> QED BY SMTT(60), <1>0, <3>1, <3>2, <4>1 DEF Cohort, Row
      <3>5. ~(progress'[i][v].ack < c + EnrollmentWindow)
        BY SMTT(60), <1>0, <3>1, <3>2, <3>3 DEF Row
      <3>6. i \notin Cohort(rollout)'
        BY <1>0, <3>5 DEF Cohort, EnrollmentEndsAt
      <3> QED BY <3>4, <3>6
    <2> QED BY <1>0, <2>1, <2>2, <2>3, RowChanges DEF RowChange
  <1>2. Cohort(rollout) \subseteq Instances /\ Cohort(rollout)' \subseteq Instances
    BY DEF Cohort
  <1> QED BY <1>1, <1>2

\* A pass gets to an acknowledgement on its way, or to a counted cohort, only by
\* the steps that take the stamp or the count.
PassChange(j) ==
    \/ pass'[j] = pass[j]
    \/ pass'[j].at \notin {"ackWrite", "desiredWrite", "decide"}
    \/ AckRollout(j) \/ AckDesired(j) \/ ListCohort(j)

LEMMA LabelChanges ==
    ASSUME EpochInvariant, NEW i \in Instances, NEW j \in Instances,
           NEW q \in Pass, pass' = [pass EXCEPT ![i] = q],
           q.at \notin {"ackWrite", "desiredWrite", "decide"}
    PROVE  PassChange(j)
  BY KeepTypes DEF PassChange

LEMMA EndChanges ==
    ASSUME EpochInvariant, NEW i \in Instances, NEW j \in Instances, EndPass(i)
    PROVE  PassChange(j)
  <1>1. PassAt("idle") \in Pass /\ PassAt("idle").at = "idle"
    BY DEF PassAt, Pass, NoAck, Ack
  <1> QED BY <1>1, LabelChanges DEF EndPass

LEMMA GotoChanges ==
    ASSUME EpochInvariant, NEW i \in Instances, NEW j \in Instances,
           NEW label \in {"idle", "rollout", "unaccepted", "ack", "cohort", "record", "desired"},
           pass' = [pass EXCEPT ![i].at = label]
    PROVE  PassChange(j)
  <1> DEFINE q == [pass[i] EXCEPT !.at = label]
  <1>1. pass[i] \in Pass /\ pass \in [Instances -> Pass]
    BY KeepTypes
  <1>2. q \in Pass /\ q.at = label
    BY <1>1 DEF Pass
  <1>3. pass' = [pass EXCEPT ![i] = q]
    BY <1>1
  <1> HIDE DEF q
  <1> QED BY <1>2, <1>3, LabelChanges

LEMMA MarkPass ==
    ASSUME EpochInvariant, NEW i \in Instances, NEW j \in Instances,
           NEW state, NEW next \in {"idle", "desired"}, MarkForRollout(i, state, next)
    PROVE  PassChange(j)
  <1> DEFINE new == TransitionFor(rollout, pass[i].seen, state, clock)
             label == IF state = "restarting" THEN ThenEvaluate(new) ELSE "record"
  <1>1. CASE pass' = [pass EXCEPT ![i].seen = new, ![i].at = label]
    <2>1. label \in {"cohort", "desired", "record"}
      BY DEF ThenEvaluate
    <2> HIDE DEF new, label
    <2>2. pass \in [Instances -> Pass] /\ pass[i] \in Pass
      BY KeepTypes
    <2>3. \A k \in Instances \ {i} : pass'[k] = pass[k]
      BY <1>1, <2>2
    <2>4. pass'[i].at = label
      BY <1>1, <2>2 DEF Pass
    <2> QED BY <2>1, <2>3, <2>4 DEF PassChange
  <1>2. CASE EndPass(i)
    BY <1>2, EndChanges
  <1>3. CASE Goto(i, next)
    BY <1>3, EndChanges, GotoChanges DEF Goto
  <1> QED BY <1>1, <1>2, <1>3 DEF MarkForRollout, FailPass

LEMMA PassChanges ==
    ASSUME EpochInvariant, [Next]_vars, NEW j \in Instances
    PROVE  PassChange(j)
  <1>1. CASE UNCHANGED pass
    BY <1>1 DEF PassChange
  <1>2. ASSUME NEW i \in Instances, PollStep(i) \/ Crash(i)
        PROVE  PassChange(j)
    <2>0. pass \in [Instances -> Pass] /\ pass[i] \in Pass
      BY KeepTypes
    <2>1. CASE EndPass(i)
      BY <2>1, EndChanges
    <2>2. CASE Unaccepted(i)
      BY <2>1, <2>2, MarkPass DEF Unaccepted
    <2>3. CASE Phase(i)
      <3>1. CASE pass' = [pass EXCEPT ![i].at = ThenEvaluate(pass[i].seen),
                                      ![i].blocked = RestartBlocked(pass[i].seen)]
        <4>1. ThenEvaluate(pass[i].seen) \in {"cohort", "desired"}
          BY DEF ThenEvaluate
        <4>2. \A k \in Instances \ {i} : pass'[k] = pass[k]
          BY <2>0, <3>1
        <4>3. pass'[i].at = ThenEvaluate(pass[i].seen)
          BY <2>0, <3>1 DEF Pass
        <4> QED BY <4>1, <4>2, <4>3 DEF PassChange
      <3>2. CASE MarkForRollout(i, "restarting", "idle")
        BY <3>2, MarkPass
      <3> QED BY <2>3, <3>1, <3>2 DEF Phase
    <2>4. ASSUME NEW hook \in Hook, Decide(i, hook)
          PROVE  PassChange(j)
      <3>1. AfterOutcome(i) \in {"idle", "desired"}
        BY DEF AfterOutcome
      <3> QED BY <2>1, <2>4, <3>1, MarkPass, GotoChanges DEF Decide, FailPass, Goto
    <2>5. CASE RecordOutcome(i)
      <3> DEFINE next == IF pass[i].seen.version \in KnownVersions(pass[i].known)
                         THEN AfterOutcome(i) ELSE "idle"
      <3>1. next \in {"idle", "desired"} /\ Goto(i, next)
        BY <2>5 DEF RecordOutcome, AfterOutcome
      <3> HIDE DEF next
      <3> QED BY <2>1, <3>1, GotoChanges DEF Goto
    <2>6. CASE AckRolloutWrite(i) \/ AckDesiredWrite(i)
      <3> PICK label \in {"ack", "desired"} : WriteAck(i, label)
        BY <2>6 DEF AckRolloutWrite, AckDesiredWrite
      <3>1. \A k \in Instances \ {i} : pass'[k] = pass[k]
        BY <2>0 DEF WriteAck
      <3>2. pass'[i].at = label
        BY <2>0 DEF WriteAck, Pass
      <3> QED BY <3>1, <3>2 DEF PassChange
    <2>7. CASE ReadKnown(i) \/ ReadRollout(i)
      <3>1. \A k \in Instances \ {i} : pass'[k] = pass[k]
        BY <2>0, <2>7 DEF ReadKnown, ReadRollout
      <3>2. pass'[i].at \in {"rollout", "ack", "unaccepted", "desired"}
        BY SMTT(60), <2>0, <2>7 DEF ReadKnown, ReadRollout, Pass
      <3> QED BY <3>1, <3>2 DEF PassChange
    <2>8. CASE AckRollout(i) \/ AckDesired(i) \/ ListCohort(i)
      <3>1. \A k \in Instances \ {i} : pass'[k] = pass[k]
        BY <2>0, <2>8 DEF AckRollout, AckDesired, StampAck, ListCohort
      <3> QED BY <2>8, <3>1 DEF PassChange
    <2>9. CASE Restart(i) /\ ~EndPass(i)
      <3>1. pass' = [pass EXCEPT ![i].at = "cohort", ![i].final = TRUE]
        BY <2>9 DEF Restart
      <3>2. \A k \in Instances \ {i} : pass'[k] = pass[k]
        BY <2>0, <3>1
      <3>3. pass'[i].at = "cohort"
        BY <2>0, <3>1 DEF Pass
      <3> QED BY <3>2, <3>3 DEF PassChange
    <2>10. CASE Crash(i)
      <3>1. PassAt("dead") \in Pass /\ PassAt("dead").at = "dead"
        BY DEF PassAt, Pass, NoAck, Ack
      <3> QED BY <2>10, <3>1, LabelChanges DEF Crash
    <2> QED BY <1>2, <2>1, <2>2, <2>3, <2>4, <2>5, <2>6, <2>7, <2>8, <2>9, <2>10
          DEF PollStep, Boot, LeaveAlone, RestartFails, FailPass
  <1>3. CASE Admit \/ Tick \/ UNCHANGED vars \/
             \E s \in Sources, retry \in BOOLEAN : Activate(s, retry)
    BY <1>1, <1>3 DEF Admit, AdmitCheck, AdmitCreate, AdmitRefuse, AdmitAppend,
       AdmitAppendFails, AdmitUndo, AdmitCrash, Tick, Activate, vars
  <1> QED BY <1>2, <1>3 DEF Next

\* The row goes on within its epoch, and reaches the restart phase after the
\* window and completion after a count; or a younger epoch enrolls.
GoesOn ==
    /\ rollout # NoRollout /\ rollout' # NoRollout
    /\ rollout'.version = rollout.version /\ SameEpoch(rollout, rollout')
    /\ rollout'.state \in {"restarting", "complete"} => EnrollmentEndsAt(rollout) <= clock
    /\ rollout'.state = "complete" => Converged(rollout)

Enrolls ==
    /\ rollout' # NoRollout /\ rollout'.state = "enrolling" /\ rollout'.created = clock
    /\ clock' = clock
    /\ rollout # NoRollout => rollout.created < clock

LEMMA MarkRow ==
    ASSUME EpochInvariant, NEW i \in Instances,
           NEW state \in {"restarting", "complete", "failed"}, NEW next,
           MarkForRollout(i, state, next)
    PROVE  \/ UNCHANGED rollout
           \/ /\ rollout # NoRollout /\ rollout' # NoRollout
              /\ pass[i].seen.created = rollout.created
              /\ rollout'.version = rollout.version /\ SameEpoch(rollout, rollout')
              /\ rollout.state \in ActiveStates /\ rollout'.state = state
  <1> DEFINE seen == pass[i].seen
             new == TransitionFor(rollout, seen, state, clock)
  <1>1. CASE TransitionResult(rollout, seen) = "ok" /\ ChangeRollout(new)
    <2>1. rollout \in Rollout /\ rollout # NoRollout /\ clock \in Nat
          /\ seen.created = rollout.created
      BY <1>1, KeepTypes DEF TransitionResult, SameEpoch
    <2>2. rollout' = Transitioned(rollout, state, clock)
      BY <1>1 DEF TransitionFor, ChangeRollout
    <2>3. LET r == Transitioned(rollout, state, clock) IN
          /\ r \in Rollout /\ r # NoRollout
          /\ r.version = rollout.version /\ SameEpoch(rollout, r)
          /\ rollout.state \in ActiveStates => r.state = state
          /\ rollout.state \notin ActiveStates => r = rollout
      BY SMTT(60), <2>1, TransitionedRow
    <2> QED BY <2>1, <2>2, <2>3
  <1>2. CASE KeepRollout
    BY <1>2 DEF KeepRollout
  <1> QED BY <1>1, <1>2 DEF MarkForRollout

LEMMA RowGoesOn ==
    ASSUME EpochInvariant, EpochInvariant', CohortInvariant, [Next]_vars
    PROVE  \/ rollout = NoRollout /\ rollout' = NoRollout
           \/ GoesOn \/ Enrolls
  <1>0. /\ rollout \in Rollout \cup {NoRollout} /\ clock \in Nat
        /\ AckDue /\ RowsAccepted /\ WindowClosed /\ CountHolds
    BY KeepTypes DEF CohortInvariant
  <1>1. CASE UNCHANGED rollout
    <2>1. CASE rollout # NoRollout
      BY <1>0, <1>1, <2>1 DEF GoesOn, SameEpoch, WindowClosed, CountHolds
    <2> QED BY <1>1, <2>1
  <1>2. ASSUME NEW v \in Versions, NEW s \in Sources,
               rollout' = Fresh(v, "enrollment", s, 0, clock),
               rollout # NoRollout => clock > rollout.created, clock' = clock
        PROVE  Enrolls
    <2>1. rollout' # NoRollout /\ rollout'.created = clock /\ rollout'.state = "enrolling"
      BY SMTT(60), <1>0, <1>2, FreshRow
    <2> QED BY <1>2, <2>1 DEF Enrolls
  <1>3. ASSUME NEW i \in Instances, Phase(i)
        PROVE  UNCHANGED rollout \/ GoesOn
    <2> DEFINE seen == pass[i].seen
    <2>1. pass[i] \in Pass /\ Shaped(pass[i], progress[i])
      BY KeepTypes
    <2>2. seen # NoRollout /\ seen.created \in Nat
      BY <1>3, <2>1 DEF Phase, Shaped, At, Pass, Rollout
    <2>3. CASE MarkForRollout(i, "restarting", "idle") /\ ~EnrollmentOpen(seen)
      <3>1. seen.created + EnrollmentWindow <= clock
        BY SMTT(60), <1>0, <2>2, <2>3 DEF EnrollmentOpen, EnrollmentEndsAt
      <3> QED BY <2>3, <3>1, MarkRow DEF GoesOn, EnrollmentEndsAt
    <2> QED BY <1>3, <2>3 DEF Phase, KeepRollout
  <1>4. ASSUME NEW i \in Instances, NEW hook \in Hook, Decide(i, hook)
        PROVE  UNCHANGED rollout \/ GoesOn
    <2> DEFINE seen == pass[i].seen
    <2>1. pass[i] \in Pass /\ Shaped(pass[i], progress[i])
      BY KeepTypes
    <2>2. seen # NoRollout /\ seen.state = "restarting" /\ pass[i].at = "decide"
      BY <1>4, <2>1 DEF Decide, Shaped, At
    <2>3. CASE MarkForRollout(i, "complete", AfterOutcome(i)) /\ pass[i].converged
      <3>1. CASE UNCHANGED rollout
        BY <3>1
      <3>2. CASE /\ rollout # NoRollout /\ rollout' # NoRollout
                 /\ seen.created = rollout.created
                 /\ rollout'.version = rollout.version /\ SameEpoch(rollout, rollout')
                 /\ rollout.state \in ActiveStates /\ rollout'.state = "complete"
        <4>1. Converged(rollout)
          BY <1>0, <2>2, <2>3, <3>2 DEF CountHolds
        <4>2. rollout.state = "restarting"
          BY <2>2, <3>2 DEF EpochInvariant, SeenBehind, Behind
        <4>3. EnrollmentEndsAt(rollout) <= clock
          BY <1>0, <3>2, <4>2 DEF WindowClosed
        <4> QED BY <3>2, <4>1, <4>3 DEF GoesOn
      <3> QED BY <2>3, <3>1, <3>2, MarkRow
    <2>4. CASE MarkForRollout(i, "failed", AfterOutcome(i))
      BY <2>4, MarkRow DEF GoesOn
    <2> QED BY <1>4, <2>3, <2>4 DEF Decide, KeepRollout
  <1>5. ASSUME NEW i \in Instances, Unaccepted(i)
        PROVE  UNCHANGED rollout \/ GoesOn
    BY <1>5, MarkRow DEF Unaccepted, KeepRollout, GoesOn
  <1>6. ASSUME NEW i \in Instances, PollStep(i) \/ Crash(i)
        PROVE  UNCHANGED rollout \/ GoesOn
    <2>1. CASE KeepRollout
      BY <2>1 DEF KeepRollout
    <2> QED BY <1>3, <1>4, <1>5, <1>6, <2>1 DEF PollStep, Boot, ReadKnown, ReadRollout,
          AckRollout, StampAck, AckRolloutWrite, WriteAck, ListCohort, RecordOutcome,
          AckDesired, AckDesiredWrite, LeaveAlone, Restart, RestartFails, Crash
  <1>7. CASE AdmitUndo
    <2>1. rollout \in Rollout /\ rollout # NoRollout
      BY <1>7, KeepTypes DEF AdmitUndo, TimesPast
    <2>2. CASE rollout' = Transitioned(rollout, "failed", clock)
      <3>1. LET r == Transitioned(rollout, "failed", clock) IN
            /\ r \in Rollout /\ r # NoRollout
            /\ r.version = rollout.version /\ SameEpoch(rollout, r)
            /\ rollout.state \in ActiveStates => r.state = "failed"
            /\ rollout.state \notin ActiveStates => r = rollout
        BY SMTT(60), <1>0, <2>1, TransitionedRow
      <3>2. CASE rollout.state \in ActiveStates
        BY <2>1, <2>2, <3>1, <3>2 DEF GoesOn
      <3>3. CASE rollout.state \notin ActiveStates
        BY <1>1, <2>2, <3>1, <3>3
      <3> QED BY <3>2, <3>3
    <2> QED BY <1>1, <1>7, <2>2 DEF AdmitUndo, ChangeRollout, KeepRollout
  <1>8. CASE AdmitCreate
    <2>1. admission.version \in Versions /\ source.current \in Sources
      BY <1>8, KeepTypes, AdmissionTyped DEF AdmitCreate, TimesPast
    <2>2. CASE IsActive(rollout)
      BY <1>1, <1>8, <2>2 DEF AdmitCreate
    <2>3. CASE ~IsActive(rollout)
      BY <1>2, <1>8, <2>1, <2>3 DEF AdmitCreate, RoomForRollout
    <2> QED BY <2>2, <2>3
  <1>9. ASSUME NEW s \in Sources, NEW retry \in BOOLEAN, Activate(s, retry)
        PROVE  UNCHANGED rollout \/ Enrolls
    <2>1. CASE Retargets(rollout, source, s, 0, retry)
      <3>1. rollout # NoRollout /\ rollout.version \in Versions
        BY <1>0, <2>1 DEF Retargets, Rollout
      <3> QED BY <1>2, <1>9, <2>1, <3>1 DEF Activate, Retargeted, RoomForRollout
    <2>2. CASE ~Retargets(rollout, source, s, 0, retry)
      BY <1>9, <2>2 DEF Activate
    <2> QED BY <2>1, <2>2
  <1>10. CASE Tick \/ UNCHANGED vars \/ (Admit /\ ~AdmitUndo /\ ~AdmitCreate)
    <2>1. UNCHANGED rollout
      BY <1>10 DEF Tick, vars, Admit, AdmitCheck, AdmitRefuse, AdmitAppend,
         AdmitAppendFails, AdmitCrash
    <2> QED BY <1>1, <2>1
  <1> QED BY <1>1, <1>6, <1>7, <1>8, <1>9, <1>10 DEF Next, Admit

\* A pass takes the row into hand only as it is after the step.
LEMMA SeenChanges ==
    ASSUME EpochInvariant, [Next]_vars, NEW j \in Instances
    PROVE  pass'[j].seen \in {NoRollout, pass[j].seen, rollout'}
  <1>0. pass \in [Instances -> Pass]
    BY KeepTypes
  <1>1. CASE UNCHANGED pass
    BY <1>1
  <1>2. ASSUME NEW i \in Instances, PollStep(i) \/ Crash(i)
        PROVE  pass'[j].seen \in {NoRollout, pass[j].seen, rollout'}
    <2>0. pass[i] \in Pass
      BY <1>0
    <2>1. CASE EndPass(i) \/ Crash(i)
      BY SMTT(60), <1>0, <2>1 DEF EndPass, Crash, PassAt
    <2>2. ASSUME NEW state, NEW next, MarkForRollout(i, state, next)
          PROVE  pass'[j].seen \in {NoRollout, pass[j].seen, rollout'}
      <3> DEFINE new == TransitionFor(rollout, pass[i].seen, state, clock)
                 label == IF state = "restarting" THEN ThenEvaluate(new) ELSE "record"
      <3>1. CASE rollout' = new /\ pass' = [pass EXCEPT ![i].seen = new, ![i].at = label]
        <4> HIDE DEF new, label
        <4>1. \A k \in Instances \ {i} : pass'[k] = pass[k]
          BY <1>0, <3>1
        <4>2. pass'[i].seen = new
          BY <1>0, <2>0, <3>1 DEF Pass
        <4> QED BY <3>1, <4>1, <4>2
      <3>2. CASE Goto(i, next) /\ ~EndPass(i)
        <4>1. pass' = [pass EXCEPT ![i].at = next]
          BY <3>2 DEF Goto
        <4> QED BY <1>0, <2>0, <4>1 DEF Pass
      <3> QED BY <2>1, <2>2, <3>1, <3>2 DEF MarkForRollout, ChangeRollout, FailPass, Goto
    <2>3. CASE ReadKnown(i) \/ ReadRollout(i)
      <3>1. UNCHANGED rollout
        BY <2>3 DEF ReadKnown, ReadRollout, KeepRollout
      <3>2. \A k \in Instances \ {i} : pass'[k] = pass[k]
        BY <1>0, <2>3 DEF ReadKnown, ReadRollout
      <3>3. CASE ReadKnown(i)
        BY <1>0, <2>0, <3>2, <3>3 DEF ReadKnown, Pass
      <3>4. CASE ReadRollout(i) /\ IsActive(rollout)
        <4>1. pass'[i].seen = rollout
          BY <1>0, <2>0, <3>4 DEF ReadRollout, Pass
        <4> QED BY <3>1, <3>2, <4>1
      <3>5. CASE ReadRollout(i) /\ ~IsActive(rollout)
        BY <1>0, <2>0, <3>2, <3>5 DEF ReadRollout, Pass
      <3> QED BY <2>3, <3>3, <3>4, <3>5
    <2>4. CASE \E label \in {"ack", "ackWrite", "desired", "desiredWrite", "cohort", "decide"} :
                  \/ pass' = [pass EXCEPT ![i].at = label]
                  \/ \E x : pass' = [pass EXCEPT ![i].at = label, ![i].ack = x]
                  \/ \E x : pass' = [pass EXCEPT ![i].at = label, ![i].converged = x]
                  \/ \E x : pass' = [pass EXCEPT ![i].at = label, ![i].final = x]
                  \/ \E x : pass' = [pass EXCEPT ![i].at = label, ![i].blocked = x]
      BY SMTT(60), <1>0, <2>0, <2>4 DEF Pass
    <2>5. CASE AckRollout(i) \/ AckDesired(i) \/ AckRolloutWrite(i) \/ AckDesiredWrite(i)
      BY <2>4, <2>5 DEF AckRollout, AckDesired, StampAck, AckRolloutWrite, AckDesiredWrite, WriteAck
    <2>6. CASE Unaccepted(i)
      BY <2>1, <2>2, <2>6 DEF Unaccepted
    <2>7. CASE Phase(i)
      <3>1. ThenEvaluate(pass[i].seen) \in {"cohort", "desired"}
        BY DEF ThenEvaluate
      <3> QED BY <2>2, <2>4, <2>7, <3>1 DEF Phase
    <2>8. CASE ListCohort(i) \/ Restart(i)
      BY <2>1, <2>4, <2>8 DEF ListCohort, Restart
    <2>9. ASSUME NEW hook \in Hook, Decide(i, hook)
          PROVE  pass'[j].seen \in {NoRollout, pass[j].seen, rollout'}
      BY <2>1, <2>2, <2>4, <2>9 DEF Decide, FailPass, Goto, AfterOutcome
    <2>10. CASE RecordOutcome(i)
      BY <2>1, <2>4, <2>10 DEF RecordOutcome, Goto, AfterOutcome
    <2> QED BY <1>2, <2>1, <2>3, <2>5, <2>6, <2>7, <2>8, <2>9, <2>10
          DEF PollStep, Boot, LeaveAlone, RestartFails, FailPass
  <1>3. CASE Admit \/ Tick \/ UNCHANGED vars \/
             \E s \in Sources, retry \in BOOLEAN : Activate(s, retry)
    BY <1>1, <1>3 DEF Admit, AdmitCheck, AdmitCreate, AdmitRefuse, AdmitAppend,
       AdmitAppendFails, AdmitUndo, AdmitCrash, Tick, Activate, vars
  <1> QED BY <1>2, <1>3 DEF Next

-----------------------------------------------------------------------------
(* CohortInvariant is inductive.                                            *)

\* The arguments of an acknowledgement when its stamp is taken: the version is
\* accepted, the row it starts over is older than `since`.
LEMMA StampFacts ==
    ASSUME EpochInvariant, NEW i \in Instances, AckRollout(i) \/ AckDesired(i)
    PROVE  LET ack == pass'[i].ack IN
           /\ UNCHANGED <<clock, rollout, requests, progress>> /\ ack.at = clock
           /\ ack.version \in KnownVersions(Len(requests))
           /\ rollout # NoRollout /\ ack.since <= rollout.created
           /\ progress[i][ack.version] # NoRow => progress[i][ack.version].ack < ack.since
  <1>0. /\ pass \in [Instances -> Pass] /\ pass[i] \in Pass /\ Shaped(pass[i], progress[i])
        /\ TypeOK /\ TimesPast /\ Len(requests) \in Nat
        /\ progress \in [Instances -> [Versions -> Row \cup {NoRow}]]
    BY KeepTypes
  <1>1. KnownVersions(pass[i].known) \subseteq KnownVersions(Len(requests))
    <2>1. pass[i].known \in Nat /\ pass[i].known <= Len(requests)
      BY <1>0 DEF Shaped, Pass
    <2> QED BY SMTT(60), <1>0, <2>1 DEF KnownVersions
  <1>2. ASSUME NEW v \in Versions, NEW since \in Nat, NEW label,
               StampAck(i, v, since, label), ~Acknowledged(i, v, since),
               v \in KnownVersions(pass[i].known),
               rollout # NoRollout, since <= rollout.created
        PROVE  LET ack == pass'[i].ack IN
               /\ UNCHANGED <<clock, rollout, requests, progress>> /\ ack.at = clock
               /\ ack.version \in KnownVersions(Len(requests))
               /\ rollout # NoRollout /\ ack.since <= rollout.created
               /\ progress[i][ack.version] # NoRow => progress[i][ack.version].ack < ack.since
    <2>1. pass'[i].ack = [version |-> v, since |-> since, at |-> clock]
      BY <1>0, <1>2 DEF StampAck, Pass
    <2>2. UNCHANGED <<clock, rollout, requests, progress>>
      BY <1>2 DEF StampAck, Elsewhere, KeepRollout
    <2>3. progress[i][v] # NoRow => progress[i][v].ack < since
      <3>1. progress[i][v] # NoRow => progress[i][v].ack \in Nat
        BY SMTT(60), <1>0 DEF Row
      <3> QED BY SMTT(60), <1>2, <3>1 DEF Acknowledged
    <2> QED BY SMTT(60), <1>1, <1>2, <2>1, <2>2, <2>3
  <1>3. CASE AckRollout(i)
    <2>1. pass[i].seen \in Rollout /\ pass[i].seen # NoRollout
          /\ pass[i].seen.version \in KnownVersions(pass[i].known)
      BY <1>0, <1>3 DEF AckRollout, At, Shaped, Pass
    <2>2. pass[i].seen.version \in Versions /\ pass[i].seen.created \in Nat
      BY <2>1 DEF Rollout
    <2>3. rollout # NoRollout /\ pass[i].seen.created <= rollout.created
      BY <2>1 DEF EpochInvariant, SeenBehind, Behind
    <2> QED BY <1>2, <1>3, <2>1, <2>2, <2>3 DEF AckRollout
  <1>4. CASE AckDesired(i)
    <2> DEFINE v == Driver(i)
               since == UpdatedAt(v, pass[i].known)
    <2>1. pass[i].known \in 0 .. Len(requests) /\ pass[i].known # 0
      <3>1. pass[i].known \in Nat
        BY <1>0 DEF Pass
      <3>2. pass[i].known <= Len(requests)
        BY <1>0 DEF Shaped
      <3>3. pass[i].known # 0
        BY <1>4 DEF AckDesired, NeedsAck
      <3> QED BY SMTT(60), <1>0, <3>1, <3>2, <3>3
    <2>2. /\ v \in Versions /\ since \in Nat /\ v \in KnownVersions(pass[i].known)
          /\ \E j \in 1 .. Len(requests) : since = requests[j].at
      BY <1>0, <2>1, LatestKnown DEF Driver
    <2>3. StampAck(i, v, since, "desiredWrite") /\ ~Acknowledged(i, v, since)
      BY <1>4 DEF AckDesired, NeedsAck
    <2> HIDE DEF v, since
    <2>4. rollout # NoRollout /\ since <= rollout.created
      BY <1>0, <2>2 DEF TimesPast
    <2> QED BY <1>2, <2>2, <2>3, <2>4
  <1> QED BY <1>3, <1>4

LEMMA AckDueKept ==
    ASSUME EpochInvariant, EpochInvariant', CohortInvariant, [Next]_vars
    PROVE  AckDue'
  <1> SUFFICES ASSUME NEW i \in Instances, pass'[i].at \in {"ackWrite", "desiredWrite"}
               PROVE  LET ack == pass'[i].ack IN
                      /\ ack.version \in KnownVersions(Len(requests))'
                      /\ rollout' # NoRollout /\ ack.since <= rollout'.created
                      /\ progress'[i][ack.version] # NoRow =>
                             progress'[i][ack.version].ack < ack.since
    BY DEF AckDue
  <1>1. CASE pass'[i] = pass[i]
    <2> DEFINE ack == pass[i].ack
    <2>1. /\ ack.version \in KnownVersions(Len(requests))
          /\ rollout # NoRollout /\ ack.since <= rollout.created
          /\ progress[i][ack.version] # NoRow => progress[i][ack.version].ack < ack.since
      BY <1>1 DEF CohortInvariant, AckDue
    <2>2. ack.version \in Versions /\ ack.since \in Nat
      <3>1. pass[i] \in Pass /\ Shaped(pass[i], progress[i])
        BY KeepTypes
      <3> QED BY <1>1, <3>1 DEF Shaped, Pass, Ack
    <2>3. rollout.created \in Nat /\ clock \in Nat
      BY <2>1, KeepTypes, AdmissionTyped
    <2>4. rollout' # NoRollout /\ ack.since <= rollout'.created
      BY SMTT(60), <2>1, <2>2, <2>3, RowGoesOn DEF GoesOn, Enrolls, SameEpoch
    <2>5. progress'[i][ack.version] # NoRow => progress'[i][ack.version].ack < ack.since
      <3>1. ~Acked(i, ack.version)
        BY DEF Acked
      <3>2. \/ progress'[i][ack.version] = progress[i][ack.version]
            \/ SameAck(i, ack.version)
        BY <2>2, <3>1, RowChanges DEF RowChange, Charged, Restarted
      <3> QED BY <2>1, <3>2 DEF SameAck
    <2>6. ack.version \in KnownVersions(Len(requests))'
      BY <2>1, AcceptedKept
    <2>7. pass'[i].ack = ack
      BY <1>1
    <2> HIDE DEF ack
    <2> QED BY <2>4, <2>5, <2>6, <2>7
  <1>2. CASE AckRollout(i) \/ AckDesired(i)
    <2>1. /\ UNCHANGED <<rollout, requests, progress>>
          /\ pass'[i].ack.version \in KnownVersions(Len(requests))
          /\ rollout # NoRollout /\ pass'[i].ack.since <= rollout.created
          /\ progress[i][pass'[i].ack.version] # NoRow =>
                 progress[i][pass'[i].ack.version].ack < pass'[i].ack.since
      BY <1>2, StampFacts
    <2> QED BY <2>1, AcceptedKept
  <1>3. CASE ListCohort(i)
    <2>1. pass'[i].at = "decide"
      BY SMTT(60), <1>3, KeepTypes DEF ListCohort, Pass
    <2> QED BY <2>1
  <1> QED BY <1>1, <1>2, <1>3, PassChanges DEF PassChange

LEMMA RowsAcceptedKept ==
    ASSUME EpochInvariant, EpochInvariant', CohortInvariant, [Next]_vars
    PROVE  RowsAccepted'
  <1> SUFFICES ASSUME NEW i \in Instances, NEW v \in Versions, progress'[i][v] # NoRow
               PROVE  v \in KnownVersions(Len(requests))
    BY AcceptedKept DEF RowsAccepted
  <1>1. CASE progress[i][v] # NoRow
    BY <1>1 DEF CohortInvariant, RowsAccepted
  <1>2. CASE Acked(i, v)
    BY <1>2 DEF CohortInvariant, AckDue, Acked
  <1>3. CASE SameAck(i, v)
    BY <1>1, <1>3 DEF SameAck
  <1> QED BY <1>1, <1>2, <1>3, RowChanges DEF RowChange, Charged, Restarted

\* Only Tick moves the clock.
LEMMA ClockMoves ==
    ASSUME EpochInvariant, [Next]_vars
    PROVE  UNCHANGED clock \/ Tick
  BY DEF Next, vars, Admit, AdmitCheck, AdmitCreate, AdmitRefuse, AdmitAppend,
     AdmitAppendFails, AdmitUndo, AdmitCrash, Activate, PollStep, Elsewhere,
     Boot, ReadKnown, ReadRollout, Unaccepted, AckRollout, StampAck, AckRolloutWrite,
     WriteAck, Phase, ListCohort, Decide, RecordOutcome, AckDesired, AckDesiredWrite,
     LeaveAlone, Restart, RestartFails, Crash

LEMMA WindowClosedKept ==
    ASSUME ~LateAcks, EpochInvariant, EpochInvariant', CohortInvariant, [Next]_vars
    PROVE  WindowClosed'
  <1>0. /\ clock \in Nat /\ clock' \in Nat /\ clock <= clock' /\ WindowClosed
        /\ rollout # NoRollout => rollout.created \in Nat
        /\ rollout' # NoRollout => rollout'.created \in Nat
    <2>1. rollout' \in Rollout \cup {NoRollout}
      BY DEF EpochInvariant, TypeOK
    <2> QED BY <2>1, Forward, AdmissionTyped DEF CohortInvariant, Rollout
  <1>1. ASSUME rollout' # NoRollout, rollout'.state \in {"restarting", "complete"}
        PROVE  (EnrollmentEndsAt(rollout) <= clock)'
    BY SMTT(60), <1>0, <1>1, RowGoesOn DEF GoesOn, Enrolls, SameEpoch, EnrollmentEndsAt
  <1>2. ASSUME rollout' # NoRollout, (EnrollmentEndsAt(rollout) <= clock)',
               NEW i \in Instances, AckInFlight(i)'
        PROVE  FALSE
    <2>1. /\ pass'[i].at \in {"ackWrite", "desiredWrite"}
          /\ pass'[i].ack.version = rollout'.version
          /\ pass'[i].ack.at < rollout'.created + EnrollmentWindow
          /\ rollout'.created + EnrollmentWindow <= clock'
      BY <1>2 DEF AckInFlight, EnrollmentEndsAt
    <2>2. GoesOn
      BY SMTT(60), <1>0, <1>2, <2>1, RowGoesOn DEF Enrolls
    <2>3. CASE pass'[i] = pass[i]
      <3>1. AckInFlight(i)
        BY <2>1, <2>2, <2>3 DEF AckInFlight, EnrollmentEndsAt, GoesOn, SameEpoch
      <3>2. CASE UNCHANGED clock
        <4>1. EnrollmentEndsAt(rollout) <= clock
          BY <2>1, <2>2, <3>2 DEF EnrollmentEndsAt, GoesOn, SameEpoch
        <4> QED BY <1>0, <2>2, <3>1, <4>1 DEF WindowClosed, GoesOn
      <3>3. CASE Tick
        <4>1. clock + 1 < EnrollmentEndsAt(rollout) /\ clock' = clock + 1
          BY <3>1, <3>3 DEF Tick
        <4> QED BY SMTT(60), <1>0, <2>1, <2>2, <4>1 DEF EnrollmentEndsAt, GoesOn, SameEpoch
      <3> QED BY <3>2, <3>3, ClockMoves
    <2>4. CASE AckRollout(i) \/ AckDesired(i)
      <3>1. clock' = clock /\ pass'[i].ack.at = clock
        BY <2>4, StampFacts
      <3> QED BY SMTT(60), <1>0, <1>2, <2>1, <3>1
    <2>5. CASE ListCohort(i)
      <3>1. pass'[i].at = "decide"
        BY SMTT(60), <2>5, KeepTypes DEF ListCohort, Pass
      <3> QED BY <2>1, <3>1
    <2> QED BY <2>1, <2>3, <2>4, <2>5, PassChanges DEF PassChange
  <1>3. ASSUME NEW i \in Instances, pass'[i].seen # NoRollout,
               pass'[i].seen.state \in {"restarting", "complete"}
        PROVE  (EnrollmentEndsAt(pass[i].seen) <= clock)'
    <2>1. CASE pass'[i].seen = rollout'
      BY <1>1, <1>3, <2>1 DEF EnrollmentEndsAt
    <2>2. CASE pass'[i].seen = pass[i].seen
      <3>1. pass[i].seen.created \in Nat
        <4>1. pass[i] \in Pass
          BY KeepTypes
        <4> QED BY <1>3, <2>2, <4>1 DEF Pass, Rollout
      <3> QED BY SMTT(60), <1>0, <1>3, <2>2, <3>1 DEF WindowClosed, EnrollmentEndsAt
    <2> QED BY <1>3, <2>1, <2>2, SeenChanges
  <1> QED BY <1>1, <1>2, <1>3 DEF WindowClosed

\* A count of the current epoch, once taken after the window, stays right.
LEMMA ConvergedKept ==
    ASSUME EpochInvariant, EpochInvariant', CohortInvariant, [Next]_vars,
           GoesOn, EnrollmentEndsAt(rollout) <= clock, Converged(rollout)
    PROVE  Converged(rollout)'
  <1> DEFINE v == rollout.version
  <1>0. /\ rollout # NoRollout /\ rollout' # NoRollout /\ rollout'.version = v
        /\ SameEpoch(rollout, rollout')
    BY DEF GoesOn
  <1>1. /\ Cohort(rollout)' = Cohort(rollout)
        /\ \A i \in Cohort(rollout) : progress[i][v].restarted # Never =>
               progress'[i][v].restarted = progress[i][v].restarted
    BY <1>0, CohortKept DEF CohortInvariant
  <1>2. rollout.created \in Nat
    BY <1>0, AdmissionTyped
  <1>3. ASSUME NEW i \in Cohort(rollout)
        PROVE  RestartedInTime(i, rollout)'
    <2>1. RestartedInTime(i, rollout)
      BY DEF Converged
    <2>2. progress[i][v].restarted # Never
      BY SMTT(60), <1>2, <2>1 DEF RestartedInTime
    <2> QED BY <1>0, <1>1, <2>1, <2>2 DEF RestartedInTime, Deadline, SameEpoch
  <1>4. \A i \in Cohort(rollout)' : RestartedInTime(i, rollout)'
    BY <1>1, <1>3
  <1> QED BY <1>1, <1>4 DEF Converged

LEMMA CountHoldsKept ==
    ASSUME EpochInvariant, EpochInvariant', CohortInvariant, [Next]_vars
    PROVE  CountHolds'
  <1>0. WindowClosed /\ CountHolds
    BY DEF CohortInvariant
  <1>1. ASSUME NEW i \in Instances, pass'[i].at = "decide", pass'[i].converged,
               pass'[i].seen.created = rollout'.created
        PROVE  Converged(rollout)'
    <2>1. CASE pass'[i] = pass[i]
      <3> DEFINE seen == pass[i].seen
      <3>0. Shaped(pass[i], progress[i])
        BY DEF EpochInvariant, PassShape
      <3>1. seen # NoRollout /\ seen.state = "restarting"
        BY <3>0, <1>1, <2>1 DEF Shaped
      <3>2. rollout # NoRollout /\ seen.created <= rollout.created
        BY <3>1 DEF EpochInvariant, SeenBehind, Behind
      <3>3. rollout.created \in Nat /\ seen.created \in Nat /\ clock \in Nat
        <4>1. pass[i] \in Pass
          BY KeepTypes
        <4> QED BY <3>1, <3>2, <4>1, AdmissionTyped, KeepTypes DEF Pass, Rollout
      <3>4. GoesOn
        BY SMTT(60), <1>1, <2>1, <3>2, <3>3, RowGoesOn DEF Enrolls
      <3>5. seen.created = rollout.created
        BY <1>1, <2>1, <3>4 DEF GoesOn, SameEpoch
      <3>6. EnrollmentEndsAt(rollout) <= clock
        BY <1>0, <3>1, <3>5 DEF WindowClosed, EnrollmentEndsAt
      <3>7. Converged(rollout)
        BY <1>0, <1>1, <2>1, <3>5 DEF CountHolds
      <3> QED BY <3>4, <3>6, <3>7, ConvergedKept
    <2>2. CASE ListCohort(i)
      <3> DEFINE seen == pass[i].seen
      <3>0. pass \in [Instances -> Pass] /\ pass[i] \in Pass /\ Shaped(pass[i], progress[i])
        BY KeepTypes
      <3>1. pass'[i].converged = Converged(seen) /\ pass'[i].seen = seen
        BY <2>2, <3>0 DEF ListCohort, Pass
      <3>2. UNCHANGED <<rollout, progress>>
        BY <2>2 DEF ListCohort, KeepRollout
      <3>3. seen # NoRollout
        BY <2>2, <3>0 DEF ListCohort, Shaped, At
      <3>4. rollout # NoRollout /\ seen.version = rollout.version /\ SameEpoch(rollout, seen)
        BY <1>1, <3>1, <3>2, <3>3 DEF EpochInvariant, SeenBehind, Behind
      <3>5. Cohort(seen) = Cohort(rollout)
        BY <3>4 DEF Cohort, SameEpoch, EnrollmentEndsAt
      <3>6. Converged(rollout)
        BY <1>1, <3>1, <3>4, <3>5 DEF Converged, RestartedInTime, Deadline, SameEpoch
      <3> QED BY <3>2, <3>6 DEF Converged, Cohort, RestartedInTime
    <2>3. CASE AckRollout(i) \/ AckDesired(i)
      <3>1. pass'[i].at \in {"ackWrite", "desiredWrite"}
        BY SMTT(60), <2>3, KeepTypes DEF AckRollout, AckDesired, StampAck, Pass
      <3> QED BY <1>1, <3>1
    <2> QED BY <1>1, <2>1, <2>2, <2>3, PassChanges DEF PassChange
  <1>2. ASSUME rollout' # NoRollout, rollout'.state = "complete"
        PROVE  Converged(rollout)'
    <2>1. GoesOn /\ EnrollmentEndsAt(rollout) <= clock /\ Converged(rollout)
      BY <1>2, RowGoesOn DEF GoesOn, Enrolls
    <2> QED BY <2>1, ConvergedKept
  <1> QED BY <1>1, <1>2 DEF CountHolds

THEOREM CohortInit == Init => CohortInvariant
  <1> SUFFICES ASSUME Init PROVE CohortInvariant
    OBVIOUS
  <1>1. \A i \in Instances : pass[i] \in {PassAt("off"), PassAt("idle")}
    BY DEF Init
  <1>2. \A i \in Instances : pass[i].at \in {"off", "idle"} /\ pass[i].seen = NoRollout
    BY SMTT(60), <1>1 DEF PassAt
  <1>3. rollout = NoRollout /\ \A i \in Instances, v \in Versions : progress[i][v] = NoRow
    BY DEF Init
  <1> QED BY <1>2, <1>3 DEF CohortInvariant, AckDue, RowsAccepted, WindowClosed, CountHolds

\* The inductive step, given that acknowledgements do not land late.
THEOREM CohortStep ==
    ~LateAcks /\ EpochInvariant /\ EpochInvariant' /\ CohortInvariant /\ [Next]_vars
        => CohortInvariant'
  BY AckDueKept, RowsAcceptedKept, WindowClosedKept, CountHoldsKept DEF CohortInvariant

THEOREM CohortInvariantHolds == ~LateAcks => (Spec => []CohortInvariant)
  <1> SUFFICES ASSUME ~LateAcks PROVE Spec => []CohortInvariant
    OBVIOUS
  <1>1. EpochInvariant /\ EpochInvariant' /\ CohortInvariant /\ [Next]_vars => CohortInvariant'
    BY CohortStep
  <1> QED BY <1>1, CohortInit, EpochInvariantHolds, PTL DEF Spec

\* A complete rollout was accepted and its whole cohort, which is not empty,
\* restarted between its creation and its deadline, although the poller that
\* completes it acts on a count taken in an earlier call.
THEOREM CompletedCohortHolds == ~LateAcks => (Spec => []CompletedCohort)
  <1> SUFFICES ASSUME ~LateAcks PROVE Spec => []CompletedCohort
    OBVIOUS
  <1>1. EpochInvariant /\ CohortInvariant => CompletedCohort
    <2> SUFFICES ASSUME EpochInvariant, CohortInvariant,
                        rollout # NoRollout, rollout.state = "complete"
                 PROVE  /\ \E j \in 1 .. Len(requests) : requests[j].to = rollout.version
                        /\ Cohort(rollout) # {}
                        /\ \A i \in Cohort(rollout) :
                               progress[i][rollout.version].restarted \in
                                   rollout.created .. Deadline(rollout)
      BY DEF CompletedCohort
    <2>1. Converged(rollout)
      BY DEF CohortInvariant, CountHolds
    <2>2. rollout \in Rollout /\ progress \in [Instances -> [Versions -> Row \cup {NoRow}]]
      BY KeepTypes
    <2>3. rollout.version \in Versions /\ rollout.created \in Nat /\ Deadline(rollout) \in Nat
      BY SMTT(60), <2>2 DEF Rollout, Deadline
    <2>4. ASSUME NEW i \in Cohort(rollout)
          PROVE  /\ i \in Instances /\ progress[i][rollout.version] # NoRow
                 /\ progress[i][rollout.version].restarted \in Int
                 /\ RestartedInTime(i, rollout)
      <3>1. i \in Instances /\ progress[i][rollout.version] # NoRow
        BY DEF Cohort
      <3>2. progress[i][rollout.version] \in Row
        BY SMTT(60), <2>2, <2>3, <3>1
      <3> QED BY SMTT(60), <2>1, <3>1, <3>2 DEF Row, Converged
    <2>5. PICK i \in Cohort(rollout) : TRUE
      BY <2>1 DEF Converged
    <2>6. rollout.version \in KnownVersions(Len(requests))
      BY <2>3, <2>4, <2>5 DEF CohortInvariant, RowsAccepted
    <2>7. \E j \in 1 .. Len(requests) : requests[j].to = rollout.version
      BY <2>6 DEF KnownVersions
    <2>8. \A j \in Cohort(rollout) : progress[j][rollout.version].restarted \in
                                         rollout.created .. Deadline(rollout)
      BY SMTT(60), <2>3, <2>4 DEF RestartedInTime
    <2> QED BY <2>1, <2>7, <2>8 DEF Converged
  <1> QED BY <1>1, EpochInvariantHolds, CohortInvariantHolds, PTL

\* Once MarkRestarting has closed enrollment, nobody joins or leaves the cohort
\* of that epoch.
THEOREM FrozenCohortHolds == ~LateAcks => (Spec => FrozenCohort)
  <1> SUFFICES ASSUME ~LateAcks PROVE Spec => FrozenCohort
    OBVIOUS
  <1> DEFINE Frozen ==
        /\ rollout # NoRollout /\ rollout.state \in {"restarting", "complete"}
        /\ rollout'.version = rollout.version /\ SameEpoch(rollout, rollout')
        => Cohort(rollout)' = Cohort(rollout)
  <1>1. EpochInvariant /\ EpochInvariant' /\ CohortInvariant /\ [Next]_vars => [Frozen]_vars
    <2> SUFFICES ASSUME EpochInvariant, EpochInvariant', CohortInvariant, [Next]_vars,
                        rollout # NoRollout, rollout.state \in {"restarting", "complete"},
                        rollout'.version = rollout.version, SameEpoch(rollout, rollout')
                 PROVE  Cohort(rollout)' = Cohort(rollout)
      OBVIOUS
    <2>1. EnrollmentEndsAt(rollout) <= clock /\ AckDue /\ WindowClosed
      BY DEF CohortInvariant, WindowClosed
    <2>2. rollout' # NoRollout
      BY RowGoesOn DEF GoesOn, Enrolls
    <2> QED BY <2>1, <2>2, CohortKept
  <1>2. Spec => [][Frozen]_vars
    BY <1>1, EpochInvariantHolds, CohortInvariantHolds, PTL DEF Spec
  <1> QED BY <1>2 DEF FrozenCohort

-----------------------------------------------------------------------------
(* The members of a complete rollout run its version.  The argument is      *)
(* MemberInvariant, on top of CohortInvariant: what a replica's row says of  *)
(* its restart is tied to what it runs and to what its pass has read.        *)

\* The desired version is the one requested last.
LEMMA LatestIsLast ==
    ASSUME TypeOK, RequestsOrdered, NEW k \in 1 .. Len(requests)
    PROVE  LatestKnownVersion(k) = requests[k].to
  <1>1. /\ k # 0 /\ k \in 1 .. k
        /\ \A j \in 1 .. k : j \in 1 .. Len(requests) /\ (j = k \/ j < k)
    BY SMTT(60), RequestsTyped
  <1>2. \A j \in 1 .. k : requests[j].at \in Nat
    BY <1>1, RequestsTyped
  <1>3. \A j \in 1 .. k : j = k \/ requests[j].at < requests[k].at
    BY <1>1 DEF RequestsOrdered
  <1>4. \A j \in 1 .. k : requests[j].at <= requests[k].at
    BY SMTT(60), <1>1, <1>2, <1>3
  <1>5. \A j \in 1 .. k : requests[k].at <= requests[j].at => j = k
    BY SMTT(60), <1>1, <1>2, <1>3
  <1>6. Latest(1 .. k) = k
    <2> DEFINE l == Latest(1 .. k)
    <2>1. l \in 1 .. k /\ \A j \in 1 .. k : requests[j].at <= requests[l].at
      BY <1>1, <1>4 DEF Latest
    <2> HIDE DEF l
    <2>2. l = k
      BY <1>1, <1>5, <2>1
    <2> QED BY <2>2 DEF l
  <1> QED BY <1>1, <1>6 DEF LatestKnownVersion

\* What one step may do to a replica.  A row that says restarted said so before,
\* unless the step restarts the replica for the desired version.
KeepsRestarts(i) == \A v \in Versions : HasRestarted(i, v)' => HasRestarted(i, v)

Stays(i) == KeepsRestarts(i) /\ running'[i] = running[i] /\ (Live(i)' => Live(i))
Starts(i) == pass[i].at = "off" /\ progress'[i] = progress[i]
Stops(i) == pass'[i].at = "dead" /\ KeepsRestarts(i)
Fails(i) == Pending(i) /\ KeepsRestarts(i)
Restarts(i) ==
    /\ Pending(i) /\ running'[i] = Driver(i) /\ pass'[i].known \in {0, pass[i].known}
    /\ \A v \in Versions : v # Driver(i) => progress'[i][v] = progress[i][v]

ReplicaChange(i) ==
    /\ pass'[i].known \in {0, pass[i].known, Len(requests)}
    /\ pass'[i].at = "off" => pass[i].at = "off" /\ progress'[i] = progress[i]
    /\ Stays(i) \/ Starts(i) \/ Stops(i) \/ Fails(i) \/ Restarts(i)

\* A step that leaves a replica alone.
LEMMA StillReplica ==
    ASSUME NEW i \in Instances, pass'[i] = pass[i], progress'[i] = progress[i],
           running'[i] = running[i]
    PROVE  ReplicaChange(i)
  BY DEF ReplicaChange, Stays, KeepsRestarts, HasRestarted, Live

\* Whatever a pass does, it does to its own replica.
LEMMA OthersStill ==
    ASSUME EpochInvariant, NEW i \in Instances, PollStep(i) \/ Crash(i),
           NEW j \in Instances, j # i
    PROVE  pass'[j] = pass[j] /\ progress'[j] = progress[j] /\ running'[j] = running[j]
  <1>1. /\ pass \in [Instances -> Pass]
        /\ progress \in [Instances -> [Versions -> Row \cup {NoRow}]]
        /\ running \in [Instances -> Versions \cup {NoVersion}]
    BY KeepTypes
  <1>2. running'[j] = running[j]
    BY <1>1 DEF PollStep, Boot, ReadKnown, ReadRollout, Unaccepted, AckRollout, StampAck,
       AckRolloutWrite, WriteAck, Phase, ListCohort, Decide, RecordOutcome, AckDesired,
       AckDesiredWrite, LeaveAlone, Restart, RestartFails, Crash
  <1>3. ASSUME ChargeAttempt(i) PROVE progress'[j] = progress[j]
    BY <1>1, <1>3 DEF ChargeAttempt
  <1>4. ASSUME NEW state, NEW next, MarkForRollout(i, state, next)
        PROVE  progress'[j] = progress[j]
    BY <1>3, <1>4 DEF MarkForRollout, FailPass
  <1>5. progress'[j] = progress[j]
    BY <1>1, <1>3, <1>4 DEF PollStep, Boot, ReadKnown, ReadRollout, Unaccepted, AckRollout,
       StampAck, AckRolloutWrite, WriteAck, Phase, ListCohort, Decide, RecordOutcome,
       AckDesired, AckDesiredWrite, LeaveAlone, Restart, RestartFails, FailPass, Crash
  <1>6. ASSUME NEW label, Goto(i, label) PROVE pass'[j] = pass[j]
    BY <1>1, <1>6 DEF Goto, EndPass
  <1>7. ASSUME NEW state, NEW next, MarkForRollout(i, state, next)
        PROVE  pass'[j] = pass[j]
    BY <1>1, <1>6, <1>7 DEF MarkForRollout, FailPass, EndPass
  <1>8. pass'[j] = pass[j]
    BY <1>1, <1>6, <1>7 DEF PollStep, Boot, ReadKnown, ReadRollout, Unaccepted, AckRollout,
       StampAck, AckRolloutWrite, WriteAck, Phase, ListCohort, Decide, RecordOutcome,
       AckDesired, AckDesiredWrite, LeaveAlone, Restart, RestartFails, FailPass, EndPass, Crash
  <1> QED BY <1>2, <1>5, <1>8

\* A pass knows what it knew, starts anew, or has just read the requests.
KnownMoves(i) ==
    /\ pass'[i].known \in {0, pass[i].known, Len(requests)}
    /\ pass'[i].at # "off"

LEMMA EndKnown ==
    ASSUME EpochInvariant, NEW i \in Instances, EndPass(i)
    PROVE  pass'[i].known = 0 /\ pass'[i].at = "idle" /\ KnownMoves(i)
  <1>1. PassAt("idle").known = 0 /\ PassAt("idle").at = "idle"
    BY DEF PassAt
  <1> QED BY <1>1, KeepTypes DEF EndPass, KnownMoves

LEMMA GotoKnown ==
    ASSUME EpochInvariant, NEW i \in Instances, NEW label, label # "off", Goto(i, label)
    PROVE  KnownMoves(i)
  <1>1. CASE EndPass(i)
    BY <1>1, EndKnown
  <1>2. CASE pass' = [pass EXCEPT ![i].at = label]
    <2>1. pass \in [Instances -> Pass] /\ pass[i] \in Pass
      BY KeepTypes
    <2> QED BY <1>2, <2>1 DEF KnownMoves, Pass
  <1> QED BY <1>1, <1>2 DEF Goto

LEMMA MarkKnown ==
    ASSUME EpochInvariant, NEW i \in Instances,
           NEW state, NEW next, next # "off", MarkForRollout(i, state, next)
    PROVE  KnownMoves(i)
  <1> DEFINE new == TransitionFor(rollout, pass[i].seen, state, clock)
             label == IF state = "restarting" THEN ThenEvaluate(new) ELSE "record"
  <1>1. CASE pass' = [pass EXCEPT ![i].seen = new, ![i].at = label]
    <2>1. label # "off"
      BY DEF ThenEvaluate
    <2> HIDE DEF new, label
    <2>2. pass \in [Instances -> Pass] /\ pass[i] \in Pass
      BY KeepTypes
    <2> QED BY <1>1, <2>1, <2>2 DEF KnownMoves, Pass
  <1>2. CASE EndPass(i)
    BY <1>2, EndKnown
  <1>3. CASE Goto(i, next)
    BY <1>3, GotoKnown
  <1> QED BY <1>1, <1>2, <1>3 DEF MarkForRollout, FailPass

LEMMA PollKnown ==
    ASSUME EpochInvariant, NEW i \in Instances, PollStep(i)
    PROVE  KnownMoves(i)
  <1>0. pass \in [Instances -> Pass] /\ pass[i] \in Pass
    BY KeepTypes
  <1>1. CASE EndPass(i)
    BY <1>1, EndKnown
  <1>2. CASE Unaccepted(i)
    BY <1>1, <1>2, MarkKnown DEF Unaccepted
  <1>3. CASE Phase(i)
    <2>1. CASE pass' = [pass EXCEPT ![i].at = ThenEvaluate(pass[i].seen),
                                    ![i].blocked = RestartBlocked(pass[i].seen)]
      <3>1. ThenEvaluate(pass[i].seen) # "off"
        BY DEF ThenEvaluate
      <3> QED BY <1>0, <2>1, <3>1 DEF KnownMoves, Pass
    <2> QED BY <1>3, <2>1, MarkKnown DEF Phase
  <1>4. ASSUME NEW hook \in Hook, Decide(i, hook)
        PROVE  KnownMoves(i)
    <2>1. AfterOutcome(i) # "off"
      BY DEF AfterOutcome
    <2> QED BY <1>1, <1>4, <2>1, MarkKnown, GotoKnown DEF Decide, FailPass
  <1>5. CASE RecordOutcome(i)
    <2> DEFINE next == IF pass[i].seen.version \in KnownVersions(pass[i].known)
                       THEN AfterOutcome(i) ELSE "idle"
    <2>1. next # "off" /\ Goto(i, next)
      BY <1>5 DEF RecordOutcome, AfterOutcome
    <2> HIDE DEF next
    <2> QED BY <2>1, GotoKnown
  <1>6. CASE AckRolloutWrite(i) \/ AckDesiredWrite(i)
    <2> PICK label \in {"ack", "desired"} : WriteAck(i, label)
      BY <1>6 DEF AckRolloutWrite, AckDesiredWrite
    <2> QED BY <1>0 DEF WriteAck, KnownMoves, Pass
  <1>7. CASE AckRollout(i) \/ AckDesired(i)
    <2>1. ASSUME NEW v, NEW since, NEW label, label # "off", StampAck(i, v, since, label)
          PROVE  KnownMoves(i)
      BY <1>0, <2>1 DEF StampAck, KnownMoves, Pass
    <2> QED BY <1>7, <2>1 DEF AckRollout, AckDesired
  <1>8. CASE ReadKnown(i)
    BY <1>0, <1>8 DEF ReadKnown, KnownMoves, Pass
  <1>9. CASE ReadRollout(i)
    <2>1. CASE IsActive(rollout)
      <3> DEFINE label == IF rollout.version \in KnownVersions(pass[i].known)
                          THEN "ack" ELSE "unaccepted"
      <3>1. pass' = [pass EXCEPT ![i].seen = rollout, ![i].at = label] /\ label # "off"
        BY <1>9, <2>1 DEF ReadRollout
      <3> HIDE DEF label
      <3> QED BY <1>0, <3>1 DEF KnownMoves, Pass
    <2>2. CASE pass' = [pass EXCEPT ![i].at = "desired"]
      BY <1>0, <2>2 DEF KnownMoves, Pass
    <2> QED BY <1>9, <2>1, <2>2 DEF ReadRollout
  <1>10. CASE ListCohort(i)
    BY <1>0, <1>10 DEF ListCohort, KnownMoves, Pass
  <1>11. CASE pass' = [pass EXCEPT ![i].at = "cohort", ![i].final = TRUE]
    BY <1>0, <1>11 DEF KnownMoves, Pass
  <1> QED BY <1>1, <1>2, <1>3, <1>4, <1>5, <1>6, <1>7, <1>8, <1>9, <1>10, <1>11
        DEF PollStep, Boot, LeaveAlone, Restart, RestartFails, FailPass

\* What the steps that write progress do to what the rows say of restarts.
LEMMA ChargeRestarts ==
    ASSUME EpochInvariant, NEW i \in Instances, UNCHANGED progress \/ ChargeAttempt(i)
    PROVE  KeepsRestarts(i)
  <1> SUFFICES ASSUME NEW v \in Versions, HasRestarted(i, v)' PROVE HasRestarted(i, v)
    BY DEF KeepsRestarts
  <1>1. CASE progress'[i][v] = progress[i][v]
    BY <1>1 DEF HasRestarted
  <1>2. CASE Charged(i, v)
    BY <1>2 DEF Charged, SameAck, HasRestarted
  <1> QED BY <1>1, <1>2, ChargeChanges

LEMMA WriteRestarts ==
    ASSUME EpochInvariant, NEW i \in Instances, AckRolloutWrite(i) \/ AckDesiredWrite(i)
    PROVE  KeepsRestarts(i)
  <1> PICK label \in {"ack", "desired"} :
          WriteAck(i, label) /\ pass[i].at \in {"ackWrite", "desiredWrite"}
    BY DEF AckRolloutWrite, AckDesiredWrite, At
  <1> DEFINE ack == pass[i].ack
             row == [ack |-> IF ack.at < ack.since THEN ack.since ELSE ack.at,
                     restarted |-> Never, attempts |-> 0]
  <1>1. progress' = [progress EXCEPT ![i] = [progress[i] EXCEPT ![ack.version] = row]]
    BY WriteAckRow
  <1>2. row.restarted = Never
    OBVIOUS
  <1>3. progress \in [Instances -> [Versions -> Row \cup {NoRow}]]
    BY KeepTypes
  <1> HIDE DEF row, ack
  <1> QED BY <1>1, <1>2, <1>3 DEF KeepsRestarts, HasRestarted

LEMMA RestartReplica ==
    ASSUME EpochInvariant, NEW i \in Instances, Restart(i)
    PROVE  Restarts(i)
  <1> DEFINE w == Driver(i)
             row == [progress[i][w] EXCEPT !.restarted = clock]
  <1>1. /\ w \in Versions
        /\ progress' = [progress EXCEPT ![i] = [progress[i] EXCEPT ![w] = row]]
    BY RestartRow
  <1>2. /\ progress \in [Instances -> [Versions -> Row \cup {NoRow}]]
        /\ running \in [Instances -> Versions \cup {NoVersion}]
        /\ pass \in [Instances -> Pass] /\ pass[i] \in Pass
    BY KeepTypes
  <1>3. running'[i] = w /\ Pending(i)
    <2>1. Pending(i) /\ running' = [running EXCEPT ![i] = IF FoundRunning(i, w) THEN @ ELSE w]
      BY DEF Restart
    <2> HIDE DEF w
    <2> QED BY <1>2, <2>1 DEF FoundRunning
  <1>4. pass'[i].known \in {0, pass[i].known}
    <2>1. CASE EndPass(i)
      BY <2>1, EndKnown
    <2>2. CASE pass' = [pass EXCEPT ![i].at = "cohort", ![i].final = TRUE]
      BY <1>2, <2>2 DEF Pass
    <2> QED BY <2>1, <2>2 DEF Restart
  <1>5. \A v \in Versions : v # w => progress'[i][v] = progress[i][v]
    <2> HIDE DEF row, w
    <2> QED BY <1>1, <1>2
  <1> QED BY <1>3, <1>4, <1>5 DEF Restarts

\* What a poller's step does to its replica.
LEMMA OwnReplica ==
    ASSUME EpochInvariant, NEW i \in Instances, PollStep(i) \/ Crash(i)
    PROVE  ReplicaChange(i)
  <1>1. CASE Crash(i)
    <2>1. PassAt("dead").known = 0 /\ PassAt("dead").at = "dead"
      BY DEF PassAt
    <2>2. pass'[i] = PassAt("dead") /\ UNCHANGED progress
      BY <1>1, KeepTypes DEF Crash
    <2> QED BY <2>1, <2>2, ChargeRestarts DEF ReplicaChange, Stops
  <1>2. CASE PollStep(i)
    <2>1. KnownMoves(i)
      BY <1>2, PollKnown
    <2>2. CASE \E started \in BOOLEAN : Boot(i, started)
      BY <2>1, <2>2 DEF Boot, At, ReplicaChange, KnownMoves, Starts
    <2>3. ASSUME NEW left \in Versions \cup {NoVersion}, RestartFails(i, left)
          PROVE  ReplicaChange(i)
      BY <2>1, <2>3, ChargeRestarts DEF RestartFails, FailPass, ReplicaChange, KnownMoves, Fails
    <2>4. CASE Restart(i)
      BY <2>1, <2>4, RestartReplica DEF ReplicaChange, KnownMoves
    <2>5. ASSUME UNCHANGED running, KeepsRestarts(i), pass[i].at \notin {"off", "dead"}
          PROVE  ReplicaChange(i)
      BY <2>1, <2>5 DEF ReplicaChange, KnownMoves, Stays, Live
    <2>6. CASE AckRolloutWrite(i) \/ AckDesiredWrite(i)
      BY <2>5, <2>6, WriteRestarts DEF AckRolloutWrite, AckDesiredWrite, WriteAck, At
    <2>7. ASSUME NEW state, NEW next, MarkForRollout(i, state, next)
          PROVE  KeepsRestarts(i)
      BY <2>7, ChargeRestarts DEF MarkForRollout, FailPass
    <2>8. CASE Unaccepted(i) \/ Phase(i) \/ \E hook \in Hook : Decide(i, hook)
      <3>1. KeepsRestarts(i)
        BY <2>7, <2>8, ChargeRestarts DEF Unaccepted, Phase, Decide, FailPass
      <3> QED BY <2>5, <2>8, <3>1 DEF Unaccepted, Phase, Decide, At
    <2> QED BY <1>2, <2>2, <2>3, <2>4, <2>5, <2>6, <2>8, ChargeRestarts DEF PollStep,
          ReadKnown, ReadRollout, AckRollout, StampAck, ListCohort, RecordOutcome,
          AckDesired, LeaveAlone, Pending, At
  <1> QED BY <1>1, <1>2

LEMMA ReplicaChanges ==
    ASSUME EpochInvariant, [Next]_vars, NEW j \in Instances
    PROVE  ReplicaChange(j)
  <1>1. ASSUME NEW i \in Instances, PollStep(i) \/ Crash(i)
        PROVE  ReplicaChange(j)
    BY <1>1, OwnReplica, OthersStill, StillReplica
  <1>2. CASE Admit \/ Tick \/ UNCHANGED vars \/
             \E s \in Sources, retry \in BOOLEAN : Activate(s, retry)
    <2>1. UNCHANGED <<pass, progress, running>>
      BY <1>2 DEF Admit, AdmitCheck, AdmitCreate, AdmitRefuse, AdmitAppend,
         AdmitAppendFails, AdmitUndo, AdmitCrash, Tick, Activate, vars
    <2> QED BY <2>1, StillReplica
  <1> QED BY <1>1, <1>2 DEF Next

\* An admission takes a time after that of every request, and spends it once.
LEMMA RequestsOrderedKept ==
    ASSUME EpochInvariant, RequestsOrdered, [Next]_vars
    PROVE  RequestsOrdered'
  <1>0. /\ Len(requests) \in Nat /\ requests \in Seq([to : Versions, at : Nat])
        /\ \A j \in 1 .. Len(requests) : requests[j].at \in Nat
    BY KeepTypes, RequestsTyped DEF TypeOK
  <1>1. CASE UNCHANGED requests /\ (UNCHANGED admission \/ admission'.step # "append")
    BY <1>1 DEF RequestsOrdered
  <1>2. CASE AdmitCreate
    <2>1. /\ UNCHANGED requests /\ admission'.at = clock
          /\ rollout # NoRollout => clock > rollout.created
      BY <1>2, AdmissionTyped DEF AdmitCreate, RoomForRollout
    <2>2. ASSUME NEW j \in 1 .. Len(requests) PROVE requests[j].at < clock
      <3>1. rollout # NoRollout /\ requests[j].at <= rollout.created
        BY KeepTypes DEF TimesPast
      <3>2. rollout.created \in Nat /\ clock \in Nat
        BY <3>1, KeepTypes DEF Rollout
      <3> QED BY SMTT(60), <1>0, <2>1, <3>1, <3>2
    <2> QED BY <2>1, <2>2 DEF RequestsOrdered
  <1>3. CASE AdmitAppend \/ \E w \in BOOLEAN : AdmitAppendFails(w)
    <2> DEFINE e == [to |-> admission.version, at |-> admission.at]
    <2>1. /\ admission'.step # "append" /\ admission.step = "append"
          /\ requests' = Append(requests, e) \/ UNCHANGED requests
      BY <1>3, AdmissionTyped DEF AdmitAppend, AdmitAppendFails, AppendRequest, Idle
    <2>2. e \in [to : Versions, at : Nat] /\ e.at = admission.at
      BY <2>1, AdmissionTyped, KeepTypes DEF TimesPast
    <2> HIDE DEF e
    <2>3. CASE requests' = Append(requests, e)
      <3>1. /\ Len(requests') = Len(requests) + 1
            /\ \A j \in 1 .. Len(requests) : requests'[j] = requests[j]
            /\ requests'[Len(requests) + 1] = e
        BY SMTT(60), <1>0, <2>2, <2>3, SeqFacts
      <3>2. ASSUME NEW j \in 1 .. Len(requests'), NEW k \in 1 .. Len(requests'), j < k
            PROVE  requests'[j].at < requests'[k].at
        <4>0. \A n \in Nat : \A a, b \in 1 .. n + 1 :
                 a < b => a \in 1 .. n /\ (b \in 1 .. n \/ b = n + 1)
          BY SMTT(60)
        <4>1. j \in 1 .. Len(requests) /\ (k \in 1 .. Len(requests) \/ k = Len(requests) + 1)
          BY <1>0, <3>1, <3>2, <4>0
        <4>2. CASE k \in 1 .. Len(requests)
          BY <3>1, <3>2, <4>1, <4>2 DEF RequestsOrdered
        <4>3. CASE k = Len(requests) + 1
          BY <2>1, <2>2, <3>1, <4>1, <4>3 DEF RequestsOrdered
        <4> QED BY <4>1, <4>2, <4>3
      <3> QED BY <2>1, <3>2 DEF RequestsOrdered
    <2> QED BY <1>1, <2>1, <2>3
  <1>4. CASE \/ \E s \in Sources, retry \in BOOLEAN : Activate(s, retry)
             \/ \E i \in Instances : PollStep(i) \/ Crash(i)
             \/ Tick \/ UNCHANGED vars
    BY <1>1, <1>4 DEF vars, Activate, Tick, PollStep, Elsewhere, Boot, ReadKnown, ReadRollout,
       Unaccepted, AckRollout, StampAck, AckRolloutWrite, WriteAck, Phase, ListCohort,
       Decide, RecordOutcome, AckDesired, AckDesiredWrite, LeaveAlone, Restart,
       RestartFails, Crash
  <1>5. CASE (\E v \in Versions : AdmitCheck(v)) \/ AdmitRefuse \/ AdmitUndo \/ AdmitCrash
    <2>1. UNCHANGED requests
      BY <1>5 DEF AdmitCheck, AdmitRefuse, AdmitUndo, AdmitCrash
    <2>2. ASSUME NEW v, admission' = [step |-> "create", version |-> v, at |-> 0]
          PROVE  admission'.step # "append"
      BY <2>2
    <2>3. Idle.step # "append"
      BY DEF Idle
    <2>4. \/ \E v \in Versions : admission' = [step |-> "create", version |-> v, at |-> 0]
          \/ admission' = Idle
      BY <1>5 DEF AdmitCheck, AdmitRefuse, AdmitUndo, AdmitCrash
    <2> QED BY <1>1, <2>1, <2>2, <2>3, <2>4
  <1> QED BY <1>2, <1>3, <1>4, <1>5 DEF Next, Admit

LEMMA OffHasNoRowKept ==
    ASSUME EpochInvariant, OffHasNoRow, [Next]_vars
    PROVE  OffHasNoRow'
  <1> SUFFICES ASSUME NEW i \in Instances, pass'[i].at = "off"
               PROVE  \A v \in Versions : progress'[i][v] = NoRow
    BY DEF OffHasNoRow
  <1>1. pass[i].at = "off" /\ progress'[i] = progress[i]
    BY ReplicaChanges DEF ReplicaChange
  <1> QED BY <1>1 DEF OffHasNoRow

LEMMA RunsRestartedKept ==
    ASSUME EpochInvariant, CohortInvariant, MemberInvariant, [Next]_vars
    PROVE  RunsRestarted'
  <1> SUFFICES ASSUME NEW i \in Instances, NEW v \in Versions,
                      RequestedLast(v)', HasRestarted(i, v)'
               PROVE  /\ Live(i)' => running'[i] = v
                      /\ pass'[i].known # 0 => requests'[pass'[i].known].to = v
    BY DEF RunsRestarted
  <1> DEFINE k == pass[i].known
             n == Len(requests)
  <1>0. /\ k \in Nat /\ k <= n /\ n \in Nat /\ TypeOK /\ RequestsGrow
        /\ pass[i].at = "off" => ~HasRestarted(i, v)
    BY KeepTypes, Forward DEF Pass, Shaped, MemberInvariant, OffHasNoRow, HasRestarted
  <1>1. RequestedLast(v)
    <2>1. 1 .. n \subseteq 1 .. Len(requests') /\ \A j \in 1 .. n : requests'[j] = requests[j]
      BY SMTT(60), <1>0, KnownKept DEF RequestsGrow
    <2> QED BY <2>1 DEF RequestedLast
  <1>2. k # 0 => k \in 1 .. n /\ requests'[k] = requests[k]
    BY SMTT(60), <1>0 DEF RequestsGrow
  <1>3. ReplicaChange(i)
    BY ReplicaChanges
  <1>4. Pending(i) => k # 0 /\ Driver(i) = requests[k].to /\ progress[i][Driver(i)].restarted = Never
    <2>1. k # 0 => LatestKnownVersion(k) = requests[k].to
      BY <1>0, <1>2, LatestIsLast DEF MemberInvariant
    <2> QED BY <2>1 DEF Pending, Driver
  <1>5. ASSUME HasRestarted(i, v)
        PROVE  /\ Live(i) => running[i] = v
               /\ k # 0 => requests[k].to = v
               /\ ~Fails(i)
               /\ pass'[i].known # 0 => requests'[pass'[i].known].to = v
    <2>1. /\ Live(i) => running[i] = v
          /\ k # 0 => requests[k].to = v
      BY <1>1, <1>5 DEF MemberInvariant, RunsRestarted
    <2>2. ~Fails(i)
      BY <1>4, <1>5, <2>1 DEF Fails, HasRestarted
    <2>3. n # 0 => requests'[n].to = v
      <3>1. PICK j \in 1 .. n : requests[j].to = v
        BY <1>5 DEF CohortInvariant, RowsAccepted, KnownVersions, HasRestarted
      <3>2. n \in 1 .. n /\ requests'[n] = requests[n] /\ ~(n < j)
        BY SMTT(60), <1>0, <3>1 DEF RequestsGrow
      <3> QED BY <1>1, <3>1, <3>2 DEF RequestedLast
    <2> HIDE DEF k, n
    <2>4. pass'[i].known \in {0, k, n}
      BY <1>3 DEF ReplicaChange, k, n
    <2> QED BY <1>2, <2>1, <2>2, <2>3, <2>4
  <1>6. CASE Stays(i)
    BY <1>5, <1>6 DEF Stays, KeepsRestarts
  <1>7. CASE Starts(i)
    BY <1>0, <1>7 DEF Starts, HasRestarted
  <1>8. CASE Stops(i)
    BY <1>5, <1>8 DEF Stops, KeepsRestarts, Live
  <1>9. CASE Fails(i)
    BY <1>5, <1>9 DEF Fails, KeepsRestarts
  <1>10. CASE Restarts(i)
    <2>1. v = Driver(i)
      <3>1. CASE progress'[i][v] = progress[i][v]
        <4>1. HasRestarted(i, v)
          BY <3>1 DEF HasRestarted
        <4> QED BY <1>4, <1>5, <1>10, <4>1 DEF Restarts
      <3> QED BY <1>10, <3>1 DEF Restarts
    <2> HIDE DEF k
    <2>2. pass'[i].known \in {0, k} /\ running'[i] = v /\ k # 0 /\ requests[k].to = v
      BY <1>4, <1>10, <2>1 DEF Restarts, k
    <2> QED BY <1>2, <2>2
  <1> QED BY <1>3, <1>6, <1>7, <1>8, <1>9, <1>10 DEF ReplicaChange

THEOREM MemberInit == Init => MemberInvariant
  <1> SUFFICES ASSUME Init PROVE MemberInvariant
    OBVIOUS
  <1>1. Len(requests) = 0 /\ 1 .. Len(requests) = {}
    BY SMTT(60) DEF Init
  <1>2. \A i \in Instances, v \in Versions : progress[i][v] = NoRow
    BY DEF Init
  <1>3. admission.step # "append"
    BY DEF Init, Idle
  <1> QED BY <1>1, <1>2, <1>3 DEF MemberInvariant, RequestsOrdered, OffHasNoRow,
        RunsRestarted, HasRestarted

\* The inductive step.  Of CohortInvariant it needs that progress is kept only
\* for accepted versions.
THEOREM MemberStep ==
    EpochInvariant /\ CohortInvariant /\ MemberInvariant /\ [Next]_vars => MemberInvariant'
  BY RequestsOrderedKept, OffHasNoRowKept, RunsRestartedKept DEF MemberInvariant

THEOREM MemberInvariantHolds == ~LateAcks => (Spec => []MemberInvariant)
  <1> SUFFICES ASSUME ~LateAcks PROVE Spec => []MemberInvariant
    OBVIOUS
  <1> QED BY MemberInit, MemberStep, EpochInvariantHolds, CohortInvariantHolds, PTL DEF Spec

\* The members of a complete rollout that are alive run its version, unless the
\* app was moved back to it from another one: whatever a member does after its
\* restart (another pass, a failed attempt, a pass that started before), it does
\* not leave the version it is counted for.
THEOREM MembersRunItHolds == ~LateAcks => (Spec => []MembersRunIt)
  <1> SUFFICES ASSUME ~LateAcks PROVE Spec => []MembersRunIt
    OBVIOUS
  <1>1. EpochInvariant /\ CohortInvariant /\ MemberInvariant => MembersRunIt
    <2> SUFFICES ASSUME EpochInvariant, CohortInvariant, MemberInvariant,
                        rollout # NoRollout, rollout.state = "complete",
                        RequestedLast(rollout.version),
                        NEW i \in Cohort(rollout), Live(i)
                 PROVE  running[i] = rollout.version
      BY DEF MembersRunIt, RequestedLast
    <2>1. rollout.version \in Versions /\ rollout.created \in Nat
      BY KeepTypes DEF Rollout
    <2>2. i \in Instances /\ progress[i][rollout.version] # NoRow
      BY DEF Cohort
    <2>3. rollout.created <= progress[i][rollout.version].restarted
      BY DEF CohortInvariant, CountHolds, Converged, RestartedInTime
    <2>4. progress[i][rollout.version].restarted # Never
      <3>1. \A n \in Nat : ~(n <= Never)
        BY SMTT(60)
      <3> QED BY <2>1, <2>3, <3>1
    <2> QED BY <2>1, <2>2, <2>4 DEF MemberInvariant, RunsRestarted, HasRestarted
  <1> QED BY <1>1, EpochInvariantHolds, CohortInvariantHolds, MemberInvariantHolds, PTL

=============================================================================
