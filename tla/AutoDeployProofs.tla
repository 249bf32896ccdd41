-------------------------- MODULE AutoDeployProofs --------------------------
(***************************************************************************)
(* Proofs about AutoDeploy, for any number of replicas, admins, versions    *)
(* and events, except where one replica is assumed.                         *)
(*                                                                          *)
(* An Update may write back any row that was current once, so the property  *)
(* of a paused row is proved of every row in flight as well (RowsInv).      *)
(***************************************************************************)
EXTENDS AutoDeploy, TLAPS

\* A paused row has no pending and no last-seen version.
ResetRow(row) == row.paused => row.pending = None /\ row.seen = None

\* An actor in an Update knows which one, and the row it carries is well formed.
RunOK(r) == (r.at \in {"get", "put"} => r.op # "none") /\ ResetRow(r.row)

RowsInv == ResetRow(settings) /\ \A a \in Actors : RunOK(run[a])

-----------------------------------------------------------------------------
(* The operators on rows and runs.                                          *)

\* Every function passed to Update yields a row, keeps a paused row reset, and
\* never pauses.
LEMMA ApplyOK ==
    ASSUME NEW row \in Settings, NEW op \in Ops \ {"none"}, NEW v \in Version
    PROVE  /\ Apply(op, v, row) \in Settings
           /\ ResetRow(row) => ResetRow(Apply(op, v, row))
           /\ ~row.paused => ~Apply(op, v, row).paused
           /\ op \in {"enable", "disable", "resume"} => ~Apply(op, v, row).paused
<1> None \in Version
  BY DEF None, Version
<1>1. CASE op = "seen"
  <2>1. Apply(op, v, row) = SawNewest(row, v)
    BY <1>1 DEF Apply
  <2>2. CASE ~row.enabled \/ row.paused \/ row.seen = v
    BY <1>1, <2>1, <2>2 DEF SawNewest
  <2>3. CASE ~(~row.enabled \/ row.paused \/ row.seen = v)
    BY <1>1, <2>1, <2>3 DEF SawNewest, Settings, ResetRow
  <2> QED BY <2>2, <2>3
<1>2. CASE op = "clearError"
  BY <1>2 DEF Apply, Settings, ResetRow
<1>3. ASSUME NEW e \in BOOLEAN
      PROVE  /\ ClearPending(row, v, e) \in Settings
             /\ ResetRow(row) => ResetRow(ClearPending(row, v, e))
             /\ ~row.paused => ~ClearPending(row, v, e).paused
  <2>1. CASE row.pending = v
    BY <2>1 DEF ClearPending, Settings, ResetRow
  <2>2. CASE row.pending # v
    BY <2>2 DEF ClearPending
  <2> QED BY <2>1, <2>2
<1>4. CASE op = "known"
  BY <1>3, <1>4 DEF Apply, Settings
<1>5. CASE op = "admitted"
  BY <1>3, <1>5 DEF Apply
<1>6. CASE op = "rejected"
  BY <1>3, <1>6 DEF Apply
<1>7. CASE op = "enable"
  BY <1>7 DEF Apply, Enable, Settings, ResetRow
<1>8. CASE op = "disable"
  BY <1>8 DEF Apply, Disable, Settings, ResetRow
<1>9. CASE op = "resume"
  BY <1>9 DEF Apply, Settings, ResetRow
<1> QED BY <1>1, <1>2, <1>4, <1>5, <1>6, <1>7, <1>8, <1>9 DEF Ops

\* The idle run, and a run that starts an Update, are well formed.
LEMMA RunsOK ==
    /\ Idle \in Run /\ RunOK(Idle) /\ Idle.at = "idle"
    /\ \A r \in Run, op \in Ops \ {"none"}, v \in Version :
          /\ Updating(r, op, v) \in Run
          /\ RunOK(Updating(r, op, v))
          /\ Updating(r, op, v).at = "get"
          /\ Updating(r, op, v).op = op
<1>1. NoSettings \in Settings /\ ~NoSettings.paused
  BY DEF NoSettings, Settings, None, Version
<1>2. Idle \in Run /\ Idle.at = "idle" /\ Idle.row = NoSettings
  BY <1>1 DEF Idle, Run, None, Version, Ops, Labels
<1>3. ASSUME NEW r \in Run, NEW op \in Ops \ {"none"}, NEW v \in Version
      PROVE  /\ Updating(r, op, v) \in Run
             /\ Updating(r, op, v).row = NoSettings
             /\ Updating(r, op, v).at = "get"
             /\ Updating(r, op, v).op = op
  <2>1. (r.active /\ op = "seen") \in BOOLEAN
    OBVIOUS
  <2> DEFINE b == r.active /\ op = "seen"
  <2>2. Updating(r, op, v) = [r EXCEPT !.at = "get", !.op = op, !.version = v,
                                      !.row = NoSettings, !.active = b]
    BY DEF Updating
  <2>3. b \in BOOLEAN
    BY <2>1
  <2> HIDE DEF b
  <2> QED BY <1>1, <2>2, <2>3 DEF Run, Ops, Labels
<1> QED BY <1>1, <1>2, <1>3 DEF RunOK, ResetRow

\* So is the run Coalesce leaves.
LEMMA CoalesceOK ==
    ASSUME NEW r \in Run
    PROVE  /\ Coalesce(r) \in Run
           /\ RunOK(Coalesce(r))
           /\ Coalesce(r).at # "put"
<1>1. Updating(r, "clearError", None) \in Run /\ RunOK(Updating(r, "clearError", None))
      /\ Updating(r, "clearError", None).at = "get"
  BY RunsOK DEF Ops, None, Version
<1>2. ASSUME NEW v \in Version
      PROVE  LET k == [Idle EXCEPT !.at = "known", !.version = v]
             IN k \in Run /\ RunOK(k) /\ k.at = "known"
  BY DEF Idle, Run, RunOK, ResetRow, NoSettings, Settings, None, Version, Ops, Labels
<1>3. r.row.pending \in Version
  BY DEF Run, Settings
<1> QED BY <1>1, <1>2, <1>3, RunsOK DEF Coalesce

\* A step of one actor that leaves a well-formed run leaves all of them so.
LEMMA GotoOK ==
    ASSUME TypeOK, RowsInv, NEW a \in Actors, NEW r \in Run, RunOK(r), Goto(a, r)
    PROVE  run' \in [Actors -> Run] /\ \A b \in Actors : RunOK(run'[b])
BY DEF TypeOK, RowsInv, Goto

-----------------------------------------------------------------------------
(* Any number of replicas.                                                  *)

LEMMA InitOK == Init => TypeOK /\ RowsInv
<1> SUFFICES ASSUME Init PROVE TypeOK /\ RowsInv
  OBVIOUS
<1>1. settings \in Settings /\ rollout \in Rollout /\ ResetRow(settings)
  <2> USE DEF NoSettings, NoRollout, Settings, Rollout, ResetRow, None, Version
  <2>1. CASE settings = NoSettings /\ rollout = NoRollout
    BY <2>1
  <2>2. CASE /\ settings = [NoSettings EXCEPT !.enabled = TRUE, !.seen = 1]
             /\ rollout = [number |-> 1, version |-> 1, state |-> "complete"]
    BY <2>2
  <2>3. CASE /\ settings = [NoSettings EXCEPT !.enabled = TRUE, !.paused = TRUE,
                                              !.error = TRUE, !.handled = 1]
             /\ rollout = [number |-> 1, version |-> 1, state |-> "failed"]
    BY <2>3
  <2> QED BY <2>1, <2>2, <2>3 DEF Init
<1>2. run \in [Actors -> Run] /\ \A a \in Actors : RunOK(run[a])
  BY RunsOK DEF Init
<1>3. rollout.version \in Nat
  BY <1>1 DEF Rollout, Version
<1> QED BY <1>1, <1>2, <1>3 DEF Init, TypeOK, RowsInv, None, Version

\* AutoDeploySettingsService.Update, in either of its steps.
LEMMA UpdateOK ==
    ASSUME TypeOK, RowsInv, NEW a \in Actors, UpdateGet(a) \/ UpdatePut(a)
    PROVE  TypeOK' /\ RowsInv'
<1> run[a] \in Run /\ RunOK(run[a])
  BY DEF TypeOK, RowsInv
<1>1. CASE UpdateGet(a)
  <2> DEFINE r == [run[a] EXCEPT !.at = "put", !.row = settings]
  <2>1. r \in Run /\ r.at = "put" /\ r.op = run[a].op /\ r.row = settings
    BY DEF TypeOK, Run, Labels
  <2>2. RunOK(r)
    BY <1>1, <2>1 DEF UpdateGet, RunOK, RowsInv
  <2>3. Goto(a, r)
    BY <1>1 DEF UpdateGet
  <2> HIDE DEF r
  <2> QED BY <1>1, <2>1, <2>2, <2>3, GotoOK DEF UpdateGet, KeepStores, TypeOK, RowsInv
<1>2. CASE UpdatePut(a)
  <2> DEFINE row == Apply(run[a].op, run[a].version, run[a].row)
             k == [run[a] EXCEPT !.row = row, !.op = "none", !.version = None]
             r == IF run[a].op = "seen" THEN Coalesce(k) ELSE Idle
  <2>1. run[a].op \in Ops \ {"none"} /\ run[a].version \in Version /\ run[a].row \in Settings
    BY <1>2 DEF UpdatePut, Run, RunOK
  <2>2. row \in Settings /\ ResetRow(row)
    BY <2>1, ApplyOK DEF RunOK
  <2>3. settings' = row /\ Goto(a, r)
    BY <1>2 DEF UpdatePut
  <2> HIDE DEF row
  <2>4. k \in Run
    BY <2>2 DEF Run, Ops, None, Version
  <2>5. r \in Run /\ RunOK(r)
    BY <2>4, CoalesceOK, RunsOK
  <2> HIDE DEF r
  <2> QED BY <1>2, <2>2, <2>3, <2>5, GotoOK DEF UpdatePut, TypeOK, RowsInv
<1> QED BY <1>1, <1>2

\* The steps of Reconcile before an admission.
LEMMA PassOK ==
    ASSUME TypeOK, RowsInv, NEW c \in Controllers,
           \/ ReadSettings(c) \/ ReadRollout(c) \/ Fetch(c) \/ CheckKnown(c)
           \/ \E healthy \in BOOLEAN : HandleFailure(c, healthy)
    PROVE  TypeOK' /\ RowsInv'
<1> c \in Actors /\ run[c] \in Run /\ RunOK(run[c])
  BY DEF TypeOK, RowsInv, Actors
<1>1. CASE ReadSettings(c)
  <2> DEFINE r == [Idle EXCEPT !.at = "rollout", !.row = settings]
  <2>1. r \in Run /\ r.at = "rollout" /\ r.row = settings
    BY RunsOK DEF TypeOK, Run, Labels
  <2>2. RunOK(r)
    BY <2>1 DEF RunOK, RowsInv
  <2>3. Goto(c, r)
    BY <1>1 DEF ReadSettings
  <2> HIDE DEF r
  <2> QED BY <1>1, <2>1, <2>2, <2>3, GotoOK DEF ReadSettings, KeepStores, TypeOK, RowsInv
<1>2. CASE ReadRollout(c)
  <2> DEFINE h == [Idle EXCEPT !.at = "health", !.failed = rollout.number]
             b == rollout.state = "active"
             f == [run[c] EXCEPT !.at = "fetch", !.active = b]
             r == IF rollout.state = "failed" /\ run[c].row.handled < rollout.number
                  THEN h ELSE f
  <2>1. rollout.number \in Nat
    BY DEF TypeOK, Rollout
  <2>2. h \in Run /\ RunOK(h)
    BY <2>1, RunsOK DEF Run, RunOK, ResetRow, Labels
  <2>3. b \in BOOLEAN
    OBVIOUS
  <2>4. Goto(c, r)
    BY <1>2 DEF ReadRollout
  <2> HIDE DEF b, h
  <2>5. f \in Run /\ f.at = "fetch" /\ f.row = run[c].row
    BY <2>3 DEF Run, Labels
  <2>6. RunOK(f)
    BY <2>5 DEF RunOK
  <2> HIDE DEF f
  <2>7. r \in Run /\ RunOK(r)
    BY <2>2, <2>5, <2>6
  <2> HIDE DEF r
  <2> QED BY <1>2, <2>4, <2>7, GotoOK DEF ReadRollout, KeepStores, TypeOK, RowsInv
<1>3. CASE Fetch(c)
  <2> DEFINE r == run'[c]
  <2>1. PICK s \in Run : Goto(c, s) /\ RunOK(s)
    <3>1. CASE Goto(c, Coalesce(run[c]))
      BY <3>1, CoalesceOK
    <3>2. CASE published # None /\ Goto(c, Updating(run[c], "seen", published))
      BY <3>2, RunsOK DEF TypeOK, Ops
    <3> QED BY <1>3, <3>1, <3>2 DEF Fetch
  <2>2. etags' \in [Controllers -> Version]
    BY <1>3 DEF Fetch, TypeOK
  <2> QED BY <1>3, <2>1, <2>2, GotoOK DEF Fetch, KeepStores, TypeOK, RowsInv
<1>4. CASE CheckKnown(c)
  <2> DEFINE k == [run[c] EXCEPT !.at = "select"]
  <2>1. k \in Run /\ k.at = "select" /\ k.row = run[c].row
    BY DEF Run, Labels
  <2>2. RunOK(k)
    BY <2>1 DEF RunOK
  <2>3. Updating(run[c], "known", run[c].version) \in Run
        /\ RunOK(Updating(run[c], "known", run[c].version))
    BY RunsOK DEF Run, Ops
  <2>4. Goto(c, k) \/ Goto(c, Updating(run[c], "known", run[c].version))
    BY <1>4 DEF CheckKnown
  <2> HIDE DEF k
  <2> QED BY <1>4, <2>1, <2>2, <2>3, <2>4, GotoOK DEF CheckKnown, KeepStores, TypeOK, RowsInv
<1>5. ASSUME NEW healthy \in BOOLEAN, HandleFailure(c, healthy)
      PROVE  TypeOK' /\ RowsInv'
  <2>1. rollout.number \in Nat /\ settings \in Settings /\ (~healthy) \in BOOLEAN
    BY DEF TypeOK, Rollout
  <2> DEFINE row == AfterFailure(settings, rollout.number, healthy)
  <2>2. row \in Settings /\ ResetRow(row)
    BY <2>1 DEF AfterFailure, Settings, ResetRow, None, Version
  <2>3. settings' = row \/ settings' = settings
    BY <1>5 DEF HandleFailure
  <2> HIDE DEF row
  <2>4. settings' \in Settings /\ ResetRow(settings')
    BY <2>1, <2>2, <2>3 DEF RowsInv
  <2> QED BY <1>5, <2>4, RunsOK, GotoOK DEF HandleFailure, TypeOK, RowsInv
<1> QED BY <1>1, <1>2, <1>3, <1>4, <1>5

\* The admission, its rejections and failures, and the end of a pass.
LEMMA SelectOK ==
    ASSUME TypeOK, RowsInv, NEW c \in Controllers,
           Select(c) \/ SelectRejected(c) \/ SelectAppendFails(c) \/ CallFails(c) \/ Restart(c)
    PROVE  TypeOK' /\ RowsInv'
<1> c \in Actors /\ run[c] \in Run /\ RunOK(run[c]) /\ run[c].version \in Version
  BY DEF TypeOK, RowsInv, Actors, Run
<1>1. \A op \in {"admitted", "rejected"} :
         /\ Updating(run[c], op, run[c].version) \in Run
         /\ RunOK(Updating(run[c], op, run[c].version))
  BY RunsOK DEF Ops
<1>2. rollout.number + 1 \in Nat
  BY DEF TypeOK, Rollout
<1>3. \A s \in {"active", "failed"} :
         [number |-> rollout.number + 1, version |-> run[c].version, state |-> s] \in Rollout
  BY <1>2 DEF Rollout
<1>4. CASE Select(c)
  <2>1. rollout' \in Rollout /\ desired' \in Version /\ tried' \subseteq Version
    BY <1>3, <1>4 DEF Select, Admit, TypeOK
  <2>2. PICK r \in Run : Goto(c, r) /\ RunOK(r)
    BY <1>1, <1>4, RunsOK DEF Select
  <2> QED BY <1>4, <2>1, <2>2, GotoOK DEF Select, TypeOK, RowsInv
<1>5. CASE SelectRejected(c)
  <2>1. events' \in Nat /\ tried' \subseteq Version
    BY <1>5 DEF SelectRejected, Event, TypeOK
  <2> QED BY <1>1, <1>5, <2>1, GotoOK DEF SelectRejected, TypeOK, RowsInv
<1>6. CASE SelectAppendFails(c)
  <2>1. events' \in Nat /\ rollout' \in Rollout
    BY <1>3, <1>6 DEF SelectAppendFails, Event, TypeOK
  <2> QED BY <1>6, <2>1, RunsOK, GotoOK DEF SelectAppendFails, TypeOK, RowsInv
<1>7. CASE CallFails(c)
  <2>1. events' \in Nat
    BY <1>7 DEF CallFails, Event, TypeOK
  <2> QED BY <1>7, <2>1, RunsOK, GotoOK DEF CallFails, KeepStores, TypeOK, RowsInv
<1>8. CASE Restart(c)
  <2>1. events' \in Nat /\ etags' \in [Controllers -> Version]
    BY <1>8 DEF Restart, Event, TypeOK, None, Version
  <2> QED BY <1>8, <2>1, RunsOK, GotoOK DEF Restart, KeepStores, TypeOK, RowsInv
<1> QED BY <1>4, <1>5, <1>6, <1>7, <1>8

\* The requests of an admin.
LEMMA AdminOK ==
    ASSUME TypeOK, RowsInv, NEW o \in Admins,
           \/ Retried(o) \/ CallFails(o)
           \/ \E op \in {"enable", "disable"} : Toggle(o, op)
           \/ \E v \in 1 .. published : SelectVersion(o, v)
    PROVE  TypeOK' /\ RowsInv'
<1> o \in Actors
  BY DEF Actors
<1>1. \A op \in {"enable", "disable", "resume"} :
         Updating(Idle, op, None) \in Run /\ RunOK(Updating(Idle, op, None))
  BY RunsOK DEF Ops, None, Version
<1>2. CASE Retried(o)
  <2>1. PICK r \in Run : Goto(o, r) /\ RunOK(r)
    BY <1>1, <1>2, RunsOK DEF Retried
  <2> QED BY <1>2, <2>1, GotoOK DEF Retried, KeepStores, TypeOK, RowsInv
<1>3. ASSUME NEW op \in {"enable", "disable"}, Toggle(o, op)
      PROVE  TypeOK' /\ RowsInv'
  <2>1. events' \in Nat
    BY <1>3 DEF Toggle, NewRequest, Event, TypeOK
  <2>2. PICK r \in Run : Goto(o, r) /\ RunOK(r)
    BY <1>1, <1>3 DEF Toggle
  <2> QED BY <1>3, <2>1, <2>2, GotoOK DEF Toggle, KeepStores, TypeOK, RowsInv
<1>4. ASSUME NEW v \in 1 .. published, SelectVersion(o, v)
      PROVE  TypeOK' /\ RowsInv'
  <2>1. v \in Version /\ events' \in Nat
    BY <1>4 DEF SelectVersion, NewRequest, Event, TypeOK, Version
  <2>2. rollout' \in Rollout /\ desired' \in Version /\ tried' \subseteq Version
    BY <1>4, <2>1 DEF SelectVersion, Admit, TypeOK, Rollout
  <2> DEFINE k == [Idle EXCEPT !.at = "retried"]
  <2>3. k \in Run /\ RunOK(k)
    BY RunsOK DEF Run, RunOK, Labels
  <2>4. Goto(o, k) \/ Goto(o, Idle)
    BY <1>4 DEF SelectVersion
  <2> HIDE DEF k
  <2>5. run' \in [Actors -> Run] /\ \A b \in Actors : RunOK(run'[b])
    BY <2>3, <2>4, RunsOK, GotoOK
  <2> QED BY <1>4, <2>1, <2>2, <2>5 DEF SelectVersion, TypeOK, RowsInv
<1>5. CASE CallFails(o)
  <2>1. events' \in Nat
    BY <1>5 DEF CallFails, Event, TypeOK
  <2> QED BY <1>5, <2>1, RunsOK, GotoOK DEF CallFails, KeepStores, TypeOK, RowsInv
<1> QED BY <1>2, <1>3, <1>4, <1>5

\* Publications and the ends of rollouts touch no row.
LEMMA EnvironmentOK ==
    ASSUME TypeOK, RowsInv,
           Publish \/ \E state \in {"complete", "failed"} : EndRollout(state)
    PROVE  TypeOK' /\ RowsInv'
<1>1. CASE Publish
  BY <1>1 DEF Publish, TypeOK, RowsInv, Version
<1>2. ASSUME NEW state \in {"complete", "failed"}, EndRollout(state)
      PROVE  TypeOK' /\ RowsInv'
  <2>1. rollout' \in Rollout
    BY <1>2 DEF EndRollout, TypeOK, Rollout
  <2>2. events' \in Nat
    BY <1>2 DEF EndRollout, Event, TypeOK
  <2> QED BY <1>2, <2>1, <2>2 DEF EndRollout, TypeOK, RowsInv
<1> QED BY <1>1, <1>2

LEMMA NextOK == TypeOK /\ RowsInv /\ [Next]_vars => TypeOK' /\ RowsInv'
<1> SUFFICES ASSUME TypeOK, RowsInv, [Next]_vars PROVE TypeOK' /\ RowsInv'
  OBVIOUS
<1>1. CASE UNCHANGED vars
  BY <1>1 DEF vars, TypeOK, RowsInv
<1>2. ASSUME NEW a \in Actors, UpdateGet(a) \/ UpdatePut(a)
      PROVE  TypeOK' /\ RowsInv'
  BY <1>2, UpdateOK
<1> QED
  BY <1>1, <1>2, PassOK, SelectOK, AdminOK, EnvironmentOK DEF Next, Reconcile, Serve, Actors

LEMMA Rows == Spec => [](TypeOK /\ RowsInv)
BY InitOK, NextOK, PTL DEF Spec

\* Type correctness of the settings row, the rollout and the runs in flight.
THEOREM Types == Spec => []TypeOK
BY Rows, PTL

\* A paused row is reset, whatever older row an overlapping Update writes back,
\* for any number of replicas and admins.
THEOREM PausedReset == Spec => []PausedIsReset
<1>1. RowsInv => PausedIsReset
  BY DEF RowsInv, ResetRow, PausedIsReset
<1> QED BY <1>1, Rows, PTL

-----------------------------------------------------------------------------
(* One replica.                                                             *)

OneReplica == \E c : Controllers = {c} /\ c \notin Admins

\* The only replica begins a pass when automatic deployment is not paused and
\* alone can pause it, so during its pass nothing is; admins only unpause.
PassInv ==
    /\ \A c \in Controllers :
          /\ run[c].at # "idle" => ~settings.paused
          /\ run[c].at = "put" => ~run[c].row.paused
    /\ \A o \in Admins :
          run[o].at \in {"get", "put"} => run[o].op \in {"enable", "disable", "resume"}

\* The invariant is kept, and the only step that pauses is HandleFailure.
LEMMA PassStep ==
    ASSUME OneReplica, TypeOK, RowsInv, PassInv, [Next]_vars
    PROVE  PassInv' /\ PausedForFailure
<1> PICK c : Controllers = {c} /\ c \notin Admins
  BY DEF OneReplica
<1> c \in Actors /\ c \in Controllers /\ Admins \subseteq Actors /\ run[c] \in Run
  BY DEF Actors, TypeOK
<1>0. ASSUME NEW a \in Actors, NEW r, Goto(a, r)
      PROVE  run'[a] = r /\ \A b \in Actors \ {a} : run'[b] = run[b]
  BY <1>0 DEF Goto, TypeOK
<1>1. CASE UNCHANGED vars
  BY <1>1 DEF vars, PassInv, PausedForFailure
<1>2. ASSUME ~settings'.paused, run'[c].at # "put",
             \A o \in Admins : run'[o] = run[o]
      PROVE  PassInv' /\ PausedForFailure
  BY <1>2 DEF PassInv, PausedForFailure
<1>3. ASSUME run'[c].at = "idle", settings' = settings,
             \A o \in Admins : run'[o] = run[o]
      PROVE  PassInv' /\ PausedForFailure
  BY <1>3 DEF PassInv, PausedForFailure
<1>4. CASE UpdateGet(c)
  <2> DEFINE r == [run[c] EXCEPT !.at = "put", !.row = settings]
  <2>1. r.row = settings /\ r.at = "put"
    BY DEF Run
  <2>2. Goto(c, r) /\ ~settings.paused /\ settings' = settings
    BY <1>4 DEF UpdateGet, KeepStores, PassInv
  <2> HIDE DEF r
  <2> QED BY <1>0, <2>1, <2>2 DEF PassInv, PausedForFailure
<1>5. CASE UpdatePut(c)
  <2> DEFINE row == Apply(run[c].op, run[c].version, run[c].row)
             k == [run[c] EXCEPT !.row = row, !.op = "none", !.version = None]
             r == IF run[c].op = "seen" THEN Coalesce(k) ELSE Idle
  <2>1. run[c].op \in Ops \ {"none"} /\ run[c].version \in Version /\ run[c].row \in Settings
    BY <1>5 DEF UpdatePut, Run, RunOK, RowsInv
  <2>2. row \in Settings /\ ~row.paused
    BY <1>5, <2>1, ApplyOK DEF UpdatePut, PassInv
  <2>3. settings' = row /\ Goto(c, r)
    BY <1>5 DEF UpdatePut
  <2> HIDE DEF row
  <2>4. k \in Run
    BY <2>2 DEF Run, Ops, None, Version
  <2>5. r.at # "put"
    BY <2>4, CoalesceOK, RunsOK
  <2> HIDE DEF r
  <2> QED BY <1>0, <1>2, <2>2, <2>3, <2>5
<1>6. ASSUME NEW o \in Admins, UpdateGet(o) \/ UpdatePut(o)
      PROVE  PassInv' /\ PausedForFailure
  <2> o # c /\ run[o] \in Run
    BY DEF TypeOK
  <2>1. CASE UpdateGet(o)
    <3> DEFINE r == [run[o] EXCEPT !.at = "put", !.row = settings]
    <3>1. r.op = run[o].op /\ run[o].at = "get" /\ Goto(o, r) /\ settings' = settings
      BY <2>1 DEF UpdateGet, KeepStores, Run
    <3> HIDE DEF r
    <3> QED BY <1>0, <3>1 DEF PassInv, PausedForFailure
  <2>2. CASE UpdatePut(o)
    <3>1. run[o].op \in {"enable", "disable", "resume"} /\ run[o].version \in Version
          /\ run[o].row \in Settings
      BY <2>2 DEF UpdatePut, PassInv, Run
    <3>2. run[o].op \in Ops \ {"none"} /\ run[o].op # "seen"
      BY <3>1 DEF Ops
    <3>3. ~settings'.paused /\ Goto(o, Idle)
      BY <2>2, <3>1, <3>2, ApplyOK DEF UpdatePut
    <3> QED BY <1>0, <3>3, RunsOK DEF PassInv, PausedForFailure
  <2> QED BY <1>6, <2>1, <2>2
<1>7. CASE ReadSettings(c)
  <2> DEFINE r == [Idle EXCEPT !.at = "rollout", !.row = settings]
  <2>1. r.at = "rollout" /\ Goto(c, r) /\ ~settings'.paused
    BY <1>7 DEF ReadSettings, KeepStores, Idle
  <2> HIDE DEF r
  <2> QED BY <1>0, <1>2, <2>1
<1>8. ASSUME NEW healthy \in BOOLEAN, HandleFailure(c, healthy)
      PROVE  PassInv' /\ PausedForFailure
  <2>1. run'[c].at = "idle" /\ \A o \in Admins : run'[o] = run[o]
    BY <1>0, <1>8, RunsOK DEF HandleFailure
  <2>2. CASE rollout.number = run[c].failed /\ rollout.state = "failed"
    <3>1. settings'.handled = rollout.number
      BY <1>8, <2>2 DEF HandleFailure, AfterFailure, TypeOK, Settings
    <3> QED BY <2>1, <2>2, <3>1 DEF PassInv, PausedForFailure
  <2>3. CASE ~(rollout.number = run[c].failed /\ rollout.state = "failed")
    BY <1>3, <1>8, <2>1, <2>3 DEF HandleFailure
  <2> QED BY <2>2, <2>3
<1>9. ASSUME settings' = settings, run[c].at # "idle", NEW r, Goto(c, r), r.at # "put"
      PROVE  PassInv' /\ PausedForFailure
  <2>1. ~settings'.paused
    BY <1>9 DEF PassInv
  <2> QED BY <1>0, <1>2, <1>9, <2>1
<1>10. CASE ReadRollout(c)
  <2> DEFINE h == [Idle EXCEPT !.at = "health", !.failed = rollout.number]
             f == [run[c] EXCEPT !.at = "fetch", !.active = rollout.state = "active"]
  <2>1. h.at # "put" /\ f.at # "put"
    BY DEF Idle, Run
  <2>2. run[c].at # "idle" /\ settings' = settings /\ (Goto(c, h) \/ Goto(c, f))
    BY <1>10 DEF ReadRollout, KeepStores
  <2> HIDE DEF h, f
  <2> QED BY <1>9, <2>1, <2>2
<1>11. CASE Fetch(c)
  <2>1. run[c].at # "idle" /\ settings' = settings
    BY <1>11 DEF Fetch, KeepStores
  <2>2. Updating(run[c], "seen", published).at # "put"
    BY RunsOK DEF TypeOK, Ops
  <2>3. Goto(c, Coalesce(run[c])) \/ Goto(c, Updating(run[c], "seen", published))
    BY <1>11 DEF Fetch
  <2> QED BY <1>9, <2>1, <2>2, <2>3, CoalesceOK
<1>12. run[c].version \in Version
  BY DEF Run
<1>13. \A op \in {"known", "admitted", "rejected"} :
          Updating(run[c], op, run[c].version).at # "put"
  BY <1>12, RunsOK DEF Ops
<1>14. CASE CheckKnown(c)
  <2> DEFINE k == [run[c] EXCEPT !.at = "select"]
  <2>1. k.at # "put"
    BY DEF Run
  <2>2. Goto(c, k) \/ Goto(c, Updating(run[c], "known", run[c].version))
    BY <1>14 DEF CheckKnown
  <2>3. run[c].at # "idle" /\ settings' = settings
    BY <1>14 DEF CheckKnown, KeepStores
  <2> HIDE DEF k
  <2> QED BY <1>9, <1>13, <2>1, <2>2, <2>3
<1>15. CASE Select(c) \/ SelectRejected(c)
  <2>1. run[c].at # "idle" /\ settings' = settings
    BY <1>15 DEF Select, SelectRejected
  <2>2. \/ Goto(c, Idle)
        \/ \E op \in {"admitted", "rejected"} : Goto(c, Updating(run[c], op, run[c].version))
    BY <1>15 DEF Select, SelectRejected
  <2> QED BY <1>9, <1>13, <2>1, <2>2, RunsOK
<1>16. CASE SelectAppendFails(c) \/ CallFails(c) \/ Restart(c)
  <2>1. Goto(c, Idle) /\ settings' = settings
    BY <1>16 DEF SelectAppendFails, CallFails, Restart, KeepStores
  <2> QED BY <1>0, <1>3, <2>1, RunsOK
<1>17. ASSUME NEW o \in Admins, NEW r, Goto(o, r), settings' = settings,
              r.at \in {"get", "put"} => r.op \in {"enable", "disable", "resume"}
       PROVE  PassInv' /\ PausedForFailure
  BY <1>0, <1>17 DEF PassInv, PausedForFailure
<1>18. \A op \in {"enable", "disable", "resume"} : Updating(Idle, op, None).op = op
  BY RunsOK DEF Ops, None, Version
<1>19. ASSUME NEW o \in Admins,
              Retried(o) \/ CallFails(o) \/ \E op \in {"enable", "disable"} : Toggle(o, op)
       PROVE  PassInv' /\ PausedForFailure
  <2>1. settings' = settings
    BY <1>19 DEF Retried, CallFails, Toggle, KeepStores
  <2>2. \/ Goto(o, Idle)
        \/ \E op \in {"enable", "disable", "resume"} : Goto(o, Updating(Idle, op, None))
    BY <1>19 DEF Retried, CallFails, Toggle
  <2> QED BY <1>17, <1>18, <2>1, <2>2, RunsOK
<1>20. ASSUME NEW o \in Admins, NEW v, SelectVersion(o, v)
       PROVE  PassInv' /\ PausedForFailure
  <2> DEFINE k == [Idle EXCEPT !.at = "retried"]
  <2>1. k.at = "retried"
    BY DEF Idle
  <2>2. settings' = settings /\ (Goto(o, k) \/ Goto(o, Idle))
    BY <1>20 DEF SelectVersion
  <2> HIDE DEF k
  <2> QED BY <1>17, <2>1, <2>2, RunsOK
<1>21. CASE Publish \/ \E state \in {"complete", "failed"} : EndRollout(state)
  BY <1>21 DEF Publish, EndRollout, PassInv, PausedForFailure
<1> QED
  BY <1>1, <1>4, <1>5, <1>6, <1>7, <1>8, <1>10, <1>11, <1>14, <1>15, <1>16, <1>19, <1>20, <1>21
     DEF Next, Reconcile, Serve

\* In a fleet of one replica a pause is always for the current rollout's
\* failure: no write-back of an older row pauses a newer manual retry.
THEOREM PauseIsForFailure == OneReplica => (Spec => [][PausedForFailure]_vars)
<1> SUFFICES ASSUME OneReplica PROVE Spec => [][PausedForFailure]_vars
  OBVIOUS
<1>1. Init => PassInv
  BY RunsOK DEF Init, PassInv, Actors
<1>2. TypeOK /\ RowsInv /\ PassInv /\ [Next]_vars => PassInv' /\ PausedForFailure
  BY PassStep
<1> QED BY <1>1, <1>2, Rows, PTL DEF Spec

=============================================================================
