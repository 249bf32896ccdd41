---------------------------- MODULE InstallLock ----------------------------
(***************************************************************************)
(* The fleet-wide install admission lock of one app                        *)
(* (gestaltd/internal/coredata/app_version_install_locks.go) and the two    *)
(* callers that take it: Installer.install                                  *)
(* (gestaltd/internal/appregistry/installer.go) and the retention prune     *)
(* command (gestaltd/internal/daemon/app_registry_retention.go).            *)
(*                                                                          *)
(* The lock is one row of an IndexedDB object store, keyed by the app.      *)
(* Every store call (GetAll, Add, Get, Put, Delete) is atomic; Acquire and  *)
(* Release are not: each is a sequence of such calls, and the calls of two  *)
(* attempts interleave.  One action below is one store call together with   *)
(* the local decisions the code takes on its answer.  Both callers draw a   *)
(* fresh uuid as holder and call Acquire once, so the branches in which the *)
(* row already names the caller are never taken and are left out.           *)
(***************************************************************************)
EXTENDS Integers, FiniteSets

CONSTANTS
    Attempts,      \* calls of install or prune: each draws a fresh uuid as holder
    Pruners,       \* the attempts that are prune commands; they have no work timeout
    AppKey,        \* the primary key of the app-scoped row
    LegacyKeys,    \* keys of version-scoped rows left by older binaries
    LegacyHolder,  \* the holder recorded in those rows
    NoRow,         \* a key with no row
    TTL,           \* DefaultAppVersionInstallLockTTL
    Buffer,        \* installWorkTimeoutBuffer
    MaxDelay,      \* longest time Acquire, or the tail after the work, may take
    MaxTime,       \* bound on the clock
    CanCrash       \* TRUE if a process may die between two store calls

Keys == {AppKey} \cup LegacyKeys
Row == [holder : Attempts \cup {LegacyHolder}, expires : Nat]

ASSUME ConstantsAssumption ==
    /\ Pruners \subseteq Attempts
    /\ AppKey \notin LegacyKeys
    /\ LegacyHolder \notin Attempts
    /\ NoRow \notin Row /\ NoRow \notin Attempts
    /\ TTL \in Nat /\ Buffer \in Nat /\ Buffer < TTL
    /\ MaxDelay \in Nat /\ MaxTime \in Nat
    /\ CanCrash \in BOOLEAN

VARIABLES
    clock,      \* wall clock, shared by the fleet
    rows,       \* the object store app_version_install_locks
    pc,         \* the store call each attempt makes next
    started,    \* Acquire's local `now`, read once
    listed,     \* the rows of GetAll not yet visited by clearStaleAndCheckAppLocks
    workUntil,  \* when installCtx expires
    tailFrom    \* when the bounded work ended

vars == <<clock, rows, pc, started, listed, workUntil, tailFrom>>

Listing == [key : Keys, holder : Attempts \cup {LegacyHolder}, expires : Nat]

Acquiring == {"list", "clear", "get", "addGone", "deleteStale", "addDeleted"}
Critical == {"working", "mirroring"}
Releasing == {"releaseGet", "releaseDelete"}
Ended == {"rejected", "released", "crashed"}

TypeOK ==
    /\ clock \in Nat
    /\ rows \in [Keys -> Row \cup {NoRow}]
    /\ pc \in [Attempts -> {"idle"} \cup Acquiring \cup Critical \cup Releasing \cup Ended]
    /\ started \in [Attempts -> Nat]
    /\ listed \in [Attempts -> SUBSET Listing]
    /\ workUntil \in [Attempts -> Nat]
    /\ tailFrom \in [Attempts -> Nat]

\* A database of the new binary: no app-scoped row, version-scoped rows of
\* older binaries that expire at any time within one TTL.
Init ==
    /\ clock = 0
    /\ rows \in {r \in [Keys -> {NoRow} \cup [holder : {LegacyHolder}, expires : 0 .. TTL]] :
                    r[AppKey] = NoRow}
    /\ pc = [a \in Attempts |-> "idle"]
    /\ started = [a \in Attempts |-> 0]
    /\ listed = [a \in Attempts |-> {}]
    /\ workUntil = [a \in Attempts |-> 0]
    /\ tailFrom = [a \in Attempts |-> 0]

-----------------------------------------------------------------------------
(* Rows and time.                                                           *)

\* Faulty variants of Stale: expiry ignored either way.
StaleAlways(expires, a) == expires \in Nat /\ a \in Attempts
StaleNever(expires, a) == expires \notin Nat /\ a \in Attempts

\* !ExpiresAt.After(now), with the `now` the attempt read when it started.
Stale(expires, a) == expires <= started[a]

\* Faulty variant: the TTL subtracted.
LockRowBackdated(a) == [holder |-> a, expires |-> started[a] - TTL]

\* The row Acquire writes: its expiry counts from the start of Acquire.
LockRow(a) == [holder |-> a, expires |-> started[a] + TTL]

Goto(a, label) == pc' = [pc EXCEPT ![a] = label]

Delete(key) == rows' = [rows EXCEPT ![key] = NoRow]

\* Faulty variant: the work timeout is the whole TTL.
StartWorkNoBuffer(a) ==
    /\ Goto(a, "working")
    /\ workUntil' = [workUntil EXCEPT ![a] = clock + TTL]

\* installWorkTimeout: installCtx starts when Acquire has returned.
StartWork(a) ==
    /\ Goto(a, "working")
    /\ workUntil' = [workUntil EXCEPT ![a] = clock + TTL - Buffer]

\* Faulty variant: Put where the code has Add.
TryPut(a, onExists) ==
    /\ onExists \in {"get", "rejected"}
    /\ rows' = [rows EXCEPT ![AppKey] = LockRow(a)]
    /\ StartWork(a)

\* tryAddLock: store.Add fails when the key exists.
TryAdd(a, onExists) ==
    \/ /\ rows[AppKey] = NoRow
       /\ rows' = [rows EXCEPT ![AppKey] = LockRow(a)]
       /\ StartWork(a)
    \/ /\ rows[AppKey] # NoRow
       /\ Goto(a, onExists)
       /\ UNCHANGED <<rows, workUntil>>

-----------------------------------------------------------------------------
(* Acquire.                                                                 *)

Begin(a) ==
    /\ pc[a] = "idle"
    /\ started' = [started EXCEPT ![a] = clock]
    /\ Goto(a, "list")
    /\ UNCHANGED <<clock, rows, listed, workUntil, tailFrom>>

\* Faulty variant: only the app-scoped row is read.
ListOwnKey(a) ==
    /\ pc[a] = "list"
    /\ listed' = [listed EXCEPT ![a] =
           {[key |-> k, holder |-> rows[k].holder, expires |-> rows[k].expires] :
               k \in {j \in {AppKey} : rows[j] # NoRow}}]
    /\ Goto(a, "clear")
    /\ UNCHANGED <<clock, rows, started, workUntil, tailFrom>>

\* clearStaleAndCheckAppLocks reads every row of the app at once ...
List(a) ==
    /\ pc[a] = "list"
    /\ listed' = [listed EXCEPT ![a] =
           {[key |-> k, holder |-> rows[k].holder, expires |-> rows[k].expires] :
               k \in {j \in Keys : rows[j] # NoRow}}]
    /\ Goto(a, "clear")
    /\ UNCHANGED <<clock, rows, started, workUntil, tailFrom>>

\* ... and deletes, one call at a time and by key alone, those that had expired.
ClearStale(a) ==
    /\ pc[a] = "clear"
    /\ \E r \in listed[a] :
          /\ Stale(r.expires, a)
          /\ Delete(r.key)
          /\ listed' = [listed EXCEPT ![a] = @ \ {r}]
    /\ UNCHANGED <<clock, pc, started, workUntil, tailFrom>>

\* An unexpired row ends Acquire with ErrAppVersionInstallLockHeld.
FindHeld(a) ==
    /\ pc[a] = "clear"
    /\ \E r \in listed[a] : ~Stale(r.expires, a)
    /\ Goto(a, "rejected")
    /\ UNCHANGED <<clock, rows, started, listed, workUntil, tailFrom>>

Add(a) ==
    /\ pc[a] = "clear"
    /\ listed[a] = {}
    /\ TryAdd(a, "get")
    /\ UNCHANGED <<clock, started, listed, tailFrom>>

\* The key existed: look at the row that won.
GetExisting(a) ==
    /\ pc[a] = "get"
    /\ \/ /\ rows[AppKey] = NoRow
          /\ Goto(a, "addGone")
       \/ /\ rows[AppKey] # NoRow
          /\ ~Stale(rows[AppKey].expires, a)
          /\ Goto(a, "rejected")
       \/ /\ rows[AppKey] # NoRow
          /\ Stale(rows[AppKey].expires, a)
          /\ Goto(a, "deleteStale")
    /\ UNCHANGED <<clock, rows, started, listed, workUntil, tailFrom>>

AddGone(a) ==
    /\ pc[a] = "addGone"
    /\ TryAdd(a, "rejected")
    /\ UNCHANGED <<clock, started, listed, tailFrom>>

DeleteStale(a) ==
    /\ pc[a] = "deleteStale"
    /\ Delete(AppKey)
    /\ Goto(a, "addDeleted")
    /\ UNCHANGED <<clock, started, listed, workUntil, tailFrom>>

AddDeleted(a) ==
    /\ pc[a] = "addDeleted"
    /\ TryAdd(a, "rejected")
    /\ UNCHANGED <<clock, started, listed, tailFrom>>

-----------------------------------------------------------------------------
(* The work done under the lock, and Release.                               *)

\* The bounded part ends: admitted (the retention mirror follows), or refused,
\* failed or timed out (Release follows).  A prune has no mirror.
EndWork(a) ==
    /\ pc[a] = "working"
    /\ \/ a \notin Pruners /\ Goto(a, "mirroring")
       \/ Goto(a, "releaseGet")
    /\ tailFrom' = [tailFrom EXCEPT ![a] = clock]
    /\ UNCHANGED <<clock, rows, started, listed, workUntil>>

\* mirrorRetentionTransition runs under context.WithoutCancel: no timeout.
EndMirror(a) ==
    /\ pc[a] = "mirroring"
    /\ Goto(a, "releaseGet")
    /\ UNCHANGED <<clock, rows, started, listed, workUntil, tailFrom>>

ReleaseGet(a) ==
    /\ pc[a] = "releaseGet"
    /\ \/ /\ rows[AppKey] # NoRow
          /\ rows[AppKey].holder = a
          /\ Goto(a, "releaseDelete")
       \/ /\ rows[AppKey] # NoRow => rows[AppKey].holder # a
          /\ Goto(a, "released")
    /\ UNCHANGED <<clock, rows, started, listed, workUntil, tailFrom>>

\* Like the deletions of Acquire, this one names the key, not the holder.
ReleaseDelete(a) ==
    /\ pc[a] = "releaseDelete"
    /\ Delete(AppKey)
    /\ Goto(a, "released")
    /\ UNCHANGED <<clock, started, listed, workUntil, tailFrom>>

-----------------------------------------------------------------------------
(* The environment.                                                         *)

Crash(a) ==
    /\ CanCrash
    /\ pc[a] \notin {"idle"} \cup Ended
    /\ Goto(a, "crashed")
    /\ UNCHANGED <<clock, rows, started, listed, workUntil, tailFrom>>

\* Time passes unless it would carry an attempt past a bound: installCtx ends
\* the bounded work of an install, and MaxDelay bounds everything else.
MayWait(a) ==
    /\ pc[a] \in Acquiring => clock < started[a] + MaxDelay
    /\ pc[a] = "working" /\ a \notin Pruners => clock < workUntil[a]
    /\ pc[a] \in Releasing \cup {"mirroring"} => clock < tailFrom[a] + MaxDelay

Tick ==
    /\ clock < MaxTime
    /\ \A a \in Attempts : MayWait(a)
    /\ clock' = clock + 1
    /\ UNCHANGED <<rows, pc, started, listed, workUntil, tailFrom>>

Step(a) ==
    \/ List(a) \/ ClearStale(a) \/ FindHeld(a) \/ Add(a)
    \/ GetExisting(a) \/ AddGone(a) \/ DeleteStale(a) \/ AddDeleted(a)
    \/ EndWork(a) \/ EndMirror(a) \/ ReleaseGet(a) \/ ReleaseDelete(a)

Next ==
    \/ \E a \in Attempts : Begin(a) \/ Step(a) \/ Crash(a)
    \/ Tick

Spec == Init /\ [][Next]_vars

\* A live process keeps running: the goroutine of an attempt is scheduled.
FairSpec == Spec /\ \A a \in Attempts : WF_vars(Step(a))

-----------------------------------------------------------------------------
(* Properties.                                                              *)

\* Install work is bounded and no process dies: then, if Acquire and the tail
\* (retention mirror and Release) together fit strictly inside the buffer, the
\* lock row outlives the attempt that wrote it.
Timely == ~CanCrash /\ Pruners = {} /\ 2 * MaxDelay < Buffer

\* Attempts that have taken the lock and not yet released it.
Holding == Critical \cup Releasing

\* Two attempts never hold the app's install lock at once (Acquire's Add is the
\* only way in; the deletions of stale rows and Release must never open a second).
MutualExclusion ==
    \A a, b \in Attempts : pc[a] \in Critical /\ pc[b] \in Critical => a = b

\* Install work, the retention mirror included, stays inside the lock's own
\* TTL (what installWorkTimeoutBuffer is for).
WorkInsideTTL ==
    \A a \in Attempts \ Pruners : pc[a] \in Critical => clock < started[a] + TTL

\* clearStaleAndCheckAppLocks keeps admission out while a version-scoped row of
\* an older binary was unexpired when the attempt started.
LegacyRowsRespected ==
    \A a \in Attempts, k \in LegacyKeys :
        pc[a] \in Critical /\ rows[k] # NoRow => rows[k].expires <= started[a]

\* The lock row implements the abstract mutex: its holder is the owner.
owner == IF rows[AppKey] = NoRow THEN NoRow ELSE rows[AppKey].holder

Mutex == INSTANCE AdmissionMutex WITH Attempts <- Attempts, Free <- NoRow, owner <- owner

\* No store call of any attempt moves the lock from one attempt to another or
\* takes it from an attempt that still owns it: only a free app is taken and
\* only Release by the owner frees it.
ImplementsMutex == Mutex!Spec

\* The inductive invariant behind the three properties above, for a timely
\* fleet: bounds on every phase, the row of the app is exactly the row of the
\* one attempt that holds the lock, and no attempt has seen that row as stale.
PhaseBounds ==
    \A a \in Attempts :
        /\ started[a] <= clock
        /\ pc[a] \in Acquiring => clock <= started[a] + MaxDelay
        /\ pc[a] = "working" => /\ clock <= workUntil[a]
                                /\ workUntil[a] <= started[a] + MaxDelay + TTL - Buffer
        /\ pc[a] \in Releasing \cup {"mirroring"} =>
              /\ clock <= tailFrom[a] + MaxDelay
              /\ tailFrom[a] <= started[a] + MaxDelay + TTL - Buffer

RowIsHolders ==
    /\ \A a \in Attempts : pc[a] \in Holding => rows[AppKey] = LockRow(a)
    /\ rows[AppKey] # NoRow => \E a \in Attempts : pc[a] \in Holding

NeverSeenStale ==
    \A a \in Attempts :
        /\ pc[a] \notin {"deleteStale", "addDeleted"}
        /\ pc[a] = "clear" =>
              \A r \in listed[a] : r.key = AppKey => ~Stale(r.expires, a)

LockInvariant == TypeOK /\ PhaseBounds /\ RowIsHolders /\ NeverSeenStale

\* A lock whose holder died does not block installs for ever: an attempt that
\* starts when every row has expired leads to the lock being taken (by it or by
\* a competitor), unless it dies itself.
ExpiredLockIsTaken ==
    \A a \in Attempts :
        (pc[a] = "list" /\ \A k \in Keys : rows[k] # NoRow => rows[k].expires <= started[a])
            ~> (pc[a] = "crashed" \/ \E b \in Attempts : pc[b] \in Critical)

=============================================================================
