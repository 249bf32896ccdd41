------------------------- MODULE InstallLockProofs -------------------------
(***************************************************************************)
(* Proofs about InstallLock for any number of attempts and legacy rows and  *)
(* any TTL, buffer, delay and time bound.  Exclusion assumes a timely       *)
(* fleet (Timely), since the violations found without it are real; that     *)
(* rows of the old format are respected does not.                           *)
(***************************************************************************)
EXTENDS InstallLock, TLAPS

\* Every store call and every tick of the clock keeps the types.
LEMMA TypeStep == TypeOK /\ [Next]_vars => TypeOK'
<1> SUFFICES ASSUME TypeOK, [Next]_vars PROVE TypeOK'
  OBVIOUS
<1> USE ConstantsAssumption DEF TypeOK, Acquiring, Critical, Releasing, Ended
<1>1. ASSUME NEW a \in Attempts, Begin(a) PROVE TypeOK'
  BY <1>1 DEF Begin, Goto
<1>2. ASSUME NEW a \in Attempts, List(a) PROVE TypeOK'
  <2>1. {[key |-> k, holder |-> rows[k].holder, expires |-> rows[k].expires] :
             k \in {j \in Keys : rows[j] # NoRow}} \in SUBSET Listing
    BY DEF Listing, Row
  <2> QED BY <1>2, <2>1 DEF List, Goto
<1>3. ASSUME NEW a \in Attempts, ClearStale(a) PROVE TypeOK'
  BY <1>3 DEF ClearStale, Delete, Listing
<1>4. ASSUME NEW a \in Attempts, FindHeld(a) PROVE TypeOK'
  BY <1>4 DEF FindHeld, Goto
<1>5. ASSUME NEW a \in Attempts, NEW label \in {"get", "rejected"}, TryAdd(a, label),
             UNCHANGED <<clock, started, listed, tailFrom>>
      PROVE TypeOK'
  <2>1. LockRow(a) \in Row
    BY DEF LockRow, Row
  <2> QED BY <1>5, <2>1 DEF TryAdd, StartWork, Goto, Keys
<1>6. ASSUME NEW a \in Attempts, Add(a) \/ AddGone(a) \/ AddDeleted(a) PROVE TypeOK'
  BY <1>5, <1>6 DEF Add, AddGone, AddDeleted
<1>7. ASSUME NEW a \in Attempts, GetExisting(a) PROVE TypeOK'
  BY <1>7 DEF GetExisting, Goto
<1>8. ASSUME NEW a \in Attempts, DeleteStale(a) \/ ReleaseDelete(a) PROVE TypeOK'
  BY <1>8 DEF DeleteStale, ReleaseDelete, Delete, Goto, Keys
<1>9. ASSUME NEW a \in Attempts, EndWork(a) \/ EndMirror(a) \/ ReleaseGet(a) \/ Crash(a)
      PROVE TypeOK'
  BY <1>9 DEF EndWork, EndMirror, ReleaseGet, Crash, Goto
<1>10. CASE Tick
  BY <1>10 DEF Tick
<1>11. CASE UNCHANGED vars
  BY <1>11 DEF vars
<1> QED BY <1>1, <1>2, <1>3, <1>4, <1>6, <1>7, <1>8, <1>9, <1>10, <1>11 DEF Next, Step

\* Whatever the timing and the crashes, every variable keeps its type.
THEOREM TypeCorrect == Spec => []TypeOK
<1>1. Init => TypeOK
  BY ConstantsAssumption DEF Init, TypeOK, Row, Keys, Listing
<1> QED BY <1>1, TypeStep, PTL DEF Spec

-----------------------------------------------------------------------------
(* The timely fleet.                                                        *)

\* In a timely fleet a lock row is never stale while its attempt holds the
\* lock: the phases of install fit inside the TTL.
LEMMA HeldRowUnexpired ==
    ASSUME Timely, TypeOK, PhaseBounds, NEW a \in Attempts, pc[a] \in Holding
    PROVE clock < started[a] + TTL
<1> USE ConstantsAssumption DEF Timely, TypeOK, PhaseBounds
<1>1. CASE pc[a] = "working"
  BY <1>1
<1>2. CASE pc[a] \in Releasing \cup {"mirroring"}
  BY <1>2
<1> QED BY <1>1, <1>2 DEF Holding, Critical

\* The invariant holds at the start: no attempt has begun, no row for the app.
LEMMA LockInvariantInit == Init => LockInvariant
<1> SUFFICES ASSUME Init PROVE LockInvariant
  OBVIOUS
<1>1. TypeOK
  BY ConstantsAssumption DEF Init, TypeOK, Row, Keys, Listing
<1>2. PhaseBounds
  BY DEF Init, PhaseBounds, Acquiring, Releasing
<1>3. RowIsHolders
  BY DEF Init, RowIsHolders, Holding, Critical, Releasing
<1>4. NeverSeenStale
  BY DEF Init, NeverSeenStale
<1> QED BY <1>1, <1>2, <1>3, <1>4 DEF LockInvariant

\* Every phase bound is kept: Tick waits for them, and each phase starts
\* inside the bound of the one before.
LEMMA PhaseBoundsStep ==
    ASSUME Timely, TypeOK, TypeOK', PhaseBounds, [Next]_vars
    PROVE PhaseBounds'
<1> USE ConstantsAssumption DEF TypeOK, PhaseBounds, Acquiring, Releasing, Timely
<1>1. ASSUME NEW a \in Attempts, Begin(a) PROVE PhaseBounds'
  BY <1>1 DEF Begin, Goto
<1>2. ASSUME NEW a \in Attempts, List(a) \/ ClearStale(a) \/ FindHeld(a) PROVE PhaseBounds'
  BY <1>2 DEF List, ClearStale, FindHeld, Goto
<1>3. ASSUME NEW a \in Attempts, Add(a) \/ AddGone(a) \/ AddDeleted(a) PROVE PhaseBounds'
  BY <1>3 DEF Add, AddGone, AddDeleted, TryAdd, StartWork, Goto
<1>4. ASSUME NEW a \in Attempts, GetExisting(a) \/ DeleteStale(a) PROVE PhaseBounds'
  BY <1>4 DEF GetExisting, DeleteStale, Goto
<1>5. ASSUME NEW a \in Attempts, EndWork(a) PROVE PhaseBounds'
  BY <1>5 DEF EndWork, Goto
<1>6. ASSUME NEW a \in Attempts, EndMirror(a) \/ ReleaseGet(a) \/ ReleaseDelete(a)
      PROVE PhaseBounds'
  BY <1>6 DEF EndMirror, ReleaseGet, ReleaseDelete, Goto
<1>7. CASE Tick
  BY <1>7 DEF Tick, MayWait
<1>8. CASE UNCHANGED vars
  BY <1>8 DEF vars
<1>9. ASSUME NEW a \in Attempts, Crash(a) PROVE PhaseBounds'
  BY <1>9 DEF Crash
<1> QED BY <1>1, <1>2, <1>3, <1>4, <1>5, <1>6, <1>7, <1>8, <1>9 DEF Next, Step

\* No attempt ever sees the app's row as stale: a listed row belongs to an
\* attempt that still holds the lock, so it expires after the reader's clock.
LEMMA NeverSeenStaleStep ==
    ASSUME Timely, LockInvariant, [Next]_vars
    PROVE NeverSeenStale'
<1>1. ASSUME NEW a \in Attempts, rows[AppKey] # NoRow
      PROVE /\ rows[AppKey].expires > started[a]
            /\ rows[AppKey].expires \in Nat
  <2>1. PICK b \in Attempts : pc[b] \in Holding
    BY <1>1 DEF LockInvariant, RowIsHolders
  <2>2. rows[AppKey].expires = started[b] + TTL
    <3>1. rows[AppKey] = LockRow(b)
      BY <2>1 DEF LockInvariant, RowIsHolders
    <3> QED BY <3>1 DEF LockRow
  <2>3. clock < started[b] + TTL
    BY <2>1, HeldRowUnexpired DEF LockInvariant
  <2> QED BY <2>2, <2>3, ConstantsAssumption DEF LockInvariant, PhaseBounds, TypeOK
<1> USE ConstantsAssumption DEF LockInvariant, TypeOK, NeverSeenStale, Stale
<1>2. ASSUME NEW a \in Attempts, Begin(a) PROVE NeverSeenStale'
  BY <1>2 DEF Begin, Goto
<1>3. ASSUME NEW a \in Attempts, List(a) PROVE NeverSeenStale'
  <2>1. \A r \in listed'[a] : r.key = AppKey => ~(r.expires <= started[a])
    BY <1>1, <1>3 DEF List
  <2> QED BY <1>3, <2>1 DEF List, Goto
<1>4. ASSUME NEW a \in Attempts, ClearStale(a) \/ FindHeld(a) PROVE NeverSeenStale'
  BY <1>4 DEF ClearStale, FindHeld, Goto
<1>5. ASSUME NEW a \in Attempts, Add(a) \/ AddGone(a) \/ AddDeleted(a) PROVE NeverSeenStale'
  BY <1>5 DEF Add, AddGone, AddDeleted, TryAdd, StartWork, Goto
<1>6. ASSUME NEW a \in Attempts, GetExisting(a) PROVE NeverSeenStale'
  <2>1. pc'[a] \in {"addGone", "rejected"}
    BY <1>1, <1>6 DEF GetExisting, Goto
  <2> QED BY <1>6, <2>1 DEF GetExisting, Goto
<1>7. ASSUME NEW a \in Attempts, DeleteStale(a) PROVE NeverSeenStale'
  BY <1>7 DEF DeleteStale
<1>8. ASSUME NEW a \in Attempts,
             EndWork(a) \/ EndMirror(a) \/ ReleaseGet(a) \/ ReleaseDelete(a) \/ Crash(a)
      PROVE NeverSeenStale'
  BY <1>8 DEF EndWork, EndMirror, ReleaseGet, ReleaseDelete, Crash, Goto
<1>9. CASE Tick \/ UNCHANGED vars
  BY <1>9 DEF Tick, vars
<1> QED BY <1>2, <1>3, <1>4, <1>5, <1>6, <1>7, <1>8, <1>9 DEF Next, Step

\* The app's row is written only by an attempt that finds none, and removed
\* only by the attempt that wrote it.
LEMMA RowIsHoldersStep ==
    ASSUME Timely, LockInvariant, [Next]_vars
    PROVE RowIsHolders'
<1> USE ConstantsAssumption
    DEF LockInvariant, TypeOK, RowIsHolders, Holding, Critical, Releasing, LockRow, Keys
<1>1. ASSUME NEW a \in Attempts, Begin(a) PROVE RowIsHolders'
  BY <1>1 DEF Begin, Goto
<1>2. ASSUME NEW a \in Attempts, List(a) \/ FindHeld(a) PROVE RowIsHolders'
  BY <1>2 DEF List, FindHeld, Goto
<1>3. ASSUME NEW a \in Attempts, ClearStale(a) PROVE RowIsHolders'
  <2>1. rows'[AppKey] = rows[AppKey]
    BY <1>3 DEF ClearStale, Delete, NeverSeenStale, Listing
  <2> QED BY <1>3, <2>1 DEF ClearStale
<1>4. ASSUME NEW a \in Attempts, Add(a) \/ AddGone(a) \/ AddDeleted(a) PROVE RowIsHolders'
  <2>1. LockRow(a) \in Row /\ LockRow(a) # NoRow
    BY DEF Row
  <2>2. \E label \in {"get", "rejected"} : TryAdd(a, label)
    BY <1>4 DEF Add, AddGone, AddDeleted
  <2>3. UNCHANGED started /\ pc[a] \notin Holding
    BY <1>4 DEF Add, AddGone, AddDeleted
  <2>4. CASE rows[AppKey] = NoRow
    <3>1. \A b \in Attempts : pc[b] \notin Holding
      <4> SUFFICES ASSUME NEW b \in Attempts, pc[b] \in Holding PROVE FALSE
        OBVIOUS
      <4>1. LockRow(b) \in Row
        BY DEF Row
      <4> QED BY <2>4, <4>1
    <3> QED BY <2>1, <2>2, <2>3, <2>4, <3>1 DEF TryAdd, StartWork, Goto
  <2>5. CASE rows[AppKey] # NoRow
    BY <2>2, <2>3, <2>5 DEF TryAdd, Goto
  <2> QED BY <2>4, <2>5
<1>5. ASSUME NEW a \in Attempts, GetExisting(a) PROVE RowIsHolders'
  BY <1>5 DEF GetExisting, Goto
<1>6. ASSUME NEW a \in Attempts, DeleteStale(a) PROVE RowIsHolders'
  BY <1>6 DEF DeleteStale, NeverSeenStale
<1>7. ASSUME NEW a \in Attempts, EndWork(a) \/ EndMirror(a) PROVE RowIsHolders'
  BY <1>7 DEF EndWork, EndMirror, Goto
<1>8. ASSUME NEW a \in Attempts, ReleaseGet(a) PROVE RowIsHolders'
  BY <1>8 DEF ReleaseGet, Goto, Row
<1>9. ASSUME NEW a \in Attempts, ReleaseDelete(a) PROVE RowIsHolders'
  <2>1. \A b \in Attempts : pc[b] \in Holding => b = a
    BY <1>9 DEF ReleaseDelete
  <2> QED BY <1>9, <2>1 DEF ReleaseDelete, Delete, Goto
<1>10. ASSUME NEW a \in Attempts, Crash(a) PROVE RowIsHolders'
  BY <1>10 DEF Crash, Timely
<1>11. CASE Tick \/ UNCHANGED vars
  BY <1>11 DEF Tick, vars
<1> QED BY <1>1, <1>2, <1>3, <1>4, <1>5, <1>6, <1>7, <1>8, <1>9, <1>10, <1>11 DEF Next, Step

\* LockInvariant is inductive in a timely fleet.
THEOREM LockInvariantHolds == Timely => (Spec => []LockInvariant)
<1>1. ASSUME Timely PROVE LockInvariant /\ [Next]_vars => LockInvariant'
  <2> SUFFICES ASSUME LockInvariant, [Next]_vars PROVE LockInvariant'
    OBVIOUS
  <2>1. TypeOK'
    BY TypeStep DEF LockInvariant
  <2>2. PhaseBounds'
    BY <1>1, <2>1, PhaseBoundsStep DEF LockInvariant
  <2>3. RowIsHolders'
    BY <1>1, RowIsHoldersStep
  <2>4. NeverSeenStale'
    BY <1>1, NeverSeenStaleStep
  <2> QED BY <2>1, <2>2, <2>3, <2>4 DEF LockInvariant
<1>2. CASE Timely
  BY <1>1, <1>2, LockInvariantInit, PTL DEF Spec
<1> QED BY <1>2

\* In a timely fleet no two attempts hold the install lock of an app at once.
THEOREM MutualExclusionHolds == Timely => (Spec => []MutualExclusion)
<1>1. LockInvariant => MutualExclusion
  <2> SUFFICES ASSUME LockInvariant, NEW a \in Attempts, NEW b \in Attempts,
                      pc[a] \in Critical, pc[b] \in Critical
               PROVE a = b
    BY DEF MutualExclusion
  <2>1. LockRow(a) = LockRow(b)
    BY DEF LockInvariant, RowIsHolders, Holding
  <2> QED BY <2>1 DEF LockRow
<1> QED BY <1>1, LockInvariantHolds, PTL

\* In a timely fleet install work ends before its lock row expires.
THEOREM WorkInsideTTLHolds == Timely => (Spec => []WorkInsideTTL)
<1> SUFFICES ASSUME Timely PROVE Spec => []WorkInsideTTL
  OBVIOUS
<1>1. LockInvariant => WorkInsideTTL
  BY HeldRowUnexpired DEF WorkInsideTTL, LockInvariant, Holding
<1> QED BY <1>1, LockInvariantHolds, PTL

\* In a timely fleet the lock row implements the abstract mutex: every store
\* call of every attempt takes a free lock, gives back the caller's own, or
\* leaves the lock alone.
THEOREM ImplementsMutexHolds == Timely => (Spec => ImplementsMutex)
<1> SUFFICES ASSUME Timely PROVE Spec => ImplementsMutex
  OBVIOUS
<1>1. Init => Mutex!Init
  BY DEF Init, Mutex!Init, owner
<1>2. LockInvariant /\ [Next]_vars => [Mutex!Next]_owner
  <2> SUFFICES ASSUME LockInvariant, [Next]_vars PROVE Mutex!Next \/ owner' = owner
    BY DEF owner
  <2> USE ConstantsAssumption DEF LockInvariant, TypeOK, owner
  <2>1. ASSUME NEW a \in Attempts, ClearStale(a) PROVE owner' = owner
    BY <2>1 DEF ClearStale, Delete, NeverSeenStale, Listing, Stale, Keys
  <2>2. ASSUME NEW a \in Attempts, NEW label, TryAdd(a, label)
        PROVE Mutex!Take(a) \/ owner' = owner
    <3>1. LockRow(a) \in Row
      BY DEF LockRow, Row
    <3>2. LockRow(a).holder = a
      BY DEF LockRow
    <3> QED BY <2>2, <3>1, <3>2 DEF TryAdd, Mutex!Take, Keys
  <2>3. ASSUME NEW a \in Attempts, Add(a) \/ AddGone(a) \/ AddDeleted(a)
        PROVE Mutex!Take(a) \/ owner' = owner
    BY <2>2, <2>3 DEF Add, AddGone, AddDeleted
  <2>4. ASSUME NEW a \in Attempts, DeleteStale(a) PROVE FALSE
    BY <2>4 DEF DeleteStale, NeverSeenStale
  <2>5. ASSUME NEW a \in Attempts, ReleaseDelete(a) PROVE Mutex!GiveBack(a)
    <3>1. rows[AppKey] = LockRow(a) /\ LockRow(a) \in Row /\ LockRow(a).holder = a
      BY <2>5 DEF ReleaseDelete, RowIsHolders, Holding, Releasing, LockRow, Row
    <3> QED BY <2>5, <3>1 DEF ReleaseDelete, Delete, Mutex!GiveBack, Keys
  <2>6. ASSUME NEW a \in Attempts,
               \/ Begin(a) \/ List(a) \/ FindHeld(a) \/ GetExisting(a)
               \/ EndWork(a) \/ EndMirror(a) \/ ReleaseGet(a) \/ Crash(a)
        PROVE owner' = owner
    BY <2>6 DEF Begin, List, FindHeld, GetExisting, EndWork, EndMirror, ReleaseGet, Crash
  <2>7. CASE Tick \/ UNCHANGED vars
    BY <2>7 DEF Tick, vars
  <2> QED BY <2>1, <2>3, <2>4, <2>5, <2>6, <2>7 DEF Next, Step, Mutex!Next
<1> QED BY <1>1, <1>2, LockInvariantHolds, PTL DEF Spec, ImplementsMutex, Mutex!Spec

-----------------------------------------------------------------------------
(* The rows of older binaries, whatever the timing and the crashes.         *)

\* An attempt past its list of the rows has every legacy row that is left on that
\* list, and one past the list has none left: nothing but an older binary writes
\* them.
Cleared == {"get", "addGone", "deleteStale", "addDeleted"} \cup Critical

LegacyCleared ==
    \A a \in Attempts, k \in LegacyKeys :
        /\ pc[a] = "clear" /\ rows[k] # NoRow => \E r \in listed[a] : r.key = k
        /\ pc[a] \in Cleared => rows[k] = NoRow

\* The steps that write no legacy row, and in which an attempt is past its list only
\* if it was before.
LEMMA LegacyKept ==
    ASSUME LegacyCleared, UNCHANGED listed,
           \A k \in LegacyKeys : rows'[k] \in {rows[k], NoRow},
           \A a \in Attempts : /\ pc'[a] = "clear" => pc[a] = "clear"
                               /\ pc'[a] \in Cleared => pc[a] \in Cleared
    PROVE  LegacyCleared'
  BY DEF LegacyCleared

LEMMA LegacyStep == TypeOK /\ LegacyCleared /\ [Next]_vars => LegacyCleared'
<1> SUFFICES ASSUME TypeOK, LegacyCleared, [Next]_vars PROVE LegacyCleared'
  OBVIOUS
<1> USE ConstantsAssumption
<1>0. pc \in [Attempts -> {"idle"} \cup Acquiring \cup Critical \cup Releasing \cup Ended]
      /\ rows \in [Keys -> Row \cup {NoRow}] /\ listed \in [Attempts -> SUBSET Listing]
      /\ \A k \in LegacyKeys : k \in Keys /\ k # AppKey
  BY DEF TypeOK, Keys
<1>1. ASSUME NEW a \in Attempts, List(a) PROVE LegacyCleared'
  <2>1. UNCHANGED rows /\ pc' = [pc EXCEPT ![a] = "clear"]
    BY <1>1 DEF List, Goto
  <2>2. \A b \in Attempts \ {a} : pc'[b] = pc[b] /\ listed'[b] = listed[b]
    BY <1>0, <1>1 DEF List, Goto
  <2>3. pc'[a] = "clear" /\ "clear" \notin Cleared
    BY <1>0, <2>1 DEF Cleared, Critical
  <2>4. ASSUME NEW k \in LegacyKeys, rows[k] # NoRow
        PROVE  \E r \in listed'[a] : r.key = k
    <3> DEFINE r == [key |-> k, holder |-> rows[k].holder, expires |-> rows[k].expires]
    <3>1. r \in listed'[a]
      BY <1>0, <1>1, <2>4 DEF List
    <3>2. r.key = k
      OBVIOUS
    <3> QED BY <3>1, <3>2
  <2> QED BY <2>1, <2>2, <2>3, <2>4 DEF LegacyCleared
<1>2. ASSUME NEW a \in Attempts, ClearStale(a) PROVE LegacyCleared'
  <2> PICK r \in listed[a] : /\ Delete(r.key)
                             /\ listed' = [listed EXCEPT ![a] = @ \ {r}]
    BY <1>2 DEF ClearStale
  <2>1. UNCHANGED pc
    BY <1>2 DEF ClearStale
  <2>2. \A k \in LegacyKeys : rows'[k] = IF k = r.key THEN NoRow ELSE rows[k]
    BY <1>0 DEF Delete
  <2>3. listed'[a] = listed[a] \ {r} /\ \A b \in Attempts \ {a} : listed'[b] = listed[b]
    BY <1>0
  <2>4. ASSUME NEW b \in Attempts, NEW k \in LegacyKeys, pc[b] = "clear", rows'[k] # NoRow
        PROVE  \E s \in listed'[b] : s.key = k
    <3>1. k # r.key /\ rows[k] # NoRow
      BY <2>2, <2>4
    <3>2. PICK s \in listed[b] : s.key = k
      BY <2>4, <3>1 DEF LegacyCleared
    <3>3. s \in listed'[b]
      BY <2>3, <3>1, <3>2
    <3> QED BY <3>2, <3>3
  <2>5. ASSUME NEW b \in Attempts, NEW k \in LegacyKeys, pc[b] \in Cleared
        PROVE  rows'[k] = NoRow
    BY <2>2, <2>5 DEF LegacyCleared
  <2> QED BY <2>1, <2>4, <2>5 DEF LegacyCleared
<1>3. ASSUME NEW a \in Attempts, Add(a) PROVE LegacyCleared'
  <2>1. \A k \in LegacyKeys : rows[k] = NoRow
    BY <1>3 DEF Add, LegacyCleared
  <2>2. \A k \in LegacyKeys : rows'[k] = NoRow
    BY <1>0, <1>3, <2>1 DEF Add, TryAdd
  <2> QED BY <2>2 DEF LegacyCleared
<1>4. ASSUME NEW a \in Attempts, NEW label, pc' = [pc EXCEPT ![a] = label],
             label = "clear" => pc[a] = "clear", label \in Cleared => pc[a] \in Cleared,
             \A k \in LegacyKeys : rows'[k] \in {rows[k], NoRow}, UNCHANGED listed
      PROVE  LegacyCleared'
  <2>1. \A b \in Attempts : pc'[b] = IF b = a THEN label ELSE pc[b]
    BY <1>0, <1>4
  <2> QED BY <1>4, <2>1, LegacyKept
<1>5. ASSUME NEW a \in Attempts, AddGone(a) \/ AddDeleted(a) PROVE LegacyCleared'
  <2>1. pc[a] \in Cleared /\ UNCHANGED listed /\ TryAdd(a, "rejected")
    BY <1>5 DEF AddGone, AddDeleted, Cleared
  <2>2. \A k \in LegacyKeys : rows'[k] = rows[k]
    BY <1>0, <2>1 DEF TryAdd
  <2>3. pc' = [pc EXCEPT ![a] = "working"] \/ pc' = [pc EXCEPT ![a] = "rejected"]
    BY <2>1 DEF TryAdd, StartWork, Goto
  <2> QED BY <1>4, <2>1, <2>2, <2>3
<1>6. ASSUME NEW a \in Attempts, GetExisting(a) PROVE LegacyCleared'
  <2>1. pc[a] \in Cleared /\ UNCHANGED <<listed, rows>>
        /\ \E label \in {"addGone", "rejected", "deleteStale"} : pc' = [pc EXCEPT ![a] = label]
    BY <1>6 DEF GetExisting, Goto, Cleared
  <2> QED BY <1>4, <2>1
<1>7. ASSUME NEW a \in Attempts, DeleteStale(a) PROVE LegacyCleared'
  <2>1. pc[a] \in Cleared /\ UNCHANGED listed /\ pc' = [pc EXCEPT ![a] = "addDeleted"]
        /\ \A k \in LegacyKeys : rows'[k] = rows[k]
    BY <1>0, <1>7 DEF DeleteStale, Goto, Cleared, Delete
  <2> QED BY <1>4, <2>1
<1>8. ASSUME NEW a \in Attempts, EndWork(a) PROVE LegacyCleared'
  <2>1. pc[a] \in Cleared /\ UNCHANGED <<listed, rows>>
        /\ \E label \in {"mirroring", "releaseGet"} : pc' = [pc EXCEPT ![a] = label]
    BY <1>8 DEF EndWork, Goto, Cleared, Critical
  <2> QED BY <1>4, <2>1
<1>9. ASSUME NEW a \in Attempts, Begin(a) \/ FindHeld(a) \/ EndMirror(a) \/ ReleaseGet(a) \/ Crash(a)
      PROVE  LegacyCleared'
  <2>1. /\ UNCHANGED <<listed, rows>>
        /\ \E label \in {"list", "rejected", "releaseGet", "releaseDelete", "released", "crashed"} :
              pc' = [pc EXCEPT ![a] = label]
    BY <1>9 DEF Begin, FindHeld, EndMirror, ReleaseGet, Crash, Goto
  <2> QED BY <1>4, <2>1 DEF Cleared, Critical
<1>10. ASSUME NEW a \in Attempts, ReleaseDelete(a) PROVE LegacyCleared'
  <2>1. UNCHANGED listed /\ pc' = [pc EXCEPT ![a] = "released"]
        /\ \A k \in LegacyKeys : rows'[k] = rows[k]
    BY <1>0, <1>10 DEF ReleaseDelete, Goto, Delete
  <2> QED BY <1>4, <2>1 DEF Cleared, Critical
<1>11. CASE Tick \/ UNCHANGED vars
  BY <1>11 DEF Tick, vars, LegacyCleared
<1> QED BY <1>1, <1>2, <1>3, <1>5, <1>6, <1>7, <1>8, <1>9, <1>10, <1>11 DEF Next, Step

\* No attempt works under the lock while a row of an older binary is in force, for
\* prune commands and dying processes too: by then every such row was seen expired
\* and deleted.
THEOREM LegacyRowsRespectedHolds == Spec => []LegacyRowsRespected
<1>1. Init => LegacyCleared
  BY DEF Init, LegacyCleared, Cleared, Critical
<1>2. LegacyCleared => LegacyRowsRespected
  BY DEF LegacyCleared, LegacyRowsRespected, Cleared
<1> QED BY <1>1, <1>2, LegacyStep, TypeCorrect, PTL DEF Spec

=============================================================================
