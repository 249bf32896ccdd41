------------------------ MODULE HostedAgentPoolProofs ------------------------
(***************************************************************************)
(* The safety properties of the hosted agent pool, for any number of        *)
(* callers, sessions, turns and interactions, any pool size, and any number *)
(* of calls, faults and instances ever started.                             *)
(*                                                                          *)
(* HostedAgentPoolSteps shows that every step keeps Shape and has one of    *)
(* the effects that HostedAgentPoolShape names; HostedAgentPoolLayers shows *)
(* that the effects keep PoolInv and that PoolInv gives the properties.     *)
(***************************************************************************)
EXTENDS HostedAgentPoolSteps, HostedAgentPoolLayers

\* The pool starts in PoolInv, and every step keeps it.
LEMMA InitInv == Init => PoolInv
  BY InitShape, InitLayers

LEMMA NextInv == PoolInv /\ [Next]_vars => PoolInv' /\ DrainsIdle
  <1> SUFFICES ASSUME PoolInv, [Next]_vars PROVE PoolInv' /\ DrainsIdle
    OBVIOUS
  <1>1. Shape' /\ Step
    BY StepIs DEF PoolInv
  <1> QED BY <1>1, LayersKept

\* PoolInv is an invariant.
LEMMA Invariant == Spec => []PoolInv
  BY InitInv, NextInv, PTL DEF Spec

\* Whatever the callers, the health loop, the replacements, the drains, Close
\* and the faults do, every field of the pool keeps its type; p.starting never goes
\* below zero.
THEOREM TypeCorrect == Spec => []TypeOK
  <1>1. PoolInv => TypeOK
    BY LayersGive
  <1> QED BY <1>1, Invariant, PTL

\* The instances that accept work and those being started are at most
\* maxReadyInstances together, whoever starts them: a start is counted from the
\* decision under the lock until its starter has the lock again.
THEOREM CapacityHolds == Spec => []CapacityKept
  <1>1. PoolInv => CapacityKept
    BY LayersGive
  <1> QED BY <1>1, Invariant, PTL

\* However many goroutines drain an instance, its provider is closed once, and
\* when Close returns every instance that ever joined has been closed and no
\* goroutine of the pool is left.
THEOREM ClosedOnceHolds == Spec => []ClosedExactlyOnce
  <1>1. PoolInv => ClosedExactlyOnce
    BY LayersGive
  <1> QED BY <1>1, Invariant, PTL

\* No session, turn or interaction is ever routed to an instance that has left
\* the pool, although a call may record its route while its instance drains.
THEOREM RoutesHold == Spec => []RoutesInPool
  <1>1. PoolInv => RoutesInPool
    BY LayersGive
  <1> QED BY <1>1, Invariant, PTL

\* A create key is claimed by an instance of the pool, or by one that was closed
\* over a call in flight after its drain timeout.
THEOREM KeysHold == Spec => []KeysInPool
  <1>1. PoolInv => KeysInPool
    BY LayersGive
  <1> QED BY <1>1, Invariant, PTL

\* As long as no preparation for a key has failed, one open instance at most has
\* the session of that key, whatever concurrent creates, replacements and drains
\* do.
THEOREM OneOwnerHolds == Spec => []OneOwner
  <1>1. PoolInv => OneOwner
    BY LayersGive
  <1> QED BY <1>1, Invariant, PTL

\* Before its drain timeout an instance leaves the pool only when no call uses
\* it: backend.active counts the callers on every path.
THEOREM DrainWaitsHolds == Spec => DrainWaits
  <1>1. PoolInv /\ [Next]_vars =>
            [\A b \in Backends : (Is(b, "closed")' /\ ~Is(b, "closed")) => (Is(b, "late") \/ Using(b) = {})]_vars
    BY NextInv DEF DrainsIdle
  <1> QED BY <1>1, Invariant, PTL DEF Spec, DrainWaits

=============================================================================
