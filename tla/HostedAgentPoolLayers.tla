------------------------ MODULE HostedAgentPoolLayers ------------------------
(***************************************************************************)
(* The invariants of the hosted agent pool, for any number of callers,      *)
(* instances, sessions, turns and interactions, and any pool size.          *)
(*                                                                          *)
(* Each layer of the inductive invariant rests on those before it: Shape,   *)
(* Successors (an instance gets one replacement), StartsCounted (p.starting *)
(* counts the starts under way), Drains (who closes an instance),           *)
(* HoldsCounted (backend.active counts the callers that use it) and Owners  *)
(* (who serves the creates of a key).                                       *)
(***************************************************************************)
EXTENDS HostedAgentPoolShape, FiniteSetTheorems

-----------------------------------------------------------------------------
(* The actors. *)
(* HostedAgentPoolSteps and this module do not use each other, so that either *)
(* is checked without the lemmas of the other; both begin with these.        *)

LEMMA ActorKinds ==
    /\ Clients \subseteq Actors /\ Health \in Actors /\ Closer \in Actors
    /\ ScaleOuts \subseteq Actors /\ Drainers \subseteq Actors
    /\ \A b \in Backends : /\ Replacer(b) \in Replacers /\ Proactive(b) \in Proactives
                           /\ CloserOf(b) \in Closers
    /\ \A a \in Replacers : \E b \in Backends : a = Replacer(b)
    /\ \A a \in Proactives : \E b \in Backends : a = Proactive(b)
    /\ \A a \in Closers : \E b \in Backends : a = CloserOf(b)
    /\ Drainers = Replacers \cup Proactives \cup Closers
    /\ Actors = Clients \cup {Health, Closer} \cup ScaleOuts \cup Drainers
  BY DEF Actors, Lifecycle, Drainers, Replacers, Proactives, Closers, ScaleOuts

LEMMA ActorsApart ==
    /\ Health # Closer
    /\ Clients \cap ({Health, Closer} \cup ScaleOuts \cup Drainers) = {}
    /\ ScaleOuts \cap ({Health, Closer} \cup Drainers) = {}
    /\ {Health, Closer} \cap Drainers = {}
    /\ Replacers \cap Proactives = {} /\ Replacers \cap Closers = {}
    /\ Proactives \cap Closers = {}
  <1>1. Clients \cap ({Health, Closer} \cup ScaleOuts \cup Drainers) = {}
    BY PoolClients DEF Lifecycle, Drainers
  <1>2. /\ ScaleOuts \cap ({Health, Closer} \cup Drainers) = {}
        /\ {Health, Closer} \cap Drainers = {} /\ Health # Closer
    BY DEF ScaleOuts, ScaleOut, Health, Closer, Drainers, Replacers, Proactives, Closers,
           Replacer, Proactive, CloserOf
  <1>3. /\ Replacers \cap Proactives = {} /\ Replacers \cap Closers = {}
        /\ Proactives \cap Closers = {}
    BY DEF Replacers, Proactives, Closers, Replacer, Proactive, CloserOf
  <1> QED BY <1>1, <1>2, <1>3

LEMMA ActorsOneEach ==
    \A b, d \in Backends : /\ Replacer(b) = Replacer(d) => b = d
                           /\ Proactive(b) = Proactive(d) => b = d
                           /\ CloserOf(b) = CloserOf(d) => b = d
  BY DEF Replacer, Proactive, CloserOf

LEMMA DrainActors ==
    \A b \in Backends :
        /\ \A a \in {Replacer(b), Proactive(b), CloserOf(b)} :
              a \notin Clients /\ a # Health /\ a # Closer /\ a \notin ScaleOuts
        /\ \A d \in Backends : /\ Replacer(b) # Proactive(d) /\ Replacer(b) # CloserOf(d)
                               /\ Proactive(b) # CloserOf(d)
  <1>1. \A b \in Backends : \A a \in {Replacer(b), Proactive(b), CloserOf(b)} :
            a \notin Clients /\ a # Health /\ a # Closer /\ a \notin ScaleOuts
    BY ActorKinds, ActorsApart
  <1>2. \A b, d \in Backends : /\ Replacer(b) # Proactive(d) /\ Replacer(b) # CloserOf(d)
                               /\ Proactive(b) # CloserOf(d)
    BY DEF Replacer, Proactive, CloserOf
  <1> QED BY <1>1, <1>2

-----------------------------------------------------------------------------
(* What Shape says of an actor. *)

LEMMA ShapeGives ==
    ASSUME Shape
    PROVE  /\ Types /\ proc \in [Actors -> Proc]
           /\ nextID \in Nat /\ MaxBackends \in Nat /\ nextID <= MaxBackends
           /\ \A a \in Actors : /\ proc[a] \in Proc /\ proc[a].b \in 0 .. nextID
                                /\ proc[a].pref \in 0 .. nextID
           /\ \A c \in Clients : ClientShape(proc[c])
  <1>1. /\ Types /\ proc \in [Actors -> Proc]
        /\ nextID \in Nat /\ MaxBackends \in Nat /\ nextID <= MaxBackends
    BY PoolConstants DEF Shape, Types
  <1>2. ASSUME NEW a \in Actors
        PROVE  /\ proc[a] \in Proc /\ proc[a].b \in 0 .. nextID
               /\ proc[a].pref \in 0 .. nextID /\ ActorShape(a, proc[a])
    <2>1. Placed(a, proc[a], nextID)
      BY DEF Shape
    <2>2. proc[a] \in Proc /\ proc[a].b <= nextID /\ proc[a].pref <= nextID /\ ActorShape(a, proc[a])
      BY <2>1 DEF Placed
    <2>3. proc[a].b \in 0 .. MaxBackends /\ proc[a].pref \in 0 .. MaxBackends
      BY <2>2 DEF Proc
    <2> QED BY <1>1, <2>2, <2>3
  <1>3. \A c \in Clients : ClientShape(proc[c])
    BY <1>2, ActorKinds DEF ActorShape
  <1> QED BY <1>1, <1>2, <1>3

\* The bounds of the identifiers, as facts to cite where no arithmetic is left.
LEMMA ShapeNumbers ==
    ASSUME Shape
    PROVE  /\ nextID \in Nat /\ nextID <= nextID /\ NoBackend \in 0 .. nextID /\ 0 \in 0 .. nextID
           /\ NoBackend \in 0 .. MaxBackends /\ 0 <= nextID
           /\ \A i \in 0 .. nextID : i <= nextID /\ i \in 0 .. MaxBackends
           /\ \A i \in 1 .. nextID : i \in 0 .. nextID /\ i <= nextID /\ i \in Backends
           /\ \A i \in Backends : i \in 0 .. MaxBackends
           /\ starting \in Int /\ starting + 1 \in Int /\ starting - 1 \in Int
  <1>1. nextID \in Nat /\ MaxBackends \in Nat /\ nextID <= MaxBackends /\ starting \in Int
    BY ShapeGives DEF Types
  <1> QED BY <1>1 DEF Backends, NoBackend

\* What a caller holds is an instance that has joined.
LEMMA HeldInstance ==
    ASSUME Shape, NEW c \in Clients, proc[c].at \in HoldLabels \cup {"record", "found"}
    PROVE  /\ proc[c].b \in 1 .. nextID /\ proc[c].b \in Backends /\ c # Replacer(proc[c].b)
           /\ c \in Actors /\ Replacer(proc[c].b) \in Actors
  <1>1. /\ c \in Actors /\ ClientShape(proc[c]) /\ nextID \in Nat /\ proc[c].b \in 0 .. nextID
        /\ nextID <= MaxBackends /\ MaxBackends \in Nat
    BY ActorKinds, ShapeGives
  <1>2. proc[c].b # 0
    BY <1>1 DEF ClientShape, NoBackend
  <1>3. proc[c].b \in 1 .. nextID /\ proc[c].b \in Backends
    BY <1>1, <1>2 DEF Backends
  <1> QED BY <1>1, <1>3, DrainActors, ActorKinds

LEMMA ProactiveActor ==
    ASSUME NEW b \in Backends
    PROVE  /\ Proactive(b) \in Actors /\ Replacer(b) \in Actors /\ CloserOf(b) \in Actors
           /\ Proactive(b) \notin Clients /\ Proactive(b) # Health /\ Proactive(b) # Closer
           /\ Health # Replacer(b) /\ Health \in Actors /\ Health \notin Clients
  BY ActorKinds, ActorsApart, DrainActors

\* A drainer that is at work has an instance that has joined.
LEMMA DrainActor ==
    ASSUME Shape, NEW a \in Drainers, proc[a].at # "idle"
    PROVE  proc[a].b \in Backends /\ proc[a].b \in 1 .. nextID /\ a \in {Replacer(proc[a].b), Proactive(proc[a].b), CloserOf(proc[a].b)}
  <1>1. a \in Actors /\ nextID \in Nat /\ Placed(a, proc[a], nextID) /\ proc[a].b \in 0 .. nextID
    BY ActorKinds, ShapeGives DEF Shape
  <1>2. PICK b \in Backends : a \in {Replacer(b), Proactive(b), CloserOf(b)}
    BY ActorKinds
  <1>3. proc[a].b = b
    BY <1>1, <1>2 DEF Placed, ActorShape, DrainerShape
  <1>4. b \in 1 .. nextID
    BY <1>1, <1>3 DEF Backends
  <1> QED BY <1>2, <1>3, <1>4

-----------------------------------------------------------------------------
(* The obligations are many and small; a slow machine may take its time. *)
USE ZenonT(60)

-----------------------------------------------------------------------------
(* Instances and their marks. *)

\* What no step takes back: an instance that has left does not return, Close is
\* for good, and of the marks only "replacing" is cleared.
Grows ==
    /\ nextID \in Nat /\ nextID' \in Nat /\ nextID <= nextID'
    /\ closed => closed'
    /\ \A b \in Backends : marks[b] \ {"replacing"} \subseteq marks'[b]
    /\ \A b \in backends' : b \in backends \/ (b = nextID + 1 /\ ~closed)

LEMMA SameGrows ==
    ASSUME Shape, UNCHANGED <<closed, nextID, backends, marks>>
    PROVE  Grows
  BY SMT, ShapeGives DEF Grows

LEMMA RetiresGrows ==
    ASSUME Shape, UNCHANGED <<closed, nextID, backends>>, NEW b \in Backends, NEW d, Retires(b, d)
    PROVE  Grows
  <1>1. \A e \in Backends : marks[e] \subseteq marks'[e]
    BY DEF Retires
  <1> QED BY SMT, <1>1, ShapeGives DEF Grows

LEMMA MarksGrow ==
    ASSUME Shape, UNCHANGED <<nextID>>, backends' \subseteq backends, closed => closed',
           \A e \in Backends : marks[e] \ {"replacing"} \subseteq marks'[e]
    PROVE  Grows
  BY SMT, ShapeGives DEF Grows

LEMMA StepGrows ==
    ASSUME Shape, Step
    PROVE  Grows
  <1> nextID \in Nat /\ marks \in [Backends -> SUBSET Marks]
    BY ShapeGives DEF Types
  <1>1. ASSUME NEW c \in Clients, OnPool(c) PROVE Grows
    <2>1. CASE Drops(c)
      BY <2>1, HeldInstance, RetiresGrows DEF Drops
    <2>2. CASE ~Drops(c)
      BY <1>1, <2>2, SameGrows DEF OnPool, Quiet, Grabs, Takes, CallStarts, CallSettles, ScalesOut
    <2> QED BY <2>1, <2>2
  <1>2. ASSUME NEW a \in Actors, OfGoroutine(a) PROVE Grows
    <2>1. CASE Joins(a)
      BY SMT, <2>1 DEF Joins, Grows
    <2>2. CASE Settled(a) \/ Ensures(a) \/ Finishes(a)
      BY <2>2, SameGrows DEF Settled, Settles, Ensures, Finishes
    <2>3. CASE DrainsFirst(a)
      <3>1. proc[a].b \in Backends
        BY <2>3, DrainActor DEF DrainsFirst
      <3> QED BY <2>3, <3>1, MarksGrow DEF DrainsFirst
    <2>4. CASE Removes(a)
      <3>1. proc[a].b \in Backends
        BY <2>4, DrainActor DEF Removes
      <3> QED BY <2>4, <3>1, MarksGrow DEF Removes
    <2> QED BY <1>2, <2>1, <2>2, <2>3, <2>4 DEF OfGoroutine
  <1>3. ASSUME NEW b \in Backends, OfInstance(b) PROVE Grows
    <2>1. CASE ProactiveSettles(b)
      BY <2>1, MarksGrow DEF ProactiveSettles, Settles
    <2>2. CASE Checks(b)
      <3>1. CASE Retires(b, Health)
        BY <2>2, <3>1, RetiresGrows DEF Checks
      <3>2. CASE ~Retires(b, Health)
        <4>1. UNCHANGED <<nextID, closed, backends>> /\ marks' = [marks EXCEPT ![b] = @ \cup {"replacing"}]
          BY <2>2, <3>2 DEF Checks
        <4>2. \A e \in Backends : marks[e] \subseteq marks'[e]
          BY <4>1
        <4> QED BY <4>1, <4>2, MarksGrow
      <3> QED BY <3>1, <3>2
    <2>3. CASE Marking(b)
      <3>1. \A e \in Backends : marks[e] \subseteq marks'[e]
        BY <2>3 DEF Marking
      <3> QED BY <2>3, <3>1, MarksGrow DEF Marking
    <2> QED BY <1>3, <2>1, <2>2, <2>3 DEF OfInstance
  <1>4. CASE Closes
    <2>1. \A e \in Backends : marks[e] \subseteq marks'[e]
      BY <1>4 DEF Closes
    <2> QED BY <1>4, <2>1, MarksGrow DEF Closes
  <1>5. CASE CloseEnds
    BY <1>5, MarksGrow DEF CloseEnds
  <1>6. CASE Ending \/ UNCHANGED vars
    BY <1>6, SameGrows DEF Ending, vars, instances
  <1> QED BY <1>1, <1>2, <1>3, <1>4, <1>5, <1>6 DEF Step

-----------------------------------------------------------------------------
(* An instance gets one replacement. *)

DrainLabels == {"drain", "wait", "provider"}

\* An instance that has not joined is unmarked; one with a replacement on its
\* way shows it, so that there is no second one.
Successors ==
    \A b \in Backends :
        /\ b > nextID => marks[b] = {}
        /\ proc[Replacer(b)].at # "idle" => Is(b, "draining") \/ Is(b, "closed")
        /\ proc[Proactive(b)].at \in Starting => Is(b, "replacing")
        /\ proc[Proactive(b)].at \in DrainLabels => ~Available(b, FALSE)

\* What a step does to the goroutines that replace b.
Follows(b) ==
    /\ b > nextID => marks'[b] = marks[b]
    /\ proc'[Replacer(b)].at # "idle" => proc[Replacer(b)].at # "idle" \/ "draining" \in marks'[b]
    /\ proc'[Proactive(b)].at \in Starting =>
           \/ "replacing" \in marks'[b]
           \/ proc[Proactive(b)].at \in Starting /\ ("replacing" \in marks[b] => "replacing" \in marks'[b])
    /\ proc'[Proactive(b)].at \in DrainLabels => proc[Proactive(b)].at \in DrainLabels \/ ~Available(b, FALSE)'

LEMMA Untouched ==
    ASSUME NEW b \in Backends, NEW S, Only(S), Replacer(b) \notin S, Proactive(b) \notin S
    PROVE  proc'[Replacer(b)] = proc[Replacer(b)] /\ proc'[Proactive(b)] = proc[Proactive(b)]
  BY ProactiveActor DEF Only

LEMMA UntouchedFollows ==
    ASSUME NEW b \in Backends, marks[b] \subseteq marks'[b], b > nextID => marks'[b] = marks[b],
           proc'[Replacer(b)] = proc[Replacer(b)] /\ proc'[Proactive(b)] = proc[Proactive(b)]
    PROVE  Follows(b)
  BY DEF Follows

LEMMA RetiresFollows ==
    ASSUME Shape, NEW b \in Backends, NEW e \in Backends, e <= nextID, NEW d \in Clients \cup {Health}, Retires(e, d)
    PROVE  Follows(b)
  <1>1. d # Replacer(b) /\ d # Proactive(b) /\ Proactive(b) # Replacer(e) /\ (Replacer(b) = Replacer(e) => b = e)
        /\ Proactive(b) \in Actors /\ Replacer(b) \in Actors
    BY SMT, DrainActors, ActorsOneEach, ProactiveActor
  <1>2. proc'[Proactive(b)] = proc[Proactive(b)] /\ (b # e => proc'[Replacer(b)] = proc[Replacer(b)])
    BY <1>1 DEF Retires, Only
  <1>3. marks[b] \subseteq marks'[b] /\ (b # e => marks'[b] = marks[b])
    BY DEF Retires
  <1>4. b > nextID => marks'[b] = marks[b]
    BY SMT, <1>3, ShapeGives DEF Backends
  <1>5. CASE proc'[Replacer(b)] = proc[Replacer(b)]
    BY <1>2, <1>3, <1>4, <1>5, UntouchedFollows
  <1>6. CASE proc'[Replacer(b)] # proc[Replacer(b)]
    BY <1>2, <1>3, <1>4, <1>6 DEF Follows, Retires
  <1> QED BY <1>5, <1>6

\* A step of the goroutine a that neither starts nor ends a replacement.
LEMMA GoesOnFollows ==
    ASSUME NEW b \in Backends, NEW a \in Actors, Only({a}), proc[a].at # "idle",
           marks[b] \subseteq marks'[b], b > nextID => marks'[b] = marks[b],
           a \in Proactives => /\ proc'[a].at \in Starting => proc[a].at \in Starting
                               /\ proc'[a].at \in DrainLabels => proc[a].at \in DrainLabels
    PROVE  Follows(b)
  <1>1. /\ Proactive(b) \in Actors /\ Replacer(b) \in Actors /\ Proactive(b) \in Proactives
        /\ Replacer(b) # Proactive(b)
    BY ProactiveActor, ActorKinds, DrainActors
  <1>2. proc'[Replacer(b)].at # "idle" => proc[Replacer(b)].at # "idle"
    BY <1>1 DEF Only
  <1>3. CASE a = Proactive(b)
    BY <1>1, <1>2, <1>3 DEF Follows
  <1>4. CASE a # Proactive(b)
    <2>1. proc'[Proactive(b)] = proc[Proactive(b)]
      BY <1>1, <1>4 DEF Only
    <2> QED BY <1>2, <2>1 DEF Follows
  <1> QED BY <1>3, <1>4

LEMMA CallerFollows ==
    ASSUME Shape, NEW b \in Backends, NEW c \in Clients, OnPool(c)
    PROVE  Follows(b)
  <1>1. CASE Drops(c)
    <2>1. Retires(proc[c].b, c) /\ proc[c].b \in Backends /\ proc[c].b <= nextID
      BY SMT, <1>1, HeldInstance, ShapeGives DEF Drops
    <2> QED BY <2>1, RetiresFollows
  <1>2. CASE ~Drops(c)
    <2>1. marks' = marks
      BY <1>2 DEF OnPool, Quiet, Grabs, Takes, CallStarts, CallSettles, ScalesOut
    <2>2. \E a \in ScaleOuts \cup {c} : Only({c, a})
      BY <1>2 DEF OnPool, Quiet, Grabs, Takes, CallStarts, CallSettles, ScalesOut
    <2>3. PICK a \in ScaleOuts \cup {c} : Only({c, a})
      BY <2>2
    <2>4. Replacer(b) \notin {c, a} /\ Proactive(b) \notin {c, a}
      BY DrainActors
    <2>5. proc'[Replacer(b)] = proc[Replacer(b)] /\ proc'[Proactive(b)] = proc[Proactive(b)]
      BY <2>3, <2>4, Untouched
    <2> QED BY <2>1, <2>5, UntouchedFollows
  <1> QED BY <1>1, <1>2

LEMMA GoroutineFollows ==
    ASSUME Shape, NEW b \in Backends, NEW a \in Actors, OfGoroutine(a)
    PROVE  Follows(b)
  <1> nextID \in Nat /\ marks \in [Backends -> SUBSET Marks]
    BY ShapeGives DEF Types
  <1>1. CASE Joins(a)
    <2>1. /\ Only({a}) /\ proc[a].at # "idle" /\ marks' = marks
          /\ proc[a].at \in Starting /\ proc'[a].at \notin DrainLabels
      BY <1>1 DEF Joins, Starting, DrainLabels
    <2> QED BY <2>1, GoesOnFollows
  <1>2. CASE Settled(a)
    <2>1. a \notin Proactives
      BY <1>2, ActorKinds, ActorsApart DEF Settled
    <2>2. Only({a}) /\ proc[a].at # "idle" /\ marks' = marks
      BY <1>2 DEF Settled, Settles
    <2> QED BY <2>1, <2>2, GoesOnFollows
  <1>3. CASE Ensures(a)
    <2>1. a \notin Proactives /\ Only({a}) /\ marks' = marks
      BY <1>3, ActorKinds, ActorsApart DEF Ensures
    <2>2. CASE a = Health
      <3>1. Replacer(b) \notin {a} /\ Proactive(b) \notin {a}
        BY <2>2, DrainActors
      <3> QED BY <2>1, <3>1, Untouched, UntouchedFollows
    <2>3. CASE a # Health
      <3>1. proc[a].at # "idle"
        BY <1>3, <2>3 DEF Ensures
      <3> QED BY <2>1, <3>1, GoesOnFollows
    <2> QED BY <2>2, <2>3
  <1>4. CASE DrainsFirst(a)
    <2>1. proc[a].b \in Backends /\ proc[a].b \in 1 .. nextID
      BY <1>4, DrainActor DEF DrainsFirst
    <2>2. marks[b] \subseteq marks'[b] /\ (b > nextID => marks'[b] = marks[b])
      <3>1. \/ marks' = marks
            \/ marks' = [marks EXCEPT ![proc[a].b] = @ \cup {"closing", "draining"}]
        BY <1>4 DEF DrainsFirst
      <3>2. b > nextID => b # proc[a].b
        BY SMT, <2>1 DEF Backends
      <3> QED BY <2>1, <3>1, <3>2
    <2>3. Only({a}) /\ proc[a].at = "drain" /\ proc'[a].at \in {"wait", "idle"}
      BY <1>4 DEF DrainsFirst
    <2>4. proc[a].at # "idle" /\ proc[a].at \in DrainLabels /\ proc'[a].at \notin Starting
      BY <2>3 DEF DrainLabels, Starting
    <2> QED BY <2>2, <2>3, <2>4, GoesOnFollows
  <1>5. CASE Removes(a)
    <2>1. proc[a].b \in Backends /\ proc[a].b \in 1 .. nextID
      BY <1>5, DrainActor DEF Removes
    <2>2. marks[b] \subseteq marks'[b] /\ (b > nextID => marks'[b] = marks[b])
      BY SMT, <1>5, <2>1 DEF Removes, Backends
    <2>3. Only({a}) /\ proc[a].at = "wait" /\ proc'[a].at = "provider"
      BY <1>5 DEF Removes
    <2>4. proc[a].at # "idle" /\ proc[a].at \in DrainLabels /\ proc'[a].at \notin Starting
      BY <2>3 DEF DrainLabels, Starting
    <2> QED BY <2>2, <2>3, <2>4, GoesOnFollows
  <1>6. CASE Finishes(a)
    <2>1. Only({a}) /\ proc[a].at = "provider" /\ proc'[a].at = "idle" /\ marks' = marks
      BY <1>6 DEF Finishes
    <2>2. proc[a].at # "idle" /\ proc'[a].at \notin DrainLabels /\ proc'[a].at \notin Starting
      BY <2>1 DEF DrainLabels, Starting
    <2> QED BY <2>1, <2>2, GoesOnFollows
  <1> QED BY <1>1, <1>2, <1>3, <1>4, <1>5, <1>6 DEF OfGoroutine

LEMMA InstanceFollows ==
    ASSUME Shape, Successors, NEW b \in Backends, NEW e \in Backends, OfInstance(e)
    PROVE  Follows(b)
  <1> nextID \in Nat /\ marks \in [Backends -> SUBSET Marks] /\ b \in Nat /\ e \in Nat
    BY SMT, ShapeGives DEF Types, Backends
  <1>1. CASE ProactiveSettles(e)
    <2>1. /\ Only({Proactive(e)}) /\ proc'[Proactive(e)].at \in {"drain", "idle"}
          /\ proc[Proactive(e)].at = "settle"
          /\ proc'[Proactive(e)].at = "drain" => ~Available(e, FALSE)'
      BY <1>1 DEF ProactiveSettles, Settles
    <2>2. Proactive(e) \in Drainers /\ Proactive(e) \in Actors
      BY ActorKinds
    <2>3. e <= nextID
      <3>1. proc[Proactive(e)].b \in 1 .. nextID /\ DrainerShape(proc[Proactive(e)], e, ProactiveLabels)
        BY <2>1, <2>2, DrainActor DEF Shape, Placed, ActorShape
      <3> QED BY SMT, <2>1, <3>1 DEF DrainerShape
    <2>4. CASE b = e
      <3>1. proc'[Replacer(b)] = proc[Replacer(b)]
        BY <2>1, DrainActors, ProactiveActor DEF Only
      <3>2. proc'[Proactive(b)].at \notin Starting /\ (proc'[Proactive(b)].at \in DrainLabels => ~Available(b, FALSE)')
        BY <2>1, <2>4 DEF Starting, DrainLabels
      <3>3. ~(b > nextID)
        BY SMT, <2>3, <2>4
      <3> QED BY <3>1, <3>2, <3>3 DEF Follows
    <2>5. CASE b # e
      <3>1. Replacer(b) \notin {Proactive(e)} /\ Proactive(b) \notin {Proactive(e)}
        BY <2>5, DrainActors, ActorsOneEach
      <3>2. marks'[b] = marks[b]
        BY <1>1, <2>5 DEF ProactiveSettles
      <3> QED BY <2>1, <3>1, <3>2, Untouched, UntouchedFollows
    <2> QED BY <2>4, <2>5
  <1>2. CASE Checks(e)
    <2>1. e <= nextID
      BY <1>2 DEF Checks
    <2>2. CASE Retires(e, Health)
      BY <2>1, <2>2, RetiresFollows
    <2>3. CASE ~Retires(e, Health)
      <3>1. /\ Only({Health, Proactive(e)}) /\ marks' = [marks EXCEPT ![e] = @ \cup {"replacing"}]
            /\ proc'[Proactive(e)].at = "start"
        BY <1>2, <2>3 DEF Checks
      <3>2. proc'[Replacer(b)] = proc[Replacer(b)]
        BY <3>1, DrainActors, ProactiveActor DEF Only
      <3>3. CASE b = e
        <4>1. "replacing" \in marks'[b] /\ proc'[Proactive(b)].at \notin DrainLabels
          BY <3>1, <3>3 DEF DrainLabels
        <4>2. ~(b > nextID)
          BY SMT, <2>1, <3>3
        <4> QED BY <3>2, <4>1, <4>2 DEF Follows
      <3>4. CASE b # e
        <4>1. proc'[Proactive(b)] = proc[Proactive(b)]
          BY <3>1, <3>4, DrainActors, ActorsOneEach, ProactiveActor DEF Only
        <4> QED BY <3>1, <3>2, <3>4, <4>1, UntouchedFollows
      <3> QED BY <3>3, <3>4
    <2> QED BY <2>2, <2>3
  <1>3. CASE Marking(e)
    <2>1. proc' = proc /\ marks[b] \subseteq marks'[b]
      BY <1>3 DEF Marking
    <2>2. ~(e > nextID)
      <3>1. CASE e \in backends
        BY SMT, <3>1, ShapeGives DEF Types
      <3>2. CASE "closing" \in marks[e]
        BY <3>2 DEF Successors
      <3> QED BY <1>3, <3>1, <3>2 DEF Marking, Is
    <2>3. b > nextID => marks'[b] = marks[b]
      BY <1>3, <2>2 DEF Marking
    <2> QED BY <2>1, <2>3, UntouchedFollows
  <1> QED BY <1>1, <1>2, <1>3 DEF OfInstance

LEMMA StepFollows ==
    ASSUME Shape, Successors, Step, NEW b \in Backends
    PROVE  Follows(b)
  <1>1. CASE Closes
    <2>1. Replacer(b) \in Actors /\ Proactive(b) \in Actors /\ Replacer(b) # Closer /\ Proactive(b) # Closer
          /\ \A e \in Backends : Replacer(b) # CloserOf(e) /\ Proactive(b) # CloserOf(e)
      BY DrainActors, ProactiveActor
    <2>2. \A e \in backends : e \in Backends /\ ~(e > nextID)
      BY SMT, ShapeGives DEF Types, Backends
    <2>3. proc'[Replacer(b)] = proc[Replacer(b)] /\ proc'[Proactive(b)] = proc[Proactive(b)]
      BY <1>1, <2>1, <2>2 DEF Closes
    <2>4. marks[b] \subseteq marks'[b] /\ (b > nextID => marks'[b] = marks[b])
      BY <1>1, <2>2 DEF Closes
    <2> QED BY <2>3, <2>4, UntouchedFollows
  <1>2. CASE CloseEnds
    <2>1. Only({Closer}) /\ marks' = marks
      BY <1>2 DEF CloseEnds
    <2>2. Replacer(b) \notin {Closer} /\ Proactive(b) \notin {Closer}
      BY DrainActors
    <2> QED BY <2>1, <2>2, Untouched, UntouchedFollows
  <1>3. CASE Ending \/ UNCHANGED vars
    <2>1. marks' = marks /\ proc' = proc
      BY <1>3 DEF Ending, vars, instances
    <2> QED BY <2>1, UntouchedFollows
  <1> QED BY <1>1, <1>2, <1>3, CallerFollows, GoroutineFollows, InstanceFollows DEF Step

LEMMA SuccessorsKept ==
    ASSUME Shape, Shape', Successors, Step
    PROVE  Successors'
  <1> SUFFICES ASSUME NEW b \in Backends
               PROVE  /\ b > nextID' => marks'[b] = {}
                      /\ proc'[Replacer(b)].at # "idle" => "draining" \in marks'[b] \/ "closed" \in marks'[b]
                      /\ proc'[Proactive(b)].at \in Starting => "replacing" \in marks'[b]
                      /\ proc'[Proactive(b)].at \in DrainLabels => ~Available(b, FALSE)'
    BY DEF Successors, Is
  <1>1. Grows /\ Follows(b)
    BY StepGrows, StepFollows
  <1>2. /\ b > nextID => marks[b] = {}
        /\ proc[Replacer(b)].at # "idle" => "draining" \in marks[b] \/ "closed" \in marks[b]
        /\ proc[Proactive(b)].at \in Starting => "replacing" \in marks[b]
        /\ proc[Proactive(b)].at \in DrainLabels => ~Available(b, FALSE)
    BY DEF Successors, Is
  <1>3. nextID \in Nat /\ nextID' \in Nat /\ b \in Nat /\ (b > nextID' => b > nextID)
    BY SMT, <1>1 DEF Grows, Backends
  <1>4. \A m \in {"draining", "closing", "closed"} : m \in marks[b] => m \in marks'[b]
    BY <1>1 DEF Grows
  <1>5. ASSUME proc[Proactive(b)].at \in DrainLabels PROVE ~Available(b, FALSE)'
    <2>1. b \in backends' => b \in backends
      <3>1. Proactive(b) \in Drainers /\ Proactive(b) \in Actors /\ proc[Proactive(b)].at # "idle"
        BY <1>5, ActorKinds DEF DrainLabels
      <3>2. proc[Proactive(b)].b \in 1 .. nextID /\ DrainerShape(proc[Proactive(b)], b, ProactiveLabels)
        BY <3>1, DrainActor DEF Shape, Placed, ActorShape
      <3>3. b # nextID + 1
        BY SMT, <1>3, <3>1, <3>2 DEF DrainerShape
      <3> QED BY <1>1, <3>3 DEF Grows
    <2> QED BY <1>2, <1>4, <1>5, <2>1 DEF Available, Is
  <1>6. b > nextID' => marks'[b] = {}
    BY <1>1, <1>2, <1>3 DEF Follows
  <1>7. proc'[Replacer(b)].at # "idle" => "draining" \in marks'[b] \/ "closed" \in marks'[b]
    BY <1>1, <1>2, <1>4 DEF Follows
  <1>8. proc'[Proactive(b)].at \in Starting => "replacing" \in marks'[b]
    BY <1>1, <1>2 DEF Follows
  <1>9. proc'[Proactive(b)].at \in DrainLabels => ~Available(b, FALSE)'
    BY <1>1, <1>5 DEF Follows
  <1> QED BY <1>6, <1>7, <1>8, <1>9

LEMMA InitSuccessors ==
    ASSUME Init, Shape
    PROVE  Successors
  <1>1. \A a \in Actors : proc[a].at = "idle"
    BY DEF Init, At
  <1>2. "idle" \notin Starting \cup DrainLabels /\ \A b \in Backends : marks[b] = {}
    BY DEF Init, Starting, DrainLabels
  <1> QED BY <1>1, <1>2, ProactiveActor DEF Successors

-----------------------------------------------------------------------------
(* p.starting counts the starts under way. *)

Starters == {a \in Actors : proc[a].at \in Starting}
StartsCounted == starting = Cardinality(Starters)

\* No actor outside S comes to start an instance or is done with it.
StartersSame(S) ==
    \A d \in Actors \ S : \/ proc'[d] = proc[d]
                          \/ proc[d].at \notin Starting /\ proc'[d].at \notin Starting

StartsKept == starting' = starting /\ StartersSame({})
StartBegins(a) ==
    /\ starting' = starting + 1 /\ StartersSame({a})
    /\ proc[a].at \notin Starting /\ proc'[a].at = "start"
    /\ Cardinality(Accepting) + starting < MaxReady
StartEnds(a) ==
    /\ starting' = starting - 1 /\ StartersSame({a})
    /\ proc[a].at = "settle" /\ proc'[a].at \notin Starting
StartMove(a) == StartBegins(a) \/ StartEnds(a) \/ Joins(a)

LEMMA OnlySame ==
    ASSUME NEW S, NEW T, Only(S), T \subseteq S,
           \A d \in S \ T : proc[d].at \notin Starting /\ proc'[d].at \notin Starting
    PROVE  StartersSame(T)
  BY DEF Only, StartersSame

\* Whoever retires an instance starts nothing, and neither did its replacer.
LEMMA RetiresSame ==
    ASSUME Shape, Successors, NEW b \in Backends, NEW d \in Actors, Retires(b, d),
           proc[d].at \notin Starting, proc'[d].at \notin Starting
    PROVE  StartersSame({})
  <1>1. Only({d, Replacer(b)}) /\ Replacer(b) \in Actors
    BY ProactiveActor DEF Retires
  <1>2. CASE proc'[Replacer(b)] = proc[Replacer(b)]
    BY <1>1, <1>2 DEF Only, StartersSame
  <1>3. CASE proc'[Replacer(b)] # proc[Replacer(b)]
    <2>1. ~Is(b, "draining") /\ ~Is(b, "closed") /\ proc'[Replacer(b)].at = "ensure"
      BY <1>3 DEF Retires
    <2>2. proc[Replacer(b)].at = "idle"
      BY <2>1 DEF Successors
    <2>3. proc[Replacer(b)].at \notin Starting /\ proc'[Replacer(b)].at \notin Starting
      BY <2>1, <2>2 DEF Starting
    <2> QED BY <1>1, <2>3 DEF Only, StartersSame
  <1> QED BY <1>2, <1>3

LEMMA CallerStarts ==
    ASSUME Shape, Successors, NEW c \in Clients, OnPool(c)
    PROVE  StartsKept \/ \E a \in Actors : StartMove(a)
  <1> c \in Actors
    BY ActorKinds
  <1>1. CASE Quiet(c) \/ Grabs(c)
    <2>1. starting' = starting /\ Only({c}) /\ proc[c].at \notin Starting /\ proc'[c].at \notin Starting
      BY <1>1 DEF Quiet, Grabs
    <2> QED BY <2>1, OnlySame DEF StartsKept
  <1>2. CASE CallStarts(c)
    <2>1. /\ Only({c}) /\ starting' = starting + 1 /\ Cardinality(Accepting) + starting < MaxReady
          /\ proc[c].at \notin Starting /\ proc'[c].at = "start"
      BY <1>2 DEF CallStarts, CanScaleOut, Starting
    <2> QED BY <2>1, OnlySame DEF StartMove, StartBegins
  <1>3. CASE CallSettles(c)
    <2>1. /\ Only({c}) /\ starting' = starting - 1 /\ proc[c].at = "settle" /\ proc'[c].at \notin Starting
      BY <1>3 DEF CallSettles
    <2> QED BY <2>1, OnlySame DEF StartMove, StartEnds
  <1>4. CASE Drops(c)
    <2>1. /\ starting' = starting /\ Retires(proc[c].b, c) /\ proc[c].b \in Backends
          /\ proc[c].at \notin Starting /\ proc'[c].at \notin Starting
      BY <1>4, HeldInstance DEF Drops, HoldLabels, Starting
    <2> QED BY <2>1, RetiresSame DEF StartsKept
  <1>5. CASE proc[c].at = "newWork" /\ \E a \in ScaleOuts : ScalesOut(c, a)
    <2>1. PICK a \in ScaleOuts : ScalesOut(c, a)
      BY <1>5
    <2>2. /\ Only({c, a}) /\ starting' = starting + 1 /\ Cardinality(Accepting) + starting < MaxReady
          /\ proc[a].at \notin Starting /\ proc'[a].at = "start"
          /\ proc[c].at \notin Starting /\ proc'[c].at \notin Starting
      BY <1>5, <2>1 DEF ScalesOut, CanScaleOut, Starting, Takes, HoldLabels
    <2>3. StartersSame({a})
      BY <2>2, OnlySame
    <2> QED BY <2>2, <2>3, ActorKinds DEF StartMove, StartBegins
  <1> QED BY <1>1, <1>2, <1>3, <1>4, <1>5 DEF OnPool

LEMMA AcceptingFinite ==
    ASSUME Shape
    PROVE  IsFiniteSet(backends) /\ IsFiniteSet(Accepting) /\ Cardinality(Accepting) \in Nat
  <1>1. backends \subseteq 1 .. nextID /\ nextID \in Int
    BY SMT, ShapeGives DEF Types
  <1>2. IsFiniteSet(1 .. nextID)
    BY SMT, <1>1, FS_Interval
  <1>3. IsFiniteSet(backends)
    BY <1>1, <1>2, FS_Subset
  <1>4. IsFiniteSet(Accepting)
    BY <1>3, FS_Subset DEF Accepting
  <1> QED BY <1>3, <1>4, FS_CardinalityType

LEMMA GoroutineStarts ==
    ASSUME Shape, NEW a \in Actors, OfGoroutine(a)
    PROVE  StartsKept \/ StartMove(a)
  <1>1. CASE Joins(a)
    BY <1>1 DEF StartMove
  <1>2. CASE Settled(a)
    <2>1. Only({a}) /\ starting' = starting - 1 /\ proc[a].at = "settle" /\ proc'[a].at \notin Starting
      BY <1>2 DEF Settled, Settles
    <2> QED BY <2>1, OnlySame DEF StartMove, StartEnds
  <1>3. CASE Ensures(a)
    <2>1. Only({a}) /\ proc[a].at \notin Starting
      BY <1>3 DEF Ensures, Starting
    <2>2. CASE starting' = starting /\ proc'[a].at \in {"idle", "check", "drain"}
      <3>1. proc'[a].at \notin Starting
        BY <2>2 DEF Starting
      <3> QED BY <2>1, <2>2, <3>1, OnlySame DEF StartsKept
    <2>3. CASE starting' = starting + 1 /\ proc'[a].at = "start" /\ ~Enough
      <3>1. Cardinality(Accepting) \in Nat
        BY AcceptingFinite
      <3>2. starting \in Int /\ MinReady \in Nat /\ MaxReady \in Nat /\ MinReady <= MaxReady
        BY ShapeGives, PoolConstants DEF Types
      <3>3. Cardinality(Accepting) + starting < MaxReady
        BY SMT, <2>3, <3>1, <3>2 DEF Enough
      <3>4. StartersSame({a})
        BY <2>1, OnlySame
      <3> QED BY <2>1, <2>3, <3>3, <3>4 DEF StartMove, StartBegins
    <2> QED BY <1>3, <2>2, <2>3 DEF Ensures
  <1>4. CASE DrainsFirst(a) \/ Removes(a) \/ Finishes(a)
    <2>1. /\ Only({a}) /\ starting' = starting /\ proc[a].at \in DrainLabels
          /\ proc'[a].at \in DrainLabels \cup {"idle"}
      BY <1>4 DEF DrainsFirst, Removes, Finishes, DrainLabels
    <2>2. proc[a].at \notin Starting /\ proc'[a].at \notin Starting
      BY <2>1 DEF DrainLabels, Starting
    <2> QED BY <2>1, <2>2, OnlySame DEF StartsKept
  <1> QED BY <1>1, <1>2, <1>3, <1>4 DEF OfGoroutine

LEMMA InstanceStarts ==
    ASSUME Shape, Successors, NEW b \in Backends, OfInstance(b)
    PROVE  StartsKept \/ \E a \in Actors : StartMove(a)
  <1> Proactive(b) \in Actors /\ Health \in Actors /\ Health # Proactive(b)
    BY ProactiveActor
  <1>1. CASE ProactiveSettles(b)
    <2>1. /\ Only({Proactive(b)}) /\ starting' = starting - 1 /\ proc[Proactive(b)].at = "settle"
          /\ proc'[Proactive(b)].at \notin Starting
      BY <1>1 DEF ProactiveSettles, Settles
    <2> QED BY <2>1, OnlySame DEF StartMove, StartEnds
  <1>2. CASE Checks(b)
    <2>1. proc[Health].at \notin Starting /\ proc'[Health].at \notin Starting
      BY <1>2 DEF Checks, Starting
    <2>2. CASE Retires(b, Health) /\ starting' = starting
      BY <2>1, <2>2, RetiresSame DEF StartsKept
    <2>3. CASE ~(Retires(b, Health) /\ starting' = starting)
      <3>1. /\ Only({Health, Proactive(b)}) /\ starting' = starting + 1 /\ CanScaleOut
            /\ ~Is(b, "replacing") /\ proc'[Proactive(b)].at = "start"
        BY <1>2, <2>3 DEF Checks
      <3>2. proc[Proactive(b)].at \notin Starting
        BY <3>1 DEF Successors
      <3>3. StartersSame({Proactive(b)})
        BY <2>1, <3>1, OnlySame
      <3> QED BY <3>1, <3>2, <3>3 DEF StartMove, StartBegins, CanScaleOut
    <2> QED BY <2>2, <2>3
  <1>3. CASE Marking(b)
    BY <1>3 DEF Marking, StartsKept, StartersSame
  <1> QED BY <1>1, <1>2, <1>3 DEF OfInstance

LEMMA StepStarts ==
    ASSUME Shape, Successors, Step
    PROVE  StartsKept \/ \E a \in Actors : StartMove(a)
  <1>1. CASE Closes
    <2>1. /\ starting' = starting /\ proc'[Closer].at = "wait" /\ (\A b \in backends : proc'[CloserOf(b)].at = "drain")
          /\ \A a \in Actors : a # Closer /\ (\A b \in backends : a # CloserOf(b)) => proc'[a] = proc[a]
      BY <1>1 DEF Closes
    <2>2. proc[Closer].at \notin Starting /\ \A b \in backends : proc[CloserOf(b)].at \notin Starting
      <3>0. \A b \in backends : b \in Backends
        BY SMT, ShapeGives DEF Types, Backends
      <3>1. Closer \in Actors /\ \A b \in backends : CloserOf(b) \in Actors /\ b \in Backends
        BY <3>0, ActorKinds
      <3>2. proc[Closer].at \in {"idle", "wait", "done"}
        BY <3>1 DEF Shape, Placed, ActorShape
      <3>3. \A b \in backends : proc[CloserOf(b)].at \in CloserLabels
        BY <3>1 DEF Shape, Placed, ActorShape, DrainerShape
      <3> QED BY <3>2, <3>3 DEF CloserLabels, Starting
    <2>3. "wait" \notin Starting /\ "drain" \notin Starting
      BY DEF Starting
    <2> QED BY <2>1, <2>2, <2>3 DEF StartsKept, StartersSame
  <1>2. CASE CloseEnds
    <2>1. Only({Closer}) /\ starting' = starting /\ proc[Closer].at \notin Starting /\ proc'[Closer].at \notin Starting
      BY <1>2 DEF CloseEnds, Starting
    <2> QED BY <2>1, OnlySame DEF StartsKept
  <1>3. CASE Ending \/ UNCHANGED vars
    BY <1>3 DEF Ending, vars, StartsKept, StartersSame
  <1> QED BY <1>1, <1>2, <1>3, CallerStarts, GoroutineStarts, InstanceStarts DEF Step

\* There are finitely many goroutines.
LEMMA ActorsFinite == IsFiniteSet(Actors)
  <1>1. IsFiniteSet(Backends) /\ IsFiniteSet(1 .. MaxReady)
    BY SMT, FS_Interval, PoolConstants DEF Backends
  <1>2. IsFiniteSet(Replacers)
    <2> DEFINE f == [b \in Backends |-> Replacer(b)]
    <2>1. f \in Surjection(Backends, Replacers)
      BY DEF Surjection, Replacers
    <2> QED BY <1>1, <2>1, FS_Surjection
  <1>3. IsFiniteSet(Proactives)
    <2> DEFINE f == [b \in Backends |-> Proactive(b)]
    <2>1. f \in Surjection(Backends, Proactives)
      BY DEF Surjection, Proactives
    <2> QED BY <1>1, <2>1, FS_Surjection
  <1>4. IsFiniteSet(Closers)
    <2> DEFINE f == [b \in Backends |-> CloserOf(b)]
    <2>1. f \in Surjection(Backends, Closers)
      BY DEF Surjection, Closers
    <2> QED BY <1>1, <2>1, FS_Surjection
  <1>5. IsFiniteSet(ScaleOuts)
    <2> DEFINE f == [n \in 1 .. MaxReady |-> ScaleOut(n)]
    <2>1. f \in Surjection(1 .. MaxReady, ScaleOuts)
      BY DEF Surjection, ScaleOuts
    <2> QED BY <1>1, <2>1, FS_Surjection
  <1>6. IsFiniteSet({Health}) /\ IsFiniteSet({Closer}) /\ IsFiniteSet(Clients)
    BY FS_Singleton, PoolClients
  <1>7. IsFiniteSet(Lifecycle)
    BY <1>2, <1>3, <1>5, <1>6, FS_Union DEF Lifecycle
  <1> QED BY <1>4, <1>6, <1>7, FS_Union DEF Actors

LEMMA InitStarts ==
    ASSUME Init
    PROVE  StartsCounted
  <1>1. \A a \in Actors : proc[a].at = "idle"
    BY DEF Init, At
  <1>2. Starters = {}
    BY <1>1 DEF Starters, Starting
  <1> QED BY <1>2, FS_EmptySet DEF StartsCounted, Init

LEMMA StartsKeptCount ==
    ASSUME StartsKept \/ \E a \in Actors : StartMove(a), StartsCounted
    PROVE  StartsCounted'
  <1>1. IsFiniteSet(Starters)
    BY ActorsFinite, FS_Subset DEF Starters
  <1>2. CASE StartsKept
    <2>1. Starters' = Starters /\ starting' = starting
      BY <1>2 DEF Starters, StartsKept, StartersSame
    <2> QED BY <2>1 DEF StartsCounted
  <1>3. ASSUME NEW a \in Actors, StartBegins(a)
        PROVE  StartsCounted'
    <2>1. Starters' = Starters \cup {a} /\ a \notin Starters /\ starting' = starting + 1
      BY <1>3 DEF Starters, StartBegins, StartersSame, Starting
    <2> QED BY <1>1, <2>1, FS_AddElement DEF StartsCounted
  <1>4. ASSUME NEW a \in Actors, StartEnds(a)
        PROVE  StartsCounted'
    <2>1. Starters' = Starters \ {a} /\ a \in Starters /\ starting' = starting - 1
      BY <1>4 DEF Starters, StartEnds, StartersSame, Starting
    <2> QED BY <1>1, <2>1, FS_RemoveElement DEF StartsCounted
  <1>5. ASSUME NEW a \in Actors, Joins(a)
        PROVE  StartsCounted'
    <2>1. Starters' = Starters /\ starting' = starting
      BY <1>5 DEF Starters, Joins, Only, Starting
    <2> QED BY <2>1 DEF StartsCounted
  <1> QED BY <1>2, <1>3, <1>4, <1>5 DEF StartMove

-----------------------------------------------------------------------------
(* CapacityKept. *)

\* Only a start that ends in an instance adds to those that accept work.
LEMMA AcceptingShrinks ==
    ASSUME Shape, Grows, backends' \subseteq backends
    PROVE  Accepting' \subseteq Accepting
  <1> SUFFICES ASSUME NEW b \in backends', Accepts(b)' PROVE b \in Accepting
    BY DEF Accepting
  <1>1. b \in backends /\ b \in Backends
    BY SMT, ShapeGives DEF Types, Backends
  <1>2. \A m \in {"draining", "closing", "closed", "due", "stale"} : m \in marks[b] => m \in marks'[b]
    BY <1>1 DEF Grows
  <1> QED BY <1>1, <1>2 DEF Accepting, Accepts, Available, Is

LEMMA LandedFinite == IsFiniteSet(Landed) /\ Cardinality(Landed) \in Nat
  <1>1. Landed \subseteq Actors
    BY DEF Landed
  <1> QED BY <1>1, ActorsFinite, FS_Subset, FS_CardinalityType

\* Whatever else a step does, it lets an instance in only in Joins.
LEMMA NoneJoins ==
    ASSUME Shape, Step, StartsKept \/ \E a \in Actors : StartBegins(a) \/ StartEnds(a)
    PROVE  backends' \subseteq backends
  <1>1. \A a \in Actors : ~Joins(a)
    BY DEF Joins, StartsKept, StartBegins, StartEnds, StartersSame, Starting
  <1>2. ASSUME NEW c \in Clients, OnPool(c) PROVE backends' \subseteq backends
    BY <1>2 DEF OnPool, Quiet, Grabs, Takes, CallStarts, CallSettles, Drops, ScalesOut
  <1>3. ASSUME NEW a \in Actors, OfGoroutine(a) PROVE backends' \subseteq backends
    BY <1>1, <1>3 DEF OfGoroutine, Settled, Settles, Ensures, DrainsFirst, Removes, Finishes
  <1>4. ASSUME NEW b \in Backends, OfInstance(b) PROVE backends' \subseteq backends
    BY <1>4 DEF OfInstance, ProactiveSettles, Settles, Checks, Marking
  <1>5. CASE Closes \/ CloseEnds \/ Ending \/ UNCHANGED vars
    BY <1>5 DEF Closes, CloseEnds, Ending, vars, instances
  <1> QED BY <1>2, <1>3, <1>4, <1>5 DEF Step

LEMMA CapacityStep ==
    ASSUME Shape, Shape', Successors, StartsCounted, CapacityKept, Step
    PROVE  CapacityKept'
  <1> DEFINE A == Cardinality(Accepting)
             L == Cardinality(Landed)
             A1 == Cardinality(Accepting')
             L1 == Cardinality(Landed')
  <1>1. A \in Nat /\ A1 \in Nat /\ IsFiniteSet(Accepting) /\ IsFiniteSet(Accepting')
    <2>1. IsFiniteSet(Accepting) /\ A \in Nat
      BY AcceptingFinite
    <2>2. IsFiniteSet(Accepting') /\ A1 \in Nat
      <3>1. backends' \subseteq 1 .. nextID' /\ nextID' \in Int
        BY SMT DEF Shape, Types
      <3>2. Accepting' \subseteq 1 .. nextID'
        BY <3>1 DEF Accepting
      <3>3. IsFiniteSet(1 .. nextID')
        BY SMT, <3>1, FS_Interval
      <3>4. IsFiniteSet(Accepting')
        BY <3>2, <3>3, FS_Subset
      <3> QED BY <3>4, FS_CardinalityType
    <2> QED BY <2>1, <2>2
  <1>2. L \in Nat /\ L1 \in Nat /\ IsFiniteSet(Landed) /\ IsFiniteSet(Landed')
    <2>1. Landed' \subseteq Actors /\ Landed \subseteq Actors
      BY DEF Landed
    <2> QED BY <2>1, ActorsFinite, FS_Subset, FS_CardinalityType
  <1>3. starting \in Int /\ MaxReady \in Nat /\ Grows /\ A + starting - L <= MaxReady
    BY ShapeGives, PoolConstants, StepGrows DEF Types, CapacityKept
  <1> SUFFICES A1 + starting' - L1 <= MaxReady
    BY DEF CapacityKept
  <1>4. ASSUME StartsKept \/ \E a \in Actors : StartBegins(a) \/ StartEnds(a)
        PROVE  A1 <= A
    <2>1. Accepting' \subseteq Accepting
      BY <1>3, <1>4, NoneJoins, AcceptingShrinks
    <2> QED BY <1>1, <2>1, FS_Subset
  <1>5. CASE StartsKept
    <2>1. Landed' = Landed /\ starting' = starting
      BY <1>5 DEF Landed, StartsKept, StartersSame, Starting
    <2> QED BY SMT, <1>1, <1>2, <1>3, <1>4, <1>5, <2>1
  <1>6. ASSUME NEW a \in Actors, StartBegins(a)
        PROVE  A1 + starting' - L1 <= MaxReady
    <2>1. starting' = starting + 1 /\ A + starting < MaxReady
      BY <1>6 DEF StartBegins
    <2> QED BY SMT, <1>1, <1>2, <1>3, <1>4, <1>6, <2>1
  <1>7. ASSUME NEW a \in Actors, StartEnds(a)
        PROVE  A1 + starting' - L1 <= MaxReady
    <2>1. starting' = starting - 1 /\ Landed' = Landed \ {a}
      BY <1>7 DEF StartEnds, Landed, StartersSame, Starting
    <2>2. L1 >= L - 1
      BY SMT, <1>2, <2>1, FS_RemoveElement
    <2> QED BY SMT, <1>1, <1>2, <1>3, <1>4, <1>7, <2>1, <2>2
  <1>8. ASSUME NEW a \in Actors, Joins(a)
        PROVE  A1 + starting' - L1 <= MaxReady
    <2>1. starting' = starting /\ marks' = marks /\ proc[a].at = "start" /\ proc'[a].at = "settle" /\ Only({a})
      BY <1>8 DEF Joins
    <2>2. CASE nextID' = nextID + 1 /\ backends' = backends \cup {nextID + 1} /\ proc'[a].pref = nextID + 1
      <3>1. proc'[a].pref # NoBackend
        BY SMT, <2>2, <1>3 DEF Grows, NoBackend
      <3>2. Landed' = Landed \cup {a} /\ a \notin Landed
        BY <2>1, <3>1 DEF Landed, Only
      <3>3. L1 = L + 1
        BY <1>2, <3>2, FS_AddElement
      <3>4. Accepting' \subseteq Accepting \cup {nextID + 1}
        BY <2>1, <2>2 DEF Accepting, Accepts, Available, Is
      <3>5. IsFiniteSet(Accepting \cup {nextID + 1}) /\ Cardinality(Accepting \cup {nextID + 1}) <= A + 1
        <4>1. Cardinality(Accepting \cup {nextID + 1}) \in {A, A + 1}
          BY <1>1, FS_AddElement
        <4> QED BY SMT, <1>1, <4>1, FS_AddElement
      <3>6. A1 <= A + 1
        <4>1. A1 <= Cardinality(Accepting \cup {nextID + 1}) /\ Cardinality(Accepting \cup {nextID + 1}) \in Nat
          BY <3>4, <3>5, FS_Subset, FS_CardinalityType
        <4> QED BY SMT, <1>1, <3>5, <4>1
      <3> QED BY SMT, <1>1, <1>2, <1>3, <2>1, <3>3, <3>6
    <2>3. CASE UNCHANGED <<nextID, backends>> /\ proc'[a].pref = NoBackend
      <3>1. Landed' = Landed
        BY <2>1, <2>3 DEF Landed, Only
      <3>2. Accepting' = Accepting
        BY <2>1, <2>3 DEF Accepting, Accepts, Available, Is
      <3> QED BY <1>1, <1>2, <1>3, <2>1, <3>1, <3>2
    <2> QED BY <1>8, <2>2, <2>3 DEF Joins
  <1> QED BY <1>5, <1>6, <1>7, <1>8, StepStarts DEF StartMove

-----------------------------------------------------------------------------
(* Who closes an instance. *)

Carrying == {"wait", "provider"}

\* a has the instance b to close.
Carries(a, b) == proc[a].at \in Carrying /\ proc[a].b = b

\* How far b is.
Progress(b) ==
    /\ closes[b] \in {0, 1}
    /\ closes[b] = 1 => Is(b, "closed")
    /\ Is(b, "closed") => Is(b, "closing") /\ b \notin backends
    /\ b <= nextID /\ b \notin backends => Is(b, "closed")
    /\ Is(b, "closing") => closes[b] = 1 \/ \E a \in Drainers : Carries(a, b)
    /\ closed /\ b \in backends => Is(b, "closing") \/ proc[CloserOf(b)].at = "drain"
    /\ proc[CloserOf(b)].at # "idle" => closed

\* Nobody else has b, and a closes it last.
Alone(a, b) ==
    /\ closes[b] = 0 /\ Is(b, "closing")
    /\ Is(b, "closed") <=> proc[a].at = "provider"
    /\ \A d \in Drainers : Carries(d, b) => d = a

CloserDone == proc[Closer].at = "done" => backends = {} /\ \A a \in WaitedFor : proc[a].at = "idle"

Drains ==
    /\ \A b \in Backends : Progress(b)
    /\ \A a \in Drainers, b \in Backends : Carries(a, b) => Alone(a, b)
    /\ proc[Closer].at # "idle" <=> closed
    /\ CloserDone

\* What the steps that drain nothing leave alone.
CarriersSame ==
    \A a \in Drainers : proc'[a] = proc[a] \/ (proc[a].at \notin Carrying /\ proc'[a].at \notin Carrying)
ClosersSame ==
    proc'[Closer] = proc[Closer] /\ \A b \in Backends : proc'[CloserOf(b)] = proc[CloserOf(b)]
IdleStay == \A a \in WaitedFor : proc[a].at = "idle" => proc'[a].at = "idle" \/ ~closed \/ backends # {}
GoroutinesSame == CarriersSame /\ ClosersSame /\ IdleStay
SameMarks == \A b \in Backends, m \in {"closing", "closed"} : m \in marks'[b] <=> m \in marks[b]

LEMMA OnlyGoroutines ==
    ASSUME NEW S, Only(S), Closer \notin S, S \cap Closers = {},
           \A a \in S \cap Drainers : proc[a].at \notin Carrying /\ proc'[a].at \notin Carrying,
           \A a \in S \cap WaitedFor : proc[a].at # "idle" \/ ~closed \/ backends # {}
    PROVE  GoroutinesSame
  <1>1. Drainers \subseteq Actors /\ Closer \in Actors /\ WaitedFor \subseteq Actors
        /\ \A b \in Backends : CloserOf(b) \in Closers /\ CloserOf(b) \in Actors
    BY ActorKinds DEF WaitedFor, Actors
  <1>2. CarriersSame
    BY <1>1 DEF Only, CarriersSame
  <1>3. ClosersSame
    BY <1>1 DEF Only, ClosersSame
  <1>4. IdleStay
    BY <1>1 DEF Only, IdleStay
  <1> QED BY <1>2, <1>3, <1>4 DEF GoroutinesSame

LEMMA NotWaitedFor ==
    /\ Clients \cap WaitedFor = {} /\ Clients \cap Drainers = {} /\ Closer \notin Clients
    /\ Closer \notin WaitedFor /\ Drainers \subseteq WaitedFor /\ Closers \subseteq Drainers
    /\ \A a \in {Health} \cup Replacers \cup Proactives \cup ScaleOuts : a \in WaitedFor /\ a # Closer /\ a \notin Closers
    /\ \A a \in Drainers : a # Closer /\ a # Health /\ a \notin ScaleOuts
  <1>1. Clients \cap WaitedFor = {}
    BY PoolClients DEF WaitedFor
  <1>2. Drainers \subseteq WaitedFor
    BY DEF WaitedFor, Lifecycle, Drainers
  <1>3. Closers \subseteq Drainers /\ Replacers \subseteq Drainers /\ Proactives \subseteq Drainers
    BY DEF Drainers
  <1>4. {Health} \cup ScaleOuts \subseteq WaitedFor
    BY DEF WaitedFor, Lifecycle
  <1>5. WaitedFor = {Health} \cup ScaleOuts \cup Drainers
    BY DEF WaitedFor, Lifecycle, Drainers
  <1>6. Closer \notin Clients /\ Closer \notin Drainers /\ Health \notin Drainers /\ Health # Closer
        /\ Closer \notin ScaleOuts /\ ScaleOuts \cap Drainers = {}
    BY ActorsApart
  <1>7. Closer \notin WaitedFor
    BY <1>5, <1>6
  <1>8. \A a \in Replacers \cup Proactives : a \notin Closers
    BY ActorsApart
  <1> QED BY <1>1, <1>2, <1>3, <1>4, <1>6, <1>7, <1>8

LEMMA RetiresGoroutines ==
    ASSUME Successors, NEW b \in Backends, NEW d \in Clients \cup {Health}, Retires(b, d),
           d = Health => proc[d].at # "idle"
    PROVE  GoroutinesSame /\ SameMarks
  <1>1. Only({d, Replacer(b)}) /\ Replacer(b) \in Actors /\ Replacer(b) \in Replacers
    BY ProactiveActor, ActorKinds DEF Retires
  <1>2. SameMarks
    BY DEF Retires, SameMarks
  <1>3. d # Closer /\ d \notin Closers /\ d \notin Drainers /\ (d \in WaitedFor => proc[d].at # "idle")
        /\ Replacer(b) # Closer /\ Replacer(b) \notin Closers
    BY <1>1, NotWaitedFor
  <1>4. CASE proc'[Replacer(b)] = proc[Replacer(b)]
    <2>1. Only({d})
      BY <1>1, <1>4 DEF Only
    <2> QED BY <1>2, <1>3, <2>1, OnlyGoroutines
  <1>5. CASE proc'[Replacer(b)] # proc[Replacer(b)]
    <2>1. ~closed /\ ~Is(b, "draining") /\ ~Is(b, "closed") /\ proc'[Replacer(b)].at = "ensure"
      BY <1>5 DEF Retires
    <2>2. proc[Replacer(b)].at = "idle"
      BY <2>1 DEF Successors
    <2>3. proc[Replacer(b)].at \notin Carrying /\ proc'[Replacer(b)].at \notin Carrying
      BY <2>1, <2>2 DEF Carrying
    <2> QED BY <1>1, <1>2, <1>3, <2>1, <2>3, OnlyGoroutines
  <1> QED BY <1>4, <1>5

NoDrain ==
    /\ closes' = closes /\ closed' = closed /\ SameMarks /\ GoroutinesSame
    /\ \/ UNCHANGED <<nextID, backends>>
       \/ ~closed /\ nextID' = nextID + 1 /\ backends' = backends \cup {nextID + 1}

LEMMA CallerNoDrain ==
    ASSUME Shape, Successors, NEW c \in Clients, OnPool(c)
    PROVE  NoDrain
  <1>1. CASE Drops(c)
    <2>1. /\ UNCHANGED <<closes, closed, nextID, backends>> /\ Retires(proc[c].b, c) /\ proc[c].b \in Backends
      BY <1>1, HeldInstance DEF Drops
    <2>2. c # Health
      BY ActorsApart
    <2> QED BY <2>1, <2>2, RetiresGoroutines DEF NoDrain
  <1>2. CASE ~Drops(c)
    <2>1. UNCHANGED <<closes, closed, nextID, backends, marks>>
      BY <1>2 DEF OnPool, Quiet, Grabs, Takes, CallStarts, CallSettles, ScalesOut
    <2>2. SameMarks
      BY <2>1 DEF SameMarks
    <2>3. CASE Only({c})
      <3>1. c # Closer /\ c \notin Closers /\ c \notin Drainers /\ c \notin WaitedFor
        BY NotWaitedFor
      <3>2. GoroutinesSame
        BY <2>3, <3>1, OnlyGoroutines
      <3> QED BY <2>1, <2>2, <3>2 DEF NoDrain
    <2>4. CASE ~Only({c})
      <3>1. PICK a \in ScaleOuts : ScalesOut(c, a)
        BY <1>2, <2>4 DEF OnPool, Quiet, Grabs, CallStarts, CallSettles
      <3>2. Only({c, a}) /\ backends # {}
        BY <3>1 DEF ScalesOut, Takes
      <3>3. /\ c # Closer /\ c \notin Closers /\ c \notin Drainers /\ c \notin WaitedFor
            /\ a # Closer /\ a \notin Closers /\ a \notin Drainers
        BY NotWaitedFor
      <3>4. GoroutinesSame
        BY <3>2, <3>3, OnlyGoroutines
      <3> QED BY <2>1, <2>2, <3>4 DEF NoDrain
    <2> QED BY <2>3, <2>4
  <1> QED BY <1>1, <1>2

LEMMA GoroutineNoDrain ==
    ASSUME Shape, Successors, NEW a \in Actors, Joins(a) \/ Settled(a) \/ Ensures(a)
    PROVE  NoDrain
  <1>1. /\ UNCHANGED <<closes, closed, marks>> /\ Only({a})
    BY DEF Joins, Settled, Settles, Ensures
  <1>2. SameMarks
    BY <1>1 DEF SameMarks
  <1>3. \/ UNCHANGED <<nextID, backends>>
        \/ ~closed /\ nextID' = nextID + 1 /\ backends' = backends \cup {nextID + 1}
    BY DEF Joins, Settled, Settles, Ensures
  <1>4. proc[a].at \notin Carrying /\ proc'[a].at \notin Carrying
    BY DEF Joins, Settled, Settles, Ensures, Carrying
  <1>5. a # Closer /\ a \notin Closers
    <2>1. CASE Joins(a)
      <3>1. proc[a].at = "start" /\ ActorShape(a, proc[a])
        BY <2>1 DEF Joins, Shape, Placed
      <3>2. a # Closer /\ \A b \in Backends : a # CloserOf(b)
        BY <3>1 DEF ActorShape, DrainerShape, CloserLabels
      <3> QED BY <3>2, ActorKinds
    <2>2. CASE Settled(a) \/ Ensures(a)
      BY <2>2, NotWaitedFor DEF Settled, Ensures
    <2> QED BY <2>1, <2>2
  <1>6. proc[a].at # "idle" \/ ~closed
    BY DEF Joins, Settled, Settles, Ensures
  <1>7. GoroutinesSame
    BY <1>1, <1>4, <1>5, <1>6, OnlyGoroutines
  <1> QED BY <1>1, <1>2, <1>3, <1>7 DEF NoDrain

LEMMA InstanceNoDrain ==
    ASSUME Shape, Successors, NEW b \in Backends, OfInstance(b)
    PROVE  NoDrain
  <1>1. Proactive(b) \in Proactives /\ Proactive(b) \in Actors
    BY ActorKinds, ProactiveActor
  <1>2. UNCHANGED <<closes, closed, nextID, backends>>
    BY DEF OfInstance, ProactiveSettles, Settles, Checks, Marking
  <1> marks \in [Backends -> SUBSET Marks]
    BY ShapeGives DEF Types
  <1>3. CASE ProactiveSettles(b)
    <2>1. /\ Only({Proactive(b)}) /\ proc[Proactive(b)].at = "settle"
          /\ proc'[Proactive(b)].at \in {"drain", "idle"}
      BY <1>3 DEF ProactiveSettles, Settles
    <2>2. SameMarks
      BY <1>3 DEF ProactiveSettles, SameMarks
    <2>3. proc[Proactive(b)].at \notin Carrying /\ proc'[Proactive(b)].at \notin Carrying /\ proc[Proactive(b)].at # "idle"
      BY <2>1 DEF Carrying
    <2>4. GoroutinesSame
      BY <1>1, <2>1, <2>3, NotWaitedFor, OnlyGoroutines
    <2> QED BY <1>2, <2>2, <2>4 DEF NoDrain
  <1>4. CASE Checks(b)
    <2>1. proc[Health].at # "idle"
      BY <1>4 DEF Checks
    <2>2. CASE Retires(b, Health)
      BY <1>2, <2>1, <2>2, RetiresGoroutines DEF NoDrain
    <2>3. CASE ~Retires(b, Health)
      <3>1. /\ Only({Health, Proactive(b)}) /\ ~closed /\ Available(b, FALSE)
            /\ marks' = [marks EXCEPT ![b] = @ \cup {"replacing"}] /\ proc'[Proactive(b)].at = "start"
        BY <1>4, <2>3 DEF Checks
      <3>2. SameMarks
        BY <3>1 DEF SameMarks
      <3>3. proc[Proactive(b)].at \notin Carrying /\ proc'[Proactive(b)].at \notin Carrying
        BY <3>1 DEF Successors, DrainLabels, Carrying
      <3>4. /\ Health # Closer /\ Health \notin Closers /\ Health \notin Drainers
            /\ Proactive(b) # Closer /\ Proactive(b) \notin Closers
        BY <1>1, NotWaitedFor
      <3>5. GoroutinesSame
        BY <3>1, <3>3, <3>4, OnlyGoroutines
      <3> QED BY <1>2, <3>2, <3>5 DEF NoDrain
    <2> QED BY <2>2, <2>3
  <1>5. CASE Marking(b)
    <2>1. proc' = proc
      BY <1>5 DEF Marking
    <2>2. SameMarks
      BY <1>5 DEF Marking, SameMarks, Faults
    <2> QED BY <1>2, <2>1, <2>2 DEF NoDrain, GoroutinesSame, CarriersSame, ClosersSame, IdleStay
  <1> QED BY <1>3, <1>4, <1>5 DEF OfInstance

LEMMA NoDrainKeeps ==
    ASSUME Shape, Shape', Successors, Drains, NoDrain
    PROVE  Drains'
  <1>1. /\ closes' = closes /\ closed' = closed /\ SameMarks /\ CarriersSame /\ ClosersSame /\ IdleStay
    BY DEF NoDrain, GoroutinesSame
  <1>2. \A a \in Drainers, b \in Backends :
            /\ Carries(a, b)' <=> Carries(a, b)
            /\ Carries(a, b) => proc'[a].at = proc[a].at
    BY <1>1 DEF CarriersSame, Carries
  <1>3. \A b \in Backends : /\ Is(b, "closed")' <=> Is(b, "closed")
                            /\ Is(b, "closing")' <=> Is(b, "closing")
    BY <1>1 DEF SameMarks, Is
  <1>4. nextID \in Nat /\ \A b \in Backends : b \in Nat
    BY SMT, ShapeGives DEF Backends
  <1>5. \A b \in Backends : /\ b \in backends => b \in backends'
                            /\ b \in backends' /\ b \notin backends => b = nextID + 1 /\ ~closed
                            /\ b <= nextID' /\ b \notin backends' => b <= nextID
    BY SMT, <1>4 DEF NoDrain
  <1>6. ~Is(nextID + 1, "closed") \/ nextID + 1 \notin Backends
    <2>1. nextID + 1 > nextID
      BY SMT, <1>4
    <2>2. nextID + 1 \in Backends => marks[nextID + 1] = {}
      BY <2>1 DEF Successors
    <2> QED BY <2>2 DEF Is
  <1>7. ASSUME NEW b \in Backends
        PROVE  Progress(b)'
    <2> Progress(b)
      BY DEF Drains
    <2>1. closes'[b] \in {0, 1} /\ (closes'[b] = 1 => Is(b, "closed")')
      BY <1>1, <1>3 DEF Progress
    <2>2. Is(b, "closed")' => Is(b, "closing")' /\ b \notin backends'
      BY <1>3, <1>5, <1>6 DEF Progress
    <2>3. b <= nextID' /\ b \notin backends' => Is(b, "closed")'
      BY <1>3, <1>5 DEF Progress
    <2>4. Is(b, "closing")' => closes'[b] = 1 \/ \E a \in Drainers : Carries(a, b)'
      BY <1>1, <1>2, <1>3 DEF Progress
    <2>5. closed' /\ b \in backends' => Is(b, "closing")' \/ proc'[CloserOf(b)].at = "drain"
      BY SMT, <1>1, <1>3, <1>5 DEF Progress, ClosersSame
    <2>6. proc'[CloserOf(b)].at # "idle" => closed'
      BY <1>1 DEF Progress, ClosersSame
    <2> QED BY <2>1, <2>2, <2>3, <2>4, <2>5, <2>6 DEF Progress
  <1>8. ASSUME NEW a \in Drainers, NEW b \in Backends, Carries(a, b)'
        PROVE  Alone(a, b)'
    <2>1. Carries(a, b) /\ proc'[a].at = proc[a].at
      BY <1>2, <1>8
    <2>2. Alone(a, b)
      BY <2>1 DEF Drains
    <2> QED BY <1>1, <1>2, <1>3, <2>1, <2>2 DEF Alone
  <1>9. proc'[Closer].at # "idle" <=> closed'
    BY <1>1 DEF Drains, ClosersSame
  <1>10. ASSUME proc'[Closer].at = "done"
         PROVE  backends' = {} /\ \A a \in WaitedFor : proc'[a].at = "idle"
    <2>1. proc[Closer].at = "done" /\ closed /\ backends = {} /\ \A a \in WaitedFor : proc[a].at = "idle"
      <3>1. proc[Closer].at = "done"
        BY <1>1, <1>10 DEF ClosersSame
      <3>2. proc[Closer].at # "idle"
        BY <3>1
      <3> QED BY <3>1, <3>2 DEF Drains, CloserDone
    <2>2. backends' = {}
      BY <2>1 DEF NoDrain
    <2> QED BY <1>1, <2>1, <2>2 DEF IdleStay
  <1> QED BY <1>7, <1>8, <1>9, <1>10 DEF Drains, CloserDone

\* A drainer at work on b: who it is, and that Close has not returned.
LEMMA DrainerAtWork ==
    ASSUME Shape, Drains, NEW a \in Drainers, proc[a].at # "idle", Only({a})
    PROVE  /\ proc[a].b \in Backends /\ proc[a].b \in 1 .. nextID /\ a \in Actors
           /\ \A d \in Backends : a = CloserOf(d) => d = proc[a].b
           /\ \A d \in Backends : d # proc[a].b => proc'[CloserOf(d)] = proc[CloserOf(d)]
           /\ proc'[Closer] = proc[Closer] /\ proc[Closer].at # "done"
           /\ \A d \in Drainers \ {a} : proc'[d] = proc[d]
  <1>1. proc[a].b \in Backends /\ proc[a].b \in 1 .. nextID /\ a \in Actors
    BY DrainActor, ActorKinds
  <1>2. \A d \in Backends : a = CloserOf(d) => d = proc[a].b
    BY <1>1 DEF Shape, Placed, ActorShape, DrainerShape
  <1>3. Closer \in Actors /\ Closer # a /\ \A d \in Backends : CloserOf(d) \in Actors
    BY ActorKinds, NotWaitedFor
  <1>4. proc[Closer].at # "done"
    BY NotWaitedFor DEF Drains, CloserDone
  <1>5. \A d \in Drainers \ {a} : proc'[d] = proc[d]
    BY ActorKinds DEF Only
  <1> QED BY <1>1, <1>2, <1>3, <1>4, <1>5 DEF Only

LEMMA DrainsFirstKeeps ==
    ASSUME Shape, Drains, NEW a \in Actors, DrainsFirst(a)
    PROVE  Drains'
  <1>1. /\ UNCHANGED <<closed, nextID, backends, closes>>
        /\ Only({a}) /\ a \in Drainers /\ proc[a].at = "drain" /\ proc[a].at # "idle"
    BY DEF DrainsFirst
  <1>0. PICK b \in Backends : proc[a].b = b
    BY <1>1, DrainerAtWork
  <1>2. /\ b \in Backends /\ b \in 1 .. nextID
        /\ \A d \in Backends : a = CloserOf(d) => d = b
        /\ \A d \in Backends : d # b => proc'[CloserOf(d)] = proc[CloserOf(d)]
        /\ proc'[Closer] = proc[Closer] /\ proc[Closer].at # "done"
        /\ \A d \in Drainers \ {a} : proc'[d] = proc[d]
    BY <1>0, <1>1, DrainerAtWork
  <1>3. marks \in [Backends -> SUBSET Marks]
    BY ShapeGives DEF Types
  <1>4. \A d \in Backends : Is(d, "closed")' <=> Is(d, "closed")
    BY SMT, <1>0, <1>3 DEF DrainsFirst, Is
  <1>5. \A d \in Backends : /\ Is(d, "closing") => Is(d, "closing")'
                            /\ Is(d, "closing")' => Is(d, "closing") \/ d = b
    BY <1>0, <1>3 DEF DrainsFirst, Is
  <1>6. \A d \in Backends : ~Carries(a, d) /\ \A x \in Drainers \ {a} : Carries(x, d)' <=> Carries(x, d)
    BY <1>1, <1>2 DEF Carries, Carrying
  <1>7. proc'[a].at \in {"wait", "idle"}
    BY DEF DrainsFirst
  <1>8. Progress(b) /\ \A d \in Backends : Progress(d)
    BY <1>2 DEF Drains
  <1>9. Is(b, "closing")'
    BY <1>0, <1>3, <1>8 DEF DrainsFirst, FirstToClose, Progress, Is
  <1>10. Is(b, "closing") \/ Carries(a, b)'
    <2>1. CASE FirstToClose(b)
      BY <1>0, <2>1 DEF DrainsFirst, Carries, Carrying
    <2>2. CASE ~FirstToClose(b)
      BY <1>8, <2>2 DEF FirstToClose, Progress
    <2> QED BY <2>1, <2>2
  <1>11. ASSUME NEW d \in Backends PROVE Progress(d)'
    <2>1. Progress(d)
      BY <1>8
    <2>2. /\ closes'[d] \in {0, 1} /\ (closes'[d] = 1 => Is(d, "closed")')
          /\ Is(d, "closed")' => Is(d, "closing")' /\ d \notin backends'
      BY <1>1, <1>4, <1>5, <2>1 DEF Progress
    <2>3. d <= nextID' /\ d \notin backends' => Is(d, "closed")'
      BY <1>1, <1>4, <2>1 DEF Progress
    <2>4. Is(d, "closing")' => closes'[d] = 1 \/ \E x \in Drainers : Carries(x, d)'
      <3>1. CASE Is(d, "closing")
        BY <1>1, <1>6, <2>1, <3>1 DEF Progress
      <3>2. CASE d = b /\ ~Is(d, "closing")
        BY <1>1, <1>10, <3>2
      <3> QED BY <1>5, <3>1, <3>2
    <2>5. closed' /\ d \in backends' => Is(d, "closing")' \/ proc'[CloserOf(d)].at = "drain"
      BY <1>1, <1>2, <1>5, <1>9, <2>1 DEF Progress
    <2>6. proc'[CloserOf(d)].at # "idle" => closed'
      <3>1. proc'[CloserOf(d)].at # "idle" => proc[CloserOf(d)].at # "idle"
        <4>1. CloserOf(d) \in Drainers
          BY ActorKinds
        <4> QED BY <1>1, <1>2, <4>1
      <3> QED BY <1>1, <2>1, <3>1 DEF Progress
    <2> QED BY <2>2, <2>3, <2>4, <2>5, <2>6 DEF Progress
  <1>12. ASSUME NEW x \in Drainers, NEW d \in Backends, Carries(x, d)' PROVE Alone(x, d)'
    <2>1. CASE x = a
      <3>1. d = b /\ FirstToClose(b) /\ proc'[a].at = "wait"
        BY <1>0, <1>12, <2>1 DEF DrainsFirst, Carries, Carrying
      <3>2. closes'[d] = 0 /\ ~Is(d, "closed") /\ ~Is(d, "closing")
        BY <1>1, <1>8, <3>1 DEF FirstToClose, Progress
      <3>3. \A y \in Drainers \ {a} : ~Carries(y, d)
        BY <1>2, <3>2 DEF Drains, Alone
      <3> QED BY <1>4, <1>6, <1>9, <2>1, <3>1, <3>2, <3>3 DEF Alone
    <2>2. CASE x # a
      <3>1. Carries(x, d) /\ proc'[x] = proc[x]
        BY <1>2, <1>6, <1>12, <2>2
      <3>2. Alone(x, d)
        BY <3>1 DEF Drains
      <3>3. ~Carries(a, d)'
        <4>1. CASE d = b
          <5>1. ~FirstToClose(b)
            BY <3>2, <4>1 DEF Alone, FirstToClose
          <5> QED BY <1>0, <5>1 DEF DrainsFirst, Carries, Carrying
        <4>2. CASE d # b
          BY <1>0, <4>2 DEF DrainsFirst, Carries, Carrying
        <4> QED BY <4>1, <4>2
      <3> QED BY <1>1, <1>4, <1>5, <1>6, <3>1, <3>2, <3>3 DEF Alone
    <2> QED BY <2>1, <2>2
  <1>13. (proc'[Closer].at # "idle" <=> closed') /\ proc'[Closer].at # "done"
    BY <1>1, <1>2 DEF Drains
  <1> QED BY <1>11, <1>12, <1>13 DEF Drains, CloserDone

LEMMA RemovesKeeps ==
    ASSUME Shape, Drains, NEW a \in Actors, Removes(a)
    PROVE  Drains'
  <1>1. /\ UNCHANGED <<closed, nextID, closes>> /\ Only({a}) /\ a \in Drainers
        /\ proc[a].at = "wait" /\ proc[a].at # "idle"
    BY DEF Removes
  <1>2. PICK b \in Backends : proc[a].b = b
    BY <1>1, DrainerAtWork
  <1>3. /\ b \in 1 .. nextID
        /\ \A d \in Backends : a = CloserOf(d) => d = b
        /\ \A d \in Backends : d # b => proc'[CloserOf(d)] = proc[CloserOf(d)]
        /\ proc'[Closer] = proc[Closer] /\ proc[Closer].at # "done"
        /\ \A d \in Drainers \ {a} : proc'[d] = proc[d]
    BY <1>1, <1>2, DrainerAtWork
  <1>4. /\ proc'[a].at = "provider" /\ proc'[a].b = b /\ backends' = backends \ {b}
        /\ marks' = [marks EXCEPT ![b] = @ \cup {"closed"}] /\ marks \in [Backends -> SUBSET Marks]
    BY <1>2, ShapeGives DEF Removes, Types
  <1>5. \A d \in Backends : /\ Is(d, "closed")' <=> Is(d, "closed") \/ d = b
                            /\ Is(d, "closing")' <=> Is(d, "closing")
    BY <1>4 DEF Is
  <1>6. \A x \in Drainers, d \in Backends : Carries(x, d)' <=> Carries(x, d)
    BY <1>1, <1>2, <1>3, <1>4 DEF Carries, Carrying
  <1>7. Carries(a, b) /\ Alone(a, b)
    BY <1>1, <1>2 DEF Drains, Carries, Carrying
  <1>8. ASSUME NEW d \in Backends PROVE Progress(d)'
    <2>1. Progress(d)
      BY DEF Drains
    <2>2. /\ closes'[d] \in {0, 1} /\ (closes'[d] = 1 => Is(d, "closed")')
      BY <1>1, <1>5, <2>1 DEF Progress
    <2>3. Is(d, "closed")' => Is(d, "closing")' /\ d \notin backends'
      BY <1>4, <1>5, <1>7, <2>1 DEF Progress, Alone
    <2>4. d <= nextID' /\ d \notin backends' => Is(d, "closed")'
      BY <1>1, <1>4, <1>5, <2>1 DEF Progress
    <2>5. Is(d, "closing")' => closes'[d] = 1 \/ \E x \in Drainers : Carries(x, d)'
      BY <1>1, <1>5, <1>6, <2>1 DEF Progress
    <2>6. closed' /\ d \in backends' => Is(d, "closing")' \/ proc'[CloserOf(d)].at = "drain"
      BY <1>1, <1>3, <1>4, <1>5, <2>1 DEF Progress
    <2>7. proc'[CloserOf(d)].at # "idle" => closed'
      <3>1. CloserOf(d) \in Drainers
        BY ActorKinds
      <3>2. proc'[CloserOf(d)].at # "idle" => proc[CloserOf(d)].at # "idle"
        BY <1>1, <1>3, <3>1
      <3> QED BY <1>1, <2>1, <3>2 DEF Progress
    <2> QED BY <2>2, <2>3, <2>4, <2>5, <2>6, <2>7 DEF Progress
  <1>9. ASSUME NEW x \in Drainers, NEW d \in Backends, Carries(x, d)' PROVE Alone(x, d)'
    <2>1. Carries(x, d) /\ Alone(x, d)
      BY <1>6, <1>9 DEF Drains
    <2>2. CASE x = a
      <3>1. d = b
        BY <1>2, <2>1, <2>2 DEF Carries
      <3> QED BY <1>1, <1>4, <1>5, <1>6, <2>1, <2>2, <3>1 DEF Alone
    <2>3. CASE x # a
      <3>1. d # b /\ proc'[x] = proc[x]
        BY <1>3, <1>7, <2>1, <2>3 DEF Alone
      <3> QED BY <1>1, <1>5, <1>6, <2>1, <3>1 DEF Alone
    <2> QED BY <2>2, <2>3
  <1>10. (proc'[Closer].at # "idle" <=> closed') /\ proc'[Closer].at # "done"
    BY <1>1, <1>3 DEF Drains
  <1> QED BY <1>8, <1>9, <1>10 DEF Drains, CloserDone

LEMMA FinishesKeeps ==
    ASSUME Shape, Drains, NEW a \in Actors, Finishes(a)
    PROVE  Drains'
  <1>1. /\ UNCHANGED <<closed, nextID, backends, marks>> /\ Only({a}) /\ a \in Drainers
        /\ proc[a].at = "provider" /\ proc[a].at # "idle" /\ proc'[a].at = "idle"
    BY DEF Finishes
  <1>2. PICK b \in Backends : proc[a].b = b
    BY <1>1, DrainerAtWork
  <1>3. /\ \A d \in Backends : a = CloserOf(d) => d = b
        /\ \A d \in Backends : d # b => proc'[CloserOf(d)] = proc[CloserOf(d)]
        /\ proc'[Closer] = proc[Closer] /\ proc[Closer].at # "done"
        /\ \A d \in Drainers \ {a} : proc'[d] = proc[d]
    BY <1>1, <1>2, DrainerAtWork
  <1>4. closes' = [closes EXCEPT ![b] = @ + 1] /\ closes \in [Backends -> Nat]
    BY <1>2, ShapeGives DEF Finishes, Types
  <1>5. Carries(a, b) /\ Alone(a, b)
    BY <1>1, <1>2 DEF Drains, Carries, Carrying
  <1>6. closes[b] = 0 /\ closes'[b] = 1 /\ \A d \in Backends \ {b} : closes'[d] = closes[d]
    BY SMT, <1>4, <1>5 DEF Alone
  <1>7. /\ \A x \in Drainers \ {a}, d \in Backends : Carries(x, d)' <=> Carries(x, d)
        /\ \A d \in Backends : ~Carries(a, d)'
    BY <1>1, <1>3 DEF Carries, Carrying
  <1>8. ASSUME NEW d \in Backends PROVE Progress(d)'
    <2>1. Progress(d)
      BY DEF Drains
    <2>2. /\ closes'[d] \in {0, 1} /\ (closes'[d] = 1 => Is(d, "closed")')
      BY <1>1, <1>5, <1>6, <2>1 DEF Progress, Alone, Is
    <2>3. /\ Is(d, "closed")' => Is(d, "closing")' /\ d \notin backends'
          /\ d <= nextID' /\ d \notin backends' => Is(d, "closed")'
      BY <1>1, <2>1 DEF Progress, Is
    <2>4. Is(d, "closing")' => closes'[d] = 1 \/ \E x \in Drainers : Carries(x, d)'
      <3>1. CASE d = b
        BY <1>6, <3>1
      <3>2. CASE d # b
        <4>1. ~Carries(a, d)
          BY <1>2, <3>2 DEF Carries
        <4> QED BY <1>1, <1>6, <1>7, <2>1, <3>2, <4>1 DEF Progress, Is
      <3> QED BY <3>1, <3>2
    <2>5. closed' /\ d \in backends' => Is(d, "closing")' \/ proc'[CloserOf(d)].at = "drain"
      <3>1. CASE d = b
        BY <1>1, <1>5, <3>1 DEF Alone, Is
      <3>2. CASE d # b
        BY <1>1, <1>3, <2>1, <3>2 DEF Progress, Is
      <3> QED BY <3>1, <3>2
    <2>6. proc'[CloserOf(d)].at # "idle" => closed'
      <3>1. CloserOf(d) \in Drainers
        BY ActorKinds
      <3>2. proc'[CloserOf(d)].at # "idle" => proc[CloserOf(d)].at # "idle"
        BY <1>1, <1>3, <3>1
      <3> QED BY <1>1, <2>1, <3>2 DEF Progress
    <2> QED BY <2>2, <2>3, <2>4, <2>5, <2>6 DEF Progress
  <1>9. ASSUME NEW x \in Drainers, NEW d \in Backends, Carries(x, d)' PROVE Alone(x, d)'
    <2>1. x # a
      BY <1>7, <1>9
    <2>2. Carries(x, d) /\ Alone(x, d) /\ proc'[x] = proc[x]
      BY <1>3, <1>7, <1>9, <2>1 DEF Drains
    <2>3. d # b
      BY <1>5, <2>1, <2>2 DEF Alone
    <2> QED BY <1>1, <1>6, <1>7, <2>2, <2>3 DEF Alone, Is
  <1>10. (proc'[Closer].at # "idle" <=> closed') /\ proc'[Closer].at # "done"
    BY <1>1, <1>3 DEF Drains
  <1> QED BY <1>8, <1>9, <1>10 DEF Drains, CloserDone

LEMMA ClosesKeeps ==
    ASSUME Shape, Drains, Closes
    PROVE  Drains'
  <1>1. /\ UNCHANGED <<nextID, backends, closes>> /\ ~closed /\ closed' = TRUE /\ proc'[Closer].at = "wait"
        /\ \A b \in backends : proc'[CloserOf(b)].at = "drain"
        /\ \A a \in Actors : a # Closer /\ (\A b \in backends : a # CloserOf(b)) => proc'[a] = proc[a]
    BY DEF Closes
  <1>2. \A b \in backends : b \in Backends
    BY SMT, ShapeGives DEF Types, Backends
  <1>3. \A d \in Backends : /\ Is(d, "closed")' <=> Is(d, "closed")
                            /\ Is(d, "closing")' <=> Is(d, "closing")
    BY DEF Closes, Is
  <1>4. \A b \in backends : proc[CloserOf(b)].at = "idle"
    BY <1>1, <1>2 DEF Drains, Progress
  <1>5. ASSUME NEW x \in Drainers, NEW d \in Backends
        PROVE  /\ Carries(x, d)' <=> Carries(x, d)
               /\ Carries(x, d) => proc'[x] = proc[x]
    <2>1. x \in Actors /\ x # Closer
      BY ActorKinds, NotWaitedFor
    <2>2. CASE \E b \in backends : x = CloserOf(b)
      <3>1. proc[x].at = "idle" /\ proc'[x].at = "drain"
        BY <1>1, <1>4, <2>2
      <3> QED BY <3>1 DEF Carries, Carrying
    <2>3. CASE \A b \in backends : x # CloserOf(b)
      <3>1. proc'[x] = proc[x]
        BY <1>1, <2>1, <2>3
      <3> QED BY <3>1 DEF Carries
    <2> QED BY <2>2, <2>3
  <1>6. ASSUME NEW d \in Backends PROVE Progress(d)'
    <2>1. Progress(d)
      BY DEF Drains
    <2>2. /\ closes'[d] \in {0, 1} /\ (closes'[d] = 1 => Is(d, "closed")')
          /\ Is(d, "closed")' => Is(d, "closing")' /\ d \notin backends'
      BY <1>1, <1>3, <2>1 DEF Progress
    <2>3. d <= nextID' /\ d \notin backends' => Is(d, "closed")'
      BY <1>1, <1>3, <2>1 DEF Progress
    <2>4. Is(d, "closing")' => closes'[d] = 1 \/ \E x \in Drainers : Carries(x, d)'
      BY <1>1, <1>3, <1>5, <2>1 DEF Progress
    <2>5. /\ d \in backends' => proc'[CloserOf(d)].at = "drain"
          /\ closed'
      BY <1>1
    <2> QED BY <2>2, <2>3, <2>4, <2>5 DEF Progress
  <1>7. ASSUME NEW x \in Drainers, NEW d \in Backends, Carries(x, d)' PROVE Alone(x, d)'
    <2>1. Carries(x, d) /\ Alone(x, d) /\ proc'[x] = proc[x]
      BY <1>5, <1>7 DEF Drains
    <2> QED BY <1>1, <1>3, <1>5, <2>1 DEF Alone
  <1>8. (proc'[Closer].at # "idle" <=> closed') /\ proc'[Closer].at # "done"
    BY <1>1
  <1> QED BY <1>6, <1>7, <1>8 DEF Drains, CloserDone

\* Once the goroutines are done every instance has left the pool.
LEMMA AllGone ==
    ASSUME Shape, Drains, proc[Closer].at = "wait", \A a \in WaitedFor : proc[a].at = "idle"
    PROVE  backends = {} /\ \A b \in Backends : Is(b, "closing") => closes[b] = 1
  <1>1. closed
    BY DEF Drains
  <1>2. \A a \in Drainers, b \in Backends : ~Carries(a, b)
    BY NotWaitedFor DEF Carries, Carrying
  <1>3. \A b \in Backends : Is(b, "closing") => closes[b] = 1
    BY <1>2 DEF Drains, Progress
  <1>4. ASSUME NEW b \in backends PROVE FALSE
    <2>1. b \in Backends /\ Progress(b)
      BY SMT, ShapeGives DEF Types, Backends, Drains
    <2>2. CloserOf(b) \in WaitedFor
      BY <2>1, ActorKinds DEF WaitedFor
    <2>3. proc[CloserOf(b)].at # "drain"
      BY <2>2
    <2> QED BY <1>1, <1>3, <2>1, <2>3 DEF Progress
  <1> QED BY <1>3, <1>4

LEMMA CloseEndsKeeps ==
    ASSUME Shape, Drains, CloseEnds
    PROVE  Drains'
  <1>1. /\ UNCHANGED <<closed, nextID, closes, marks>> /\ Only({Closer}) /\ proc[Closer].at = "wait"
        /\ proc'[Closer].at = "done" /\ (\A a \in WaitedFor : proc[a].at = "idle") /\ backends' = {}
    BY DEF CloseEnds
  <1>2. backends = {} /\ closed
    BY <1>1, AllGone DEF Drains
  <1>3. \A a \in WaitedFor : proc'[a] = proc[a]
    <2>1. \A a \in WaitedFor : a \in Actors /\ a # Closer
      BY NotWaitedFor DEF WaitedFor, Actors
    <2> QED BY <1>1, <2>1 DEF Only
  <1>4. \A a \in Drainers, b \in Backends : ~Carries(a, b) /\ ~Carries(a, b)'
    BY <1>1, <1>3, NotWaitedFor DEF Carries, Carrying
  <1>5. ASSUME NEW d \in Backends PROVE Progress(d)'
    <2>1. Progress(d)
      BY DEF Drains
    <2>2. CloserOf(d) \in WaitedFor
      BY ActorKinds DEF WaitedFor
    <2>3. proc'[CloserOf(d)] = proc[CloserOf(d)]
      BY <1>3, <2>2
    <2>4. /\ Is(d, "closed")' <=> Is(d, "closed")
          /\ Is(d, "closing")' <=> Is(d, "closing")
      BY <1>1 DEF Is
    <2> QED BY <1>1, <1>2, <1>4, <2>1, <2>3, <2>4 DEF Progress
  <1>6. proc'[Closer].at # "idle" <=> closed'
    BY <1>1, <1>2
  <1> QED BY <1>1, <1>3, <1>4, <1>5, <1>6 DEF Drains, CloserDone

LEMMA DrainsKept ==
    ASSUME Shape, Shape', Successors, Drains, Step
    PROVE  Drains'
  <1>1. ASSUME NEW a \in Actors, OfGoroutine(a) PROVE Drains'
    BY <1>1, GoroutineNoDrain, NoDrainKeeps, DrainsFirstKeeps, RemovesKeeps, FinishesKeeps DEF OfGoroutine
  <1>2. CASE Ending \/ UNCHANGED vars
    <2>1. UNCHANGED <<closes, closed, marks, proc, nextID, backends>>
      BY <1>2 DEF Ending, vars, instances, world
    <2>2. NoDrain
      BY <2>1 DEF NoDrain, SameMarks, GoroutinesSame, CarriersSame, ClosersSame, IdleStay
    <2> QED BY <2>2, NoDrainKeeps
  <1> QED BY <1>1, <1>2, CallerNoDrain, InstanceNoDrain, NoDrainKeeps, ClosesKeeps, CloseEndsKeeps DEF Step

LEMMA InitDrains ==
    ASSUME Init, Shape
    PROVE  Drains
  <1>1. \A a \in Actors : proc[a].at = "idle"
    BY DEF Init, At
  <1>2. ~closed
    BY DEF Init
  <1>3. /\ \A b \in Backends : closes[b] = 0 /\ marks[b] = {}
        /\ backends = 1 .. nextID
    BY DEF Init
  <1>4. \A a \in Drainers, b \in Backends : ~Carries(a, b)
    BY <1>1, ActorKinds DEF Carries, Carrying
  <1>5. ASSUME NEW b \in Backends PROVE Progress(b)
    <2>1. b <= nextID => b \in backends
      BY SMT, <1>3, ShapeGives DEF Backends
    <2>2. proc[CloserOf(b)].at = "idle"
      BY <1>1, ProactiveActor
    <2> QED BY SMT, <1>2, <1>3, <2>1, <2>2 DEF Progress, Is
  <1>6. proc[Closer].at = "idle"
    BY <1>1, ActorKinds
  <1> QED BY <1>2, <1>4, <1>5, <1>6 DEF Drains, CloserDone

LEMMA ClosedOnce ==
    ASSUME Shape, Drains
    PROVE  ClosedExactlyOnce
  <1>1. \A b \in Backends : closes[b] <= 1
    BY SMT DEF Drains, Progress
  <1>2. ASSUME proc[Closer].at = "done"
        PROVE  /\ \A b \in 1 .. nextID : closes[b] = 1
               /\ \A a \in Lifecycle : proc[a].at = "idle"
    <2>1. backends = {} /\ \A a \in WaitedFor : proc[a].at = "idle"
      BY <1>2 DEF Drains, CloserDone
    <2>2. \A a \in Drainers, b \in Backends : ~Carries(a, b)
      BY <2>1, NotWaitedFor DEF Carries, Carrying
    <2>3. ASSUME NEW b \in 1 .. nextID PROVE closes[b] = 1
      <3>1. b \in Backends /\ b <= nextID
        BY SMT, ShapeGives DEF Backends
      <3>2. Progress(b)
        BY <3>1 DEF Drains
      <3> QED BY <2>1, <2>2, <3>1, <3>2 DEF Progress
    <2> QED BY <2>1, <2>3 DEF WaitedFor
  <1> QED BY <1>1, <1>2 DEF ClosedExactlyOnce

-----------------------------------------------------------------------------
(* backend.active counts the callers that use an instance. *)

\* Every caller that has acquired an instance is counted, and its instance is
\* in the pool unless its drain timed out.
ActiveCounted == \A b \in Backends : active[b] = Cardinality(Using(b))
HeldInPool ==
    \A c \in Clients : proc[c].at \in HoldLabels => proc[c].b \in backends \/ Is(proc[c].b, "late")
HoldsCounted == ActiveCounted /\ HeldInPool

\* No caller outside S acquires an instance or lets one go.
HoldsSame(S) ==
    \A c \in Clients \ S :
        \/ proc'[c] = proc[c]
        \/ proc[c].at \notin HoldLabels /\ proc'[c].at \notin HoldLabels
        \/ proc[c].at \in HoldLabels /\ proc'[c].at \in HoldLabels /\ proc'[c].b = proc[c].b

HoldsKept == active' = active /\ HoldsSame({})
HoldBegins(c) ==
    /\ HoldsSame({c}) /\ proc[c].at \notin HoldLabels /\ proc'[c].at \in HoldLabels
    /\ proc'[c].b \in backends /\ active' = [active EXCEPT ![proc'[c].b] = @ + 1]
    /\ UNCHANGED backends
HoldEnds(c) ==
    /\ HoldsSame({c}) /\ proc[c].at \in HoldLabels /\ proc'[c].at \notin HoldLabels
    /\ Release(proc[c].b)
HoldMove(c) == HoldBegins(c) \/ HoldEnds(c)

LEMMA OnlyHolds ==
    ASSUME NEW S, NEW T, Only(S), \A c \in S : c \in Clients => c \in T
    PROVE  HoldsSame(T)
  BY ActorKinds DEF Only, HoldsSame

LEMMA CallerHolds ==
    ASSUME Shape, NEW c \in Clients, OnPool(c)
    PROVE  HoldsKept \/ HoldMove(c)
  <1>1. CASE Quiet(c)
    BY <1>1, ActorKinds DEF Quiet, Only, HoldsKept, HoldsSame
  <1>2. CASE CallStarts(c)
    <2>1. active' = active /\ Only({c}) /\ proc[c].at \notin HoldLabels /\ proc'[c].at \notin HoldLabels
      BY <1>2 DEF CallStarts, HoldLabels
    <2> QED BY <2>1, ActorKinds DEF Only, HoldsKept, HoldsSame
  <1>3. ASSUME Takes(c), NEW S, Only(S), S \cap Clients = {c}
        PROVE  HoldMove(c)
    <2>1. HoldsSame({c})
      BY <1>3, OnlyHolds
    <2> QED BY <1>3, <2>1 DEF Takes, HoldMove, HoldBegins
  <1>4. CASE Grabs(c)
    BY <1>3, <1>4 DEF Grabs
  <1>5. CASE CallSettles(c)
    <2>1. CASE Takes(c)
      BY <1>3, <1>5, <2>1 DEF CallSettles
    <2>2. CASE ~Takes(c)
      <3>1. active' = active /\ Only({c}) /\ proc[c].at \notin HoldLabels /\ proc'[c].at \notin HoldLabels
        BY <1>5, <2>2 DEF CallSettles, HoldLabels
      <3> QED BY <3>1, ActorKinds DEF Only, HoldsKept, HoldsSame
    <2> QED BY <2>1, <2>2
  <1>6. CASE Drops(c)
    <2>1. proc[c].at \in HoldLabels /\ proc'[c].at \notin HoldLabels /\ Release(proc[c].b)
          /\ Only({c, Replacer(proc[c].b)})
      BY <1>6 DEF Drops, Retires
    <2>2. Replacer(proc[c].b) \notin Clients
      BY <2>1, HeldInstance, DrainActors
    <2>3. HoldsSame({c})
      BY <2>1, <2>2, OnlyHolds
    <2> QED BY <2>1, <2>3 DEF HoldMove, HoldEnds
  <1>7. ASSUME NEW a \in ScaleOuts, ScalesOut(c, a)
        PROVE  HoldMove(c)
    <2>1. a \notin Clients
      BY ActorsApart
    <2> QED BY <1>3, <1>7, <2>1 DEF ScalesOut
  <1> QED BY <1>1, <1>2, <1>4, <1>5, <1>6, <1>7 DEF OnPool

LEMMA StepHolds ==
    ASSUME Shape, Step
    PROVE  HoldsKept \/ \E c \in Clients : HoldMove(c)
  <1>1. ASSUME NEW S, Only(S), S \cap Clients = {}, active' = active
        PROVE  HoldsKept
    BY <1>1, OnlyHolds DEF HoldsKept
  <1>2. ASSUME NEW a \in Actors, OfGoroutine(a)
        PROVE  HoldsKept
    <2>1. active' = active /\ Only({a})
      BY <1>2 DEF OfGoroutine, Joins, Settled, Settles, Ensures, DrainsFirst, Removes, Finishes
    <2>2. CASE a \notin Clients
      BY <1>1, <2>1, <2>2
    <2>3. CASE a \in Clients
      <3>1. Joins(a)
        BY <1>2, <2>3, ActorsApart, ActorKinds
           DEF OfGoroutine, Settled, Settles, Ensures, DrainsFirst, Removes, Finishes
      <3>2. proc[a].at \notin HoldLabels /\ proc'[a].at \notin HoldLabels
        BY <3>1 DEF Joins, HoldLabels
      <3> QED BY <2>1, <3>2, ActorKinds DEF Only, HoldsKept, HoldsSame
    <2> QED BY <2>2, <2>3
  <1>3. ASSUME NEW b \in Backends, OfInstance(b)
        PROVE  HoldsKept
    <2>1. Proactive(b) \notin Clients /\ Health \notin Clients /\ Replacer(b) \notin Clients
      BY ProactiveActor, DrainActors
    <2>2. CASE ProactiveSettles(b)
      BY <1>1, <2>1, <2>2 DEF ProactiveSettles, Settles
    <2>3. CASE Checks(b)
      <3>1. active' = active /\ (Only({Health, Replacer(b)}) \/ Only({Health, Proactive(b)}))
        BY <2>3 DEF Checks, Retires
      <3> QED BY <1>1, <2>1, <3>1
    <2>4. CASE Marking(b)
      BY <2>4 DEF Marking, HoldsKept, HoldsSame
    <2> QED BY <1>3, <2>2, <2>3, <2>4 DEF OfInstance
  <1>4. CASE Closes
    <2>1. \A c \in Clients : proc'[c] = proc[c]
      <3>1. \A b \in backends : b \in Backends
        BY ShapeNumbers, ShapeGives DEF Types
      <3>2. ASSUME NEW c \in Clients, NEW b \in backends PROVE c # CloserOf(b)
        BY <3>1, DrainActors
      <3>3. \A c \in Clients : c \in Actors /\ c # Closer
        BY ActorKinds, ActorsApart
      <3> QED BY <1>4, <3>2, <3>3 DEF Closes
    <2> QED BY <1>4, <2>1 DEF Closes, HoldsKept, HoldsSame
  <1>5. CASE CloseEnds
    BY <1>1, <1>5, ActorsApart DEF CloseEnds
  <1>6. CASE Ending \/ UNCHANGED vars
    BY <1>6 DEF Ending, HoldsKept, HoldsSame, vars, instances
  <1> QED BY <1>2, <1>3, <1>4, <1>5, <1>6, CallerHolds DEF Step

LEMMA UsingFinite == \A b : IsFiniteSet(Using(b)) /\ Cardinality(Using(b)) \in Nat
  <1> TAKE b
  <1>1. Using(b) \subseteq Clients /\ IsFiniteSet(Clients)
    BY PoolClients DEF Using
  <1> QED BY <1>1, FS_Subset, FS_CardinalityType

LEMMA SameUsing ==
    ASSUME NEW S, HoldsSame(S), NEW b
    PROVE  \A c \in Clients \ S : c \in Using(b) <=> c \in Using(b)'
  BY DEF HoldsSame, Using, HoldLabels

\* A caller's acquisition and release are the only ones that move the count.
LEMMA ActiveKept ==
    ASSUME Shape, ActiveCounted, HoldsKept \/ \E c \in Clients : HoldMove(c)
    PROVE  ActiveCounted'
  <1> SUFFICES ASSUME NEW b \in Backends PROVE active'[b] = Cardinality(Using(b)')
    BY DEF ActiveCounted
  <1>0. active[b] = Cardinality(Using(b)) /\ IsFiniteSet(Using(b)) /\ active \in [Backends -> Nat]
    BY UsingFinite, ShapeGives DEF ActiveCounted, Types
  <1>1. CASE HoldsKept
    <2>1. Using(b)' = Using(b)
      <3>1. \A c \in Clients \ {} : c \in Using(b) <=> c \in Using(b)'
        BY <1>1, SameUsing DEF HoldsKept
      <3> QED BY <3>1 DEF Using
    <2> QED BY <1>0, <1>1, <2>1 DEF HoldsKept
  <1>2. ASSUME NEW c \in Clients, HoldBegins(c)
        PROVE  active'[b] = Cardinality(Using(b)')
    <2>1. \A d \in Clients \ {c} : d \in Using(b) <=> d \in Using(b)'
      BY <1>2, SameUsing DEF HoldBegins
    <2>2. c \notin Using(b) /\ (c \in Using(b)' <=> proc'[c].b = b)
      BY <1>2 DEF HoldBegins, Using, HoldLabels
    <2>3. CASE proc'[c].b = b
      <3>1. Using(b)' = Using(b) \cup {c}
        BY <2>1, <2>2, <2>3 DEF Using
      <3>2. Cardinality(Using(b)') = Cardinality(Using(b)) + 1
        BY <1>0, <2>2, <3>1, FS_AddElement
      <3>3. active'[b] = active[b] + 1
        BY <1>0, <1>2, <2>3 DEF HoldBegins
      <3> QED BY <1>0, <3>2, <3>3
    <2>4. CASE proc'[c].b # b
      <3>1. Using(b)' = Using(b)
        BY <2>1, <2>2, <2>4 DEF Using
      <3>2. active'[b] = active[b]
        BY <1>0, <1>2, <2>4 DEF HoldBegins
      <3> QED BY <1>0, <3>1, <3>2
    <2> QED BY <2>3, <2>4
  <1>3. ASSUME NEW c \in Clients, HoldEnds(c)
        PROVE  active'[b] = Cardinality(Using(b)')
    <2>1. \A d \in Clients \ {c} : d \in Using(b) <=> d \in Using(b)'
      BY <1>3, SameUsing DEF HoldEnds
    <2>2. c \notin Using(b)' /\ (c \in Using(b) <=> proc[c].b = b)
      BY <1>3 DEF HoldEnds, Using, HoldLabels
    <2>3. CASE proc[c].b = b
      <3>1. Using(b)' = Using(b) \ {c} /\ c \in Using(b)
        BY <2>1, <2>2, <2>3 DEF Using
      <3>2. Cardinality(Using(b)') = Cardinality(Using(b)) - 1
        BY <1>0, <3>1, FS_RemoveElement
      <3>3. Cardinality(Using(b)) # 0
        BY <1>0, <3>1, FS_EmptySet
      <3>4. active'[b] = IF active[b] > 0 THEN active[b] - 1 ELSE 0
        BY <1>0, <1>3, <2>3 DEF HoldEnds, Release
      <3> QED BY SMT, <1>0, <3>2, <3>3, <3>4
    <2>4. CASE proc[c].b # b
      <3>1. Using(b)' = Using(b)
        BY <2>1, <2>2, <2>4 DEF Using
      <3>2. active'[b] = active[b]
        BY <1>0, <1>3, <2>4 DEF HoldEnds, Release
      <3> QED BY <1>0, <3>1, <3>2
    <2> QED BY <2>3, <2>4
  <1> QED BY <1>1, <1>2, <1>3 DEF HoldMove

\* Who uses an instance is counted.
LEMMA UsedActive ==
    ASSUME Shape, ActiveCounted, NEW c \in Clients, proc[c].at \in HoldLabels
    PROVE  active[proc[c].b] # 0
  <1>1. c \in Using(proc[c].b) /\ proc[c].b \in Backends
    BY HeldInstance DEF Using, HoldLabels
  <1>2. active[proc[c].b] = Cardinality(Using(proc[c].b))
    BY <1>1 DEF ActiveCounted
  <1> QED BY <1>1, <1>2, UsingFinite, FS_EmptySet

\* An instance leaves the pool drained, after its timeout, or when all have.
LEMMA BackendsStay ==
    ASSUME Shape, Drains, Step
    PROVE  \A b \in backends : b \in backends' \/ Is(b, "late") \/ active[b] = 0
  <1>1. ASSUME NEW c \in Clients, OnPool(c) PROVE backends' = backends
    BY <1>1 DEF OnPool, Quiet, Grabs, Takes, CallStarts, CallSettles, Drops, ScalesOut
  <1>2. ASSUME NEW a \in Actors, OfGoroutine(a)
        PROVE  \A b \in backends : b \in backends' \/ Is(b, "late") \/ active[b] = 0
    <2>1. CASE Removes(a)
      BY <2>1 DEF Removes, Drained
    <2>2. CASE ~Removes(a)
      BY <1>2, <2>2 DEF OfGoroutine, Joins, Settled, Settles, Ensures, DrainsFirst, Finishes
    <2> QED BY <2>1, <2>2
  <1>3. ASSUME NEW b \in Backends, OfInstance(b) PROVE backends' = backends
    BY <1>3 DEF OfInstance, ProactiveSettles, Settles, Checks, Marking
  <1>4. CASE CloseEnds
    <2>1. backends = {}
      BY <1>4, AllGone DEF CloseEnds
    <2> QED BY <2>1
  <1>5. CASE Closes \/ Ending \/ UNCHANGED vars
    BY <1>5 DEF Closes, Ending, vars, instances
  <1> QED BY <1>1, <1>2, <1>3, <1>4, <1>5 DEF Step

LEMMA HoldsStep ==
    ASSUME Shape, Shape', Drains, HoldsCounted, Step
    PROVE  HoldsCounted'
  <1>1. HoldsKept \/ \E c \in Clients : HoldMove(c)
    BY StepHolds
  <1>2. ActiveCounted'
    BY <1>1, ActiveKept DEF HoldsCounted
  <1>3. ASSUME NEW c \in Clients, proc'[c].at \in HoldLabels, proc[c].at \in HoldLabels, proc'[c].b = proc[c].b
        PROVE  proc'[c].b \in backends' \/ "late" \in marks'[proc'[c].b]
    <2>1. PICK b \in Backends : proc[c].b = b
      BY <1>3, HeldInstance
    <2>2. active[b] # 0
      BY <1>3, <2>1, UsedActive DEF HoldsCounted
    <2>3. b \in backends \/ Is(b, "late")
      BY <1>3, <2>1 DEF HoldsCounted, HeldInPool
    <2>4. b \in backends' \/ Is(b, "late")
      BY <2>2, <2>3, BackendsStay
    <2>5. Is(b, "late") => Is(b, "late")'
      BY StepGrows DEF Grows, Is
    <2> QED BY <1>3, <2>1, <2>4, <2>5 DEF Is
  <1>4. ASSUME NEW c \in Clients, proc'[c].at \in HoldLabels
        PROVE  proc'[c].b \in backends' \/ "late" \in marks'[proc'[c].b]
    <2>1. CASE HoldBegins(c)
      BY <2>1 DEF HoldBegins
    <2>2. CASE ~HoldBegins(c)
      <3>1. proc[c].at \in HoldLabels /\ proc'[c].b = proc[c].b
        BY <1>1, <1>4, <2>2 DEF HoldsKept, HoldMove, HoldBegins, HoldEnds, HoldsSame
      <3> QED BY <1>3, <1>4, <3>1
    <2> QED BY <2>1, <2>2
  <1>5. HeldInPool'
    BY <1>4 DEF HeldInPool, Is
  <1> QED BY <1>2, <1>5 DEF HoldsCounted

LEMMA InitHolds ==
    ASSUME Init
    PROVE  HoldsCounted
  <1>1. \A c \in Clients : proc[c].at = "idle"
    BY ActorKinds DEF Init, At
  <1>2. \A b : Using(b) = {}
    BY <1>1 DEF Using
  <1>3. Cardinality({}) = 0
    BY FS_EmptySet
  <1>4. ActiveCounted
    BY <1>2, <1>3 DEF ActiveCounted, Init
  <1> QED BY <1>1, <1>4 DEF HoldsCounted, HeldInPool, HoldLabels

-----------------------------------------------------------------------------
(* DrainWaits. *)

\* Only the drain of an instance, once nobody uses it or it is late, closes it.
DrainsIdle ==
    \A b \in Backends : (Is(b, "closed")' /\ ~Is(b, "closed")) => (Is(b, "late") \/ Using(b) = {})

LEMMA DrainsIdleStep ==
    ASSUME Shape, Successors, HoldsCounted, Step
    PROVE  DrainsIdle
  <1>1. CASE SameMarks
    BY <1>1 DEF SameMarks, DrainsIdle, Is
  <1>2. ASSUME NEW a \in Actors, Removes(a)
        PROVE  DrainsIdle
    <2>1. PICK b \in Backends : proc[a].b = b
      BY <1>2, DrainActor DEF Removes
    <2>2. /\ marks' = [marks EXCEPT ![b] = @ \cup {"closed"}] /\ (active[b] = 0 \/ Is(b, "late"))
          /\ marks \in [Backends -> SUBSET Marks]
      BY <1>2, <2>1, ShapeGives DEF Removes, Drained, Types
    <2>3. active[b] = 0 => Using(b) = {}
      BY <2>1, UsingFinite, FS_EmptySet DEF HoldsCounted, ActiveCounted
    <2>4. \A e \in Backends : e # b => (Is(e, "closed")' <=> Is(e, "closed"))
      BY <2>2 DEF Is
    <2> QED BY <2>2, <2>3, <2>4 DEF DrainsIdle
  <1>3. ASSUME NEW a \in Actors, DrainsFirst(a) \/ Finishes(a)
        PROVE  DrainsIdle
    <2>1. PICK b \in Backends : proc[a].b = b
      BY <1>3, DrainActor DEF DrainsFirst, Finishes
    <2>2. \/ marks' = marks
          \/ marks' = [marks EXCEPT ![b] = @ \cup {"closing", "draining"}]
      BY <1>3, <2>1 DEF DrainsFirst, Finishes
    <2>3. marks \in [Backends -> SUBSET Marks]
      BY ShapeGives DEF Types
    <2>4. \A e \in Backends : Is(e, "closed")' => Is(e, "closed")
      BY SMT, <2>2, <2>3 DEF Is
    <2> QED BY <2>4 DEF DrainsIdle
  <1>4. ASSUME NEW a \in Actors, OfGoroutine(a)
        PROVE  DrainsIdle
    <2>1. CASE Joins(a) \/ Settled(a) \/ Ensures(a)
      BY <1>1, <2>1, GoroutineNoDrain DEF NoDrain
    <2> QED BY <1>1, <1>2, <1>3, <1>4, <2>1 DEF OfGoroutine
  <1>5. CASE Closes
    <2>1. \A e \in Backends : Is(e, "closed")' => Is(e, "closed")
      BY <1>5 DEF Closes, Is
    <2> QED BY <2>1 DEF DrainsIdle
  <1>6. CASE CloseEnds \/ Ending \/ UNCHANGED vars
    BY <1>6 DEF CloseEnds, Ending, vars, instances, DrainsIdle, Is
  <1> QED BY <1>1, <1>4, <1>5, <1>6, CallerNoDrain, InstanceNoDrain DEF Step, NoDrain

-----------------------------------------------------------------------------
(* The routes and the keys. *)

\* No caller outside S comes to prepare a session or to call its provider.
CreatorsSame(S) ==
    \A c \in Clients \ S : proc'[c] = proc[c] \/ proc'[c].at \notin {"prepare", "call"}

LivesSame == \A y \in Targets, d \in Backends : life'[y][d] # "none" => life[y][d] # "none"

\* A step that has nothing to do with routes, keys and sessions.
Aside ==
    /\ backends \subseteq backends' /\ UNCHANGED <<route, owner, dropped>>
    /\ LivesSame /\ CreatorsSame({})

LEMMA CallerAlone ==
    ASSUME Shape, NEW c \in Clients, OnPool(c)
    PROVE  UNCHANGED <<nextID, backends>> /\ CreatorsSame({c})
  <1>1. UNCHANGED <<nextID, backends>>
    BY DEF OnPool, Quiet, Grabs, Takes, CallStarts, CallSettles, Drops, ScalesOut
  <1>2. ASSUME NEW S, Only(S), S \cap Clients = {c}
        PROVE  CreatorsSame({c})
    BY <1>2, ActorKinds DEF Only, CreatorsSame
  <1>3. CASE Drops(c)
    <2>1. Only({c, Replacer(proc[c].b)}) /\ Replacer(proc[c].b) \notin Clients
      BY <1>3, HeldInstance, DrainActors DEF Drops, Retires
    <2> QED BY <1>1, <1>2, <2>1
  <1>4. ASSUME NEW a \in ScaleOuts, ScalesOut(c, a)
        PROVE  CreatorsSame({c})
    BY <1>2, <1>4, ActorsApart DEF ScalesOut
  <1>5. CASE Quiet(c) \/ Grabs(c) \/ CallStarts(c) \/ CallSettles(c)
    <2>1. Only({c})
      BY <1>5 DEF Quiet, Grabs, CallStarts, CallSettles
    <2> QED BY <1>1, <1>2, <2>1
  <1> QED BY <1>1, <1>3, <1>4, <1>5 DEF OnPool

LEMMA StepAside ==
    ASSUME Shape, Step
    PROVE  \/ \E c \in Clients : OnPool(c) /\ OnWork(c)
           \/ Aside
           \/ \E a \in Actors : Removes(a)
           \/ CloseEnds
  <1>1. ASSUME NEW S, Only(S), S \cap Clients = {}
        PROVE  CreatorsSame({})
    BY <1>1, ActorKinds DEF Only, CreatorsSame
  <1>2. ASSUME Apart PROVE LivesSame /\ UNCHANGED <<route, owner, dropped>>
    BY <1>2 DEF Apart, LivesSame
  <1>3. ASSUME NEW a \in Actors, OfGoroutine(a), ~Removes(a)
        PROVE  Aside
    <2>1. Apart /\ Only({a}) /\ backends \subseteq backends'
      BY <1>3 DEF OfGoroutine, Joins, Settled, Settles, Ensures, DrainsFirst, Finishes
    <2>2. CASE a \notin Clients
      BY <1>1, <1>2, <2>1, <2>2 DEF Aside
    <2>3. CASE a \in Clients
      <3>1. Joins(a)
        BY <1>3, <2>3, ActorsApart, ActorKinds
           DEF OfGoroutine, Settled, Settles, Ensures, DrainsFirst, Finishes
      <3>2. CreatorsSame({})
        BY <2>1, <3>1, ActorKinds DEF Joins, Only, CreatorsSame
      <3> QED BY <1>2, <2>1, <3>2 DEF Aside
    <2> QED BY <2>2, <2>3
  <1>4. ASSUME NEW b \in Backends, OfInstance(b)
        PROVE  Aside
    <2>1. Proactive(b) \notin Clients /\ Health \notin Clients /\ Replacer(b) \notin Clients
      BY ProactiveActor, DrainActors
    <2>2. Apart /\ backends' = backends
      BY <1>4 DEF OfInstance, ProactiveSettles, Settles, Checks, Marking
    <2>3. CASE ProactiveSettles(b)
      BY <1>1, <1>2, <2>1, <2>2, <2>3 DEF ProactiveSettles, Settles, Aside
    <2>4. CASE Checks(b)
      <3>1. Only({Health, Replacer(b)}) \/ Only({Health, Proactive(b)})
        BY <2>4 DEF Checks, Retires
      <3> QED BY <1>1, <1>2, <2>1, <2>2, <3>1 DEF Aside
    <2>5. CASE Marking(b)
      BY <1>2, <2>2, <2>5 DEF Marking, CreatorsSame, Aside
    <2> QED BY <1>4, <2>3, <2>4, <2>5 DEF OfInstance
  <1>5. CASE Closes
    <2>1. \A c \in Clients : proc'[c] = proc[c]
      <3>1. \A b \in backends : b \in Backends
        BY ShapeNumbers, ShapeGives DEF Types
      <3>2. ASSUME NEW c \in Clients, NEW b \in backends PROVE c # CloserOf(b)
        BY <3>1, DrainActors
      <3>3. \A c \in Clients : c \in Actors /\ c # Closer
        BY ActorKinds, ActorsApart
      <3> QED BY <1>5, <3>2, <3>3 DEF Closes
    <2> QED BY <1>2, <1>5, <2>1 DEF Closes, CreatorsSame, Aside
  <1>6. CASE Ending \/ UNCHANGED vars
    BY <1>6 DEF Ending, vars, instances, routing, world, Aside, LivesSame, CreatorsSame
  <1> QED BY <1>3, <1>4, <1>5, <1>6 DEF Step

\* The routes that a step leaves or makes are to instances that stay.
LEMMA RoutesStep ==
    ASSUME Shape, RoutesInPool, Step
    PROVE  RoutesInPool'
  <1>1. ASSUME NEW c \in Clients, OnPool(c), OnWork(c)
        PROVE  RoutesInPool'
    <2>1. backends' = backends
      BY <1>1, CallerAlone
    <2>2. \A y \in Targets : route'[y] \in {route[y], NoBackend} \cup backends
      BY <1>1 DEF OnWork, Elsewhere, Claims, Calls, Prepares, Unclaims
    <2> QED BY <2>1, <2>2 DEF RoutesInPool
  <1>2. CASE Aside
    BY <1>2 DEF Aside, RoutesInPool
  <1>3. ASSUME NEW a \in Actors, Removes(a)
        PROVE  RoutesInPool'
    BY <1>3 DEF Removes, RoutesInPool
  <1>4. CASE CloseEnds
    BY <1>4 DEF CloseEnds, RoutesInPool
  <1> QED BY <1>1, <1>2, <1>3, <1>4, StepAside

\* A key names an instance that somebody holds, or one of the pool.
LEMMA KeysStep ==
    ASSUME Shape, HeldInPool, KeysInPool, Step
    PROVE  KeysInPool'
  <1>1. \A b \in Backends : Is(b, "late") => Is(b, "late")'
    BY StepGrows DEF Grows, Is
  <1>2. \A s \in Keyed : owner[s] # NoBackend => owner[s] \in Backends
    BY SMT, ShapeGives DEF Types, Backends, NoBackend
  <1>3. ASSUME NEW s \in Keyed, owner'[s] = owner[s], backends \subseteq backends', owner'[s] # NoBackend
        PROVE  owner'[s] \in backends' \/ "late" \in marks'[owner'[s]]
    BY <1>1, <1>2, <1>3 DEF KeysInPool, Is
  <1>4. ASSUME NEW c \in Clients, OnPool(c), OnWork(c), NEW s \in Keyed, owner'[s] # NoBackend
        PROVE  owner'[s] \in backends' \/ "late" \in marks'[owner'[s]]
    <2>1. backends' = backends
      BY <1>4, CallerAlone
    <2>2. CASE owner'[s] = owner[s]
      BY <1>3, <1>4, <2>1, <2>2
    <2>3. CASE owner'[s] # owner[s]
      <3>1. Claims(c)
        BY <1>4, <2>3 DEF OnWork, Elsewhere, Calls, Prepares, Unclaims
      <3>2. owner'[s] = proc[c].b /\ proc[c].at \in HoldLabels
        BY <2>3, <3>1 DEF Claims, HoldLabels
      <3>3. owner'[s] \in backends \/ Is(owner'[s], "late")
        BY <3>2 DEF HeldInPool
      <3>4. owner'[s] \in Backends
        BY <3>2, HeldInstance
      <3> QED BY <1>1, <2>1, <3>3, <3>4 DEF Is
    <2> QED BY <2>2, <2>3
  <1>5. ASSUME Aside, NEW s \in Keyed, owner'[s] # NoBackend
        PROVE  owner'[s] \in backends' \/ "late" \in marks'[owner'[s]]
    BY <1>3, <1>5 DEF Aside
  <1>6. ASSUME NEW a \in Actors, Removes(a), NEW s \in Keyed, owner'[s] # NoBackend
        PROVE  owner'[s] \in backends' \/ "late" \in marks'[owner'[s]]
    <2>1. owner'[s] = owner[s] /\ owner[s] # proc[a].b /\ backends' = backends \ {proc[a].b}
      BY <1>6 DEF Removes
    <2> QED BY <1>1, <1>2, <1>6, <2>1 DEF KeysInPool, Is
  <1>7. ASSUME CloseEnds, NEW s \in Keyed PROVE owner'[s] = NoBackend
    BY <1>7 DEF CloseEnds
  <1>8. \A s \in Keyed : owner'[s] # NoBackend => owner'[s] \in backends' \/ "late" \in marks'[owner'[s]]
    BY <1>4, <1>5, <1>6, <1>7, StepAside
  <1> QED BY <1>8 DEF KeysInPool, Is

LEMMA InitKeys ==
    ASSUME Init
    PROVE  RoutesInPool /\ KeysInPool
  BY DEF Init, RoutesInPool, KeysInPool

-----------------------------------------------------------------------------
(* One open instance serves the creates of a key. *)

\* c is about to have its provider create the session s.
Creates(c, s) == proc[c].at \in {"prepare", "call"} /\ proc[c].on = s /\ proc[c].op = "create"

\* The open instances that have the session, or will be asked to create it, are
\* the owner of its key.
Owned(s) ==
    /\ \A b \in Backends : life[s][b] # "none" /\ ~Is(b, "closed") => owner[s] = b
    /\ \A c \in Clients : Creates(c, s) /\ ~Is(proc[c].b, "closed") => owner[s] = proc[c].b

\* No provider has anything before it joins.
Unborn == \A x \in Targets, b \in Backends : b > nextID => life[x][b] = "none"
Owners == Unborn /\ \A s \in Keyed \ dropped : Owned(s)

\* Whatever the key's owner does not change for, it stays the owner for.
LEMMA OwnedStays ==
    ASSUME Shape, NEW s \in Keyed, Owned(s), owner'[s] = owner[s], NEW S, CreatorsSame(S),
           \A b \in Backends : Is(b, "closed") => Is(b, "closed")',
           \A b \in Backends : life'[s][b] # "none" /\ ~Is(b, "closed") => life[s][b] # "none" \/ owner[s] = b,
           \A c \in S \cap Clients : proc'[c].at \in {"prepare", "call"} /\ proc'[c].on = s /\ proc'[c].op = "create"
               => (Creates(c, s) /\ proc'[c].b = proc[c].b) \/ proc'[c].b = owner[s]
    PROVE  Owned(s)'
  <1>1. ASSUME NEW b \in Backends, life'[s][b] # "none", ~Is(b, "closed")'
        PROVE  owner'[s] = b
    BY <1>1 DEF Owned
  <1>2. ASSUME NEW c \in Clients, Creates(c, s)', ~("closed" \in marks'[proc'[c].b])
        PROVE  owner'[s] = proc'[c].b
    <2>1. (Creates(c, s) /\ proc'[c].b = proc[c].b) \/ proc'[c].b = owner[s]
      BY <1>2 DEF CreatorsSame, Creates
    <2>2. CASE Creates(c, s) /\ proc'[c].b = proc[c].b
      <3>1. proc[c].b \in Backends
        BY <2>2, HeldInstance DEF Creates, HoldLabels
      <3>2. ~Is(proc[c].b, "closed")
        BY <1>2, <2>2, <3>1 DEF Is
      <3> QED BY <2>2, <3>2 DEF Owned
    <2> QED BY <2>1, <2>2
  <1>3. \A c \in Clients : Creates(c, s)' /\ ~("closed" \in marks'[proc'[c].b]) => owner'[s] = proc'[c].b
    BY <1>2
  <1> QED BY <1>1, <1>3 DEF Owned, Is

\* A claim of the key s: the first one makes its instance the owner, and nobody
\* has the session before that.
LEMMA ClaimOwned ==
    ASSUME Shape, NEW c \in Clients, OnPool(c), Claims(c), NEW s \in Keyed, Owned(s),
           \A b \in Backends : Is(b, "closed") => Is(b, "closed")'
    PROVE  Owned(s)'
  <1>1. CreatorsSame({c}) /\ life' = life
    BY CallerAlone DEF Claims
  <1>2. CASE owner'[s] = owner[s]
    <2>1. proc'[c].at \in {"prepare", "call"} /\ proc'[c].on = s => proc'[c].b = owner[s]
      BY <1>2 DEF Claims
    <2> QED BY <1>1, <1>2, <2>1, OwnedStays
  <1>3. CASE owner'[s] # owner[s]
    <2>0. NoBackend \notin Backends
      BY SMT, PoolConstants DEF NoBackend, Backends
    <2>1. owner[s] = NoBackend /\ s = proc[c].on /\ NoBackend \notin Backends
      BY <1>3, <2>0 DEF Claims
    <2>2. \A b \in Backends : life[s][b] # "none" => Is(b, "closed")
      BY <2>1 DEF Owned
    <2>3. \A d \in Clients : Creates(d, s) => proc[d].b \in Backends
      BY HeldInstance DEF Creates, HoldLabels
    <2>4. \A d \in Clients : Creates(d, s) => Is(proc[d].b, "closed")
      BY <2>1, <2>3 DEF Owned
    <2>5. \A b \in Backends : life'[s][b] # "none" => Is(b, "closed")'
      BY <1>1, <2>2
    <2>6. ASSUME NEW d \in Clients, Creates(d, s)', ~("closed" \in marks'[proc'[d].b])
          PROVE  owner'[s] = proc'[d].b
      <3>1. CASE d = c
        BY <2>1, <2>6, <3>1 DEF Claims, Creates
      <3>2. CASE d # c
        <4>1. proc'[d] = proc[d]
          BY <1>1, <2>6, <3>2 DEF CreatorsSame, Creates
        <4>2. Creates(d, s)
          BY <2>6, <4>1 DEF Creates
        <4> QED BY <2>3, <2>4, <2>6, <4>1, <4>2 DEF Is
      <3> QED BY <3>1, <3>2
    <2>7. \A d \in Clients : Creates(d, s)' /\ ~("closed" \in marks'[proc'[d].b]) => owner'[s] = proc'[d].b
      BY <2>6
    <2> QED BY <2>5, <2>7 DEF Owned, Is
  <1> QED BY <1>2, <1>3

LEMMA CallerOwned ==
    ASSUME Shape, NEW c \in Clients, OnPool(c), OnWork(c), NEW s \in Keyed, Owned(s), s \notin dropped',
           \A b \in Backends : Is(b, "closed") => Is(b, "closed")'
    PROVE  Owned(s)'
  <1>1. CreatorsSame({c}) /\ s \in Targets /\ s \notin Interactions
    BY CallerAlone, PoolConstants DEF Targets
  <1>2. CASE Claims(c)
    BY <1>2, ClaimOwned
  <1>3. CASE Elsewhere(c)
    BY <1>1, <1>3, OwnedStays DEF Elsewhere
  <1>4. CASE Calls(c)
    <2>1. \A b \in Backends : life'[s][b] # "none" /\ ~Is(b, "closed") => life[s][b] # "none" \/ owner[s] = b
      <3> SUFFICES ASSUME NEW b \in Backends, life'[s][b] # "none", ~Is(b, "closed"), life[s][b] = "none"
                   PROVE  owner[s] = b
        OBVIOUS
      <3>1. b = proc[c].b /\ proc[c].op = "create" /\ s = proc[c].on /\ proc[c].at = "call"
        BY <1>1, <1>4 DEF Calls
      <3> QED BY <3>1 DEF Owned, Creates
    <2>2. owner' = owner /\ proc'[c].at \notin {"prepare", "call"}
      BY <1>4 DEF Calls
    <2> QED BY <1>1, <2>1, <2>2, OwnedStays
  <1>5. CASE Prepares(c)
    <2>1. owner' = owner /\ life' = life
      BY <1>5 DEF Prepares
    <2>2. proc'[c].at \in {"prepare", "call"} /\ proc'[c].on = s /\ proc'[c].op = "create"
          => Creates(c, s) /\ proc'[c].b = proc[c].b
      BY <1>5 DEF Prepares, Creates
    <2> QED BY <1>1, <2>1, <2>2, OwnedStays
  <1>6. CASE Unclaims(c)
    <2>1. owner'[s] = owner[s] /\ life' = life /\ proc'[c].at \notin {"prepare", "call"}
      BY <1>6 DEF Unclaims
    <2> QED BY <1>1, <2>1, OwnedStays
  <1> QED BY <1>2, <1>3, <1>4, <1>5, <1>6 DEF OnWork

\* An instance that leaves takes its claims along, and is closed.
LEMMA LeavingOwned ==
    ASSUME Shape, NEW a \in Actors, Removes(a), NEW s \in Keyed, Owned(s)
    PROVE  Owned(s)'
  <1>1. PICK b \in Backends : proc[a].b = b
    BY DrainActor DEF Removes
  <1>2. /\ marks' = [marks EXCEPT ![b] = @ \cup {"closed"}] /\ life' = life /\ Only({a}) /\ a \in Drainers
        /\ owner'[s] = IF owner[s] = b THEN NoBackend ELSE owner[s]
    BY <1>1 DEF Removes
  <1>3. \A c \in Clients : proc'[c] = proc[c]
    <2>1. Clients \cap Drainers = {}
      BY NotWaitedFor
    <2>2. Clients \subseteq Actors
      BY ActorKinds
    <2> QED BY <1>2, <2>1, <2>2 DEF Only
  <1>4. marks \in [Backends -> SUBSET Marks]
    BY ShapeGives DEF Types
  <1>5. \A d \in Backends : /\ Is(d, "closed") => Is(d, "closed")'
                            /\ d = b => Is(d, "closed")'
    BY <1>2, <1>4 DEF Is
  <1>6. \A d \in Backends : life'[s][d] # "none" /\ ~Is(d, "closed")' => owner'[s] = d
    BY <1>2, <1>5 DEF Owned
  <1>7. ASSUME NEW c \in Clients, Creates(c, s), "closed" \notin marks'[proc[c].b]
        PROVE  owner'[s] = proc[c].b
    <2>1. proc[c].b \in Backends
      BY <1>7, HeldInstance DEF Creates, HoldLabels
    <2> QED BY <1>2, <1>5, <1>7, <2>1 DEF Owned, Is
  <1> QED BY <1>3, <1>6, <1>7 DEF Owned, Is, Creates

\* When Close is done, whatever had joined is closed.
LEMMA ClosedOwned ==
    ASSUME Shape, Drains, Unborn, CloseEnds, NEW s \in Keyed
    PROVE  Owned(s)'
  <1>1. /\ UNCHANGED <<marks, life>> /\ Only({Closer}) /\ s \in Targets
        /\ proc[Closer].at = "wait" /\ \A a \in WaitedFor : proc[a].at = "idle"
    BY PoolConstants DEF CloseEnds, Targets
  <1>2. backends = {}
    BY <1>1, AllGone
  <1>3. \A b \in Backends : b <= nextID => Is(b, "closed")
    BY <1>2 DEF Drains, Progress
  <1>4. \A b \in Backends : b <= nextID \/ b > nextID
    BY SMT, ShapeGives DEF Backends
  <1>5. \A b \in Backends : life'[s][b] # "none" => Is(b, "closed")'
    BY <1>1, <1>3, <1>4 DEF Unborn, Is
  <1>6. \A c \in Clients : proc'[c] = proc[c]
    <2>1. \A c \in Clients : c \in Actors /\ c # Closer
      BY ActorKinds, NotWaitedFor
    <2> QED BY <1>1, <2>1 DEF Only
  <1>7. ASSUME NEW c \in Clients, Creates(c, s) PROVE "closed" \in marks'[proc[c].b]
    <2>1. proc[c].b \in Backends /\ proc[c].b <= nextID
      BY <1>7, HeldInstance, ShapeNumbers DEF Creates, HoldLabels
    <2> QED BY <1>1, <1>3, <2>1 DEF Is
  <1> QED BY <1>5, <1>6, <1>7 DEF Owned, Is, Creates

LEMMA UnbornStep ==
    ASSUME Shape, Shape', Unborn, Step
    PROVE  Unborn'
  <1>1. \A b \in Backends : b > nextID' => b > nextID
    BY SMT, StepGrows DEF Grows, Backends
  <1>2. CASE LivesSame
    BY <1>1, <1>2 DEF Unborn, LivesSame
  <1>3. ASSUME NEW c \in Clients, OnPool(c), OnWork(c) PROVE Unborn'
    <2>1. CASE Calls(c)
      <3>1. proc[c].b <= nextID /\ proc[c].b \in Backends
        BY <2>1, HeldInstance, ShapeNumbers DEF Calls, HoldLabels
      <3>2. ~(proc[c].b > nextID)
        BY SMT, <3>1, ShapeNumbers DEF Backends
      <3>3. ASSUME NEW y \in Targets, NEW d \in Backends, d > nextID PROVE life'[y][d] = "none"
        BY <2>1, <3>2, <3>3 DEF Calls, Unborn
      <3> QED BY <1>1, <3>3 DEF Unborn
    <2>2. CASE ~Calls(c)
      <3>1. life' = life
        BY <1>3, <2>2 DEF OnWork, Elsewhere, Claims, Prepares, Unclaims
      <3> QED BY <1>2, <3>1 DEF LivesSame
    <2> QED BY <2>1, <2>2
  <1>4. ASSUME NEW a \in Actors, Removes(a) PROVE LivesSame
    BY <1>4 DEF Removes, LivesSame
  <1>5. CASE CloseEnds
    BY <1>2, <1>5 DEF CloseEnds, LivesSame
  <1> QED BY <1>2, <1>3, <1>4, <1>5, StepAside DEF Aside

LEMMA OwnersStep ==
    ASSUME Shape, Shape', Drains, Owners, Step
    PROVE  Owners'
  <1>1. Unborn'
    BY UnbornStep DEF Owners
  <1>2. \A b \in Backends : Is(b, "closed") => Is(b, "closed")'
    BY StepGrows DEF Grows, Is
  <1> SUFFICES ASSUME NEW s \in Keyed, s \notin dropped' PROVE Owned(s)'
    BY <1>1 DEF Owners
  <1>3. ASSUME s \in dropped PROVE FALSE
    <2>1. dropped \subseteq dropped'
      BY StepAside DEF OnWork, Elsewhere, Claims, Calls, Prepares, Unclaims, Aside, Removes, CloseEnds
    <2> QED BY <1>3, <2>1
  <1>4. Owned(s)
    BY <1>3 DEF Owners
  <1>5. CASE Aside
    <2>1. s \in Targets
      BY PoolConstants DEF Targets
    <2> QED BY <1>2, <1>4, <1>5, <2>1, OwnedStays DEF Aside, LivesSame
  <1>6. CASE CloseEnds
    BY <1>6, ClosedOwned DEF Owners
  <1>7. ASSUME NEW c \in Clients, OnPool(c), OnWork(c) PROVE Owned(s)'
    BY <1>2, <1>4, <1>7, CallerOwned
  <1>8. ASSUME NEW a \in Actors, Removes(a) PROVE Owned(s)'
    BY <1>4, <1>8, LeavingOwned
  <1> QED BY <1>5, <1>6, <1>7, <1>8, StepAside

LEMMA InitOwners ==
    ASSUME Init
    PROVE  Owners
  <1>1. \A x \in Targets, b \in Backends : life[x][b] = "none"
    BY DEF Init
  <1>2. \A c \in Clients : proc[c].at = "idle"
    BY ActorKinds DEF Init, At
  <1>3. Keyed \subseteq Targets
    BY PoolConstants DEF Targets
  <1> QED BY <1>1, <1>2, <1>3 DEF Owners, Unborn, Owned, Creates

LEMMA OwnerAlone ==
    ASSUME Owners
    PROVE  OneOwner
  <1> SUFFICES ASSUME NEW s \in Keyed \ dropped PROVE Cardinality(Holding(s)) <= 1
    BY DEF OneOwner
  <1>1. Holding(s) \subseteq {owner[s]}
    BY DEF Owners, Owned, Holding
  <1>2. IsFiniteSet({owner[s]}) /\ Cardinality({owner[s]}) = 1
    BY FS_Singleton
  <1>3. Cardinality(Holding(s)) <= Cardinality({owner[s]})
    BY <1>1, <1>2, FS_Subset
  <1> QED BY <1>2, <1>3

-----------------------------------------------------------------------------
(* The layers together. *)

LEMMA Typed ==
    ASSUME Shape, StartsCounted
    PROVE  TypeOK
  <1>1. starting \in Nat
    <2>1. IsFiniteSet(Starters)
      BY ActorsFinite, FS_Subset DEF Starters
    <2> QED BY <2>1, FS_CardinalityType DEF StartsCounted
  <1>2. Types /\ proc \in [Actors -> Proc]
        /\ \A a \in Actors : proc[a] \in Proc /\ proc[a].b \in 0 .. nextID /\ proc[a].pref \in 0 .. nextID
    BY ShapeGives
  <1>3. \A i \in 0 .. nextID : i \in Backends \cup {NoBackend}
    BY SMT, ShapeGives DEF Backends, NoBackend
  <1>4. route \in [Targets -> Backends \cup {NoBackend}] /\ owner \in [Keyed -> Backends \cup {NoBackend}]
    BY <1>2, <1>3 DEF Types
  <1>5. \A a \in Actors : proc[a].at \in Labels /\ proc[a].todo \subseteq Backends
    BY <1>2 DEF Proc
  <1>6. DOMAIN proc = Actors
    BY <1>2
  <1> QED BY <1>1, <1>2, <1>4, <1>5, <1>6 DEF TypeOK, Types, Answers

LEMMA InitCapacity ==
    ASSUME Init, Shape
    PROVE  CapacityKept
  <1>1. MinReady \in Nat /\ MaxReady \in Nat /\ MinReady <= MaxReady /\ 1 \in Int /\ MinReady \in Int
    BY SMT, PoolConstants
  <1>2. backends = 1 .. MinReady /\ starting = 0
    BY DEF Init
  <1>3. IsFiniteSet(1 .. MinReady) /\ Cardinality(1 .. MinReady) = MinReady
    BY SMT, <1>1, FS_Interval
  <1>4. Cardinality(Accepting) <= MinReady /\ Cardinality(Accepting) \in Nat
    BY <1>2, <1>3, FS_Subset, AcceptingFinite DEF Accepting
  <1>5. Landed = {}
    BY DEF Init, Landed, At
  <1>6. Cardinality(Landed) = 0
    BY <1>5, FS_EmptySet
  <1> QED BY SMT, <1>1, <1>2, <1>4, <1>6 DEF CapacityKept

\* The inductive invariant.
PoolInv ==
    /\ Shape /\ Successors /\ StartsCounted /\ CapacityKept /\ Drains /\ HoldsCounted
    /\ RoutesInPool /\ KeysInPool /\ Owners

LEMMA InitLayers ==
    ASSUME Init, Shape
    PROVE  PoolInv
  BY InitSuccessors, InitStarts, InitCapacity, InitDrains, InitHolds, InitKeys, InitOwners DEF PoolInv

LEMMA LayersKept ==
    ASSUME PoolInv, Shape', Step
    PROVE  PoolInv' /\ DrainsIdle
  <1> USE DEF PoolInv
  <1>1. Successors'
    BY SuccessorsKept
  <1>2. StartsCounted'
    BY StepStarts, StartsKeptCount
  <1>3. CapacityKept'
    BY CapacityStep
  <1>4. Drains'
    BY DrainsKept
  <1>5. HoldsCounted'
    BY HoldsStep
  <1>6. RoutesInPool' /\ KeysInPool'
    BY RoutesStep, KeysStep DEF HoldsCounted
  <1>7. Owners'
    BY OwnersStep
  <1>8. DrainsIdle
    BY DrainsIdleStep
  <1> QED BY <1>1, <1>2, <1>3, <1>4, <1>5, <1>6, <1>7, <1>8

LEMMA LayersGive ==
    ASSUME PoolInv
    PROVE  TypeOK /\ CapacityKept /\ ClosedExactlyOnce /\ RoutesInPool /\ KeysInPool /\ OneOwner
  BY Typed, ClosedOnce, OwnerAlone DEF PoolInv

=============================================================================
