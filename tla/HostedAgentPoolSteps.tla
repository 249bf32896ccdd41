------------------------ MODULE HostedAgentPoolSteps ------------------------
(***************************************************************************)
(* Every step of the hosted agent pool keeps Shape and has one of the       *)
(* effects that Step lists: one lemma per action.                           *)
(***************************************************************************)
EXTENDS HostedAgentPoolShape

-----------------------------------------------------------------------------
(* The actors. *)

LEMMA Kinds ==
    /\ Clients \subseteq Actors /\ Health \in Actors /\ Closer \in Actors
    /\ ScaleOuts \subseteq Actors /\ Drainers \subseteq Actors
    /\ \A b \in Backends : /\ Replacer(b) \in Replacers /\ Proactive(b) \in Proactives
                           /\ CloserOf(b) \in Closers
    /\ \A a \in Replacers : \E b \in Backends : a = Replacer(b)
    /\ \A a \in Proactives : \E b \in Backends : a = Proactive(b)
    /\ \A a \in Closers : \E b \in Backends : a = CloserOf(b)
    /\ Drainers = Replacers \cup Proactives \cup Closers
    /\ Actors = Clients \cup {Health, Closer} \cup ScaleOuts \cup Drainers
  BY DEF Actors, Lifecycle, Drainers, Replacers, Proactives, Closers, ScaleOuts

LEMMA KindsApart ==
    /\ Health # Closer
    /\ Clients \cap ({Health, Closer} \cup ScaleOuts \cup Drainers) = {}
    /\ ScaleOuts \cap ({Health, Closer} \cup Drainers) = {}
    /\ {Health, Closer} \cap Drainers = {}
    /\ Replacers \cap Proactives = {} /\ Replacers \cap Closers = {}
    /\ Proactives \cap Closers = {}
  <1>1. Clients \cap ({Health, Closer} \cup ScaleOuts \cup Drainers) = {}
    BY PoolClients DEF Lifecycle, Drainers
  <1>2. /\ ScaleOuts \cap ({Health, Closer} \cup Drainers) = {}
        /\ {Health, Closer} \cap Drainers = {} /\ Health # Closer
    BY DEF ScaleOuts, ScaleOut, Health, Closer, Drainers, Replacers, Proactives, Closers,
           Replacer, Proactive, CloserOf
  <1>3. /\ Replacers \cap Proactives = {} /\ Replacers \cap Closers = {}
        /\ Proactives \cap Closers = {}
    BY DEF Replacers, Proactives, Closers, Replacer, Proactive, CloserOf
  <1> QED BY <1>1, <1>2, <1>3

LEMMA OneEach ==
    \A b, d \in Backends : /\ Replacer(b) = Replacer(d) => b = d
                           /\ Proactive(b) = Proactive(d) => b = d
                           /\ CloserOf(b) = CloserOf(d) => b = d
  BY DEF Replacer, Proactive, CloserOf

LEMMA DrainersApart ==
    \A b \in Backends :
        /\ \A a \in {Replacer(b), Proactive(b), CloserOf(b)} :
              a \notin Clients /\ a # Health /\ a # Closer /\ a \notin ScaleOuts
        /\ \A d \in Backends : /\ Replacer(b) # Proactive(d) /\ Replacer(b) # CloserOf(d)
                               /\ Proactive(b) # CloserOf(d)
  <1>1. \A b \in Backends : \A a \in {Replacer(b), Proactive(b), CloserOf(b)} :
            a \notin Clients /\ a # Health /\ a # Closer /\ a \notin ScaleOuts
    BY Kinds, KindsApart
  <1>2. \A b, d \in Backends : /\ Replacer(b) # Proactive(d) /\ Replacer(b) # CloserOf(d)
                               /\ Proactive(b) # CloserOf(d)
    BY DEF Replacer, Proactive, CloserOf
  <1> QED BY <1>1, <1>2

-----------------------------------------------------------------------------
(* What Shape says of an actor. *)

LEMMA ShapeFacts ==
    ASSUME Shape
    PROVE  /\ Types /\ proc \in [Actors -> Proc]
           /\ nextID \in Nat /\ MaxBackends \in Nat /\ nextID <= MaxBackends
           /\ \A a \in Actors : /\ proc[a] \in Proc /\ proc[a].b \in 0 .. nextID
                                /\ proc[a].pref \in 0 .. nextID
           /\ \A c \in Clients : ClientShape(proc[c])
  <1>1. /\ Types /\ proc \in [Actors -> Proc]
        /\ nextID \in Nat /\ MaxBackends \in Nat /\ nextID <= MaxBackends
    BY PoolConstants DEF Shape, Types
  <1>2. ASSUME NEW a \in Actors
        PROVE  /\ proc[a] \in Proc /\ proc[a].b \in 0 .. nextID
               /\ proc[a].pref \in 0 .. nextID /\ ActorShape(a, proc[a])
    <2>1. Placed(a, proc[a], nextID)
      BY DEF Shape
    <2>2. proc[a] \in Proc /\ proc[a].b <= nextID /\ proc[a].pref <= nextID /\ ActorShape(a, proc[a])
      BY <2>1 DEF Placed
    <2>3. proc[a].b \in 0 .. MaxBackends /\ proc[a].pref \in 0 .. MaxBackends
      BY <2>2 DEF Proc
    <2> QED BY <1>1, <2>2, <2>3
  <1>3. \A c \in Clients : ClientShape(proc[c])
    BY <1>2, Kinds DEF ActorShape
  <1> QED BY <1>1, <1>2, <1>3

\* The bounds of the identifiers, as facts to cite where no arithmetic is left.
LEMMA Numbers ==
    ASSUME Shape
    PROVE  /\ nextID \in Nat /\ nextID <= nextID /\ NoBackend \in 0 .. nextID /\ 0 \in 0 .. nextID
           /\ NoBackend \in 0 .. MaxBackends /\ 0 <= nextID
           /\ \A i \in 0 .. nextID : i <= nextID /\ i \in 0 .. MaxBackends
           /\ \A i \in 1 .. nextID : i \in 0 .. nextID /\ i <= nextID /\ i \in Backends
           /\ \A i \in Backends : i \in 0 .. MaxBackends
           /\ starting \in Int /\ starting + 1 \in Int /\ starting - 1 \in Int
  <1>1. nextID \in Nat /\ MaxBackends \in Nat /\ nextID <= MaxBackends /\ starting \in Int
    BY ShapeFacts DEF Types
  <1> QED BY <1>1 DEF Backends, NoBackend

\* What a caller holds is an instance that has joined.
LEMMA Held ==
    ASSUME Shape, NEW c \in Clients, proc[c].at \in HoldLabels \cup {"record", "found"}
    PROVE  /\ proc[c].b \in 1 .. nextID /\ proc[c].b \in Backends /\ c # Replacer(proc[c].b)
           /\ c \in Actors /\ Replacer(proc[c].b) \in Actors
  <1>1. /\ c \in Actors /\ ClientShape(proc[c]) /\ nextID \in Nat /\ proc[c].b \in 0 .. nextID
        /\ nextID <= MaxBackends /\ MaxBackends \in Nat
    BY Kinds, ShapeFacts
  <1>2. proc[c].b # 0
    BY <1>1 DEF ClientShape, NoBackend
  <1>3. proc[c].b \in 1 .. nextID /\ proc[c].b \in Backends
    BY <1>1, <1>2 DEF Backends
  <1> QED BY <1>1, <1>3, DrainersApart, Kinds

LEMMA ProactiveKind ==
    ASSUME NEW b \in Backends
    PROVE  /\ Proactive(b) \in Actors /\ Replacer(b) \in Actors /\ CloserOf(b) \in Actors
           /\ Proactive(b) \notin Clients /\ Proactive(b) # Health /\ Proactive(b) # Closer
           /\ Health # Replacer(b) /\ Health \in Actors /\ Health \notin Clients
  BY Kinds, KindsApart, DrainersApart

\* A drainer that is at work has an instance that has joined.
LEMMA Draining ==
    ASSUME Shape, NEW a \in Drainers, proc[a].at # "idle"
    PROVE  proc[a].b \in Backends /\ proc[a].b \in 1 .. nextID /\ a \in {Replacer(proc[a].b), Proactive(proc[a].b), CloserOf(proc[a].b)}
  <1>1. a \in Actors /\ nextID \in Nat /\ Placed(a, proc[a], nextID) /\ proc[a].b \in 0 .. nextID
    BY Kinds, ShapeFacts DEF Shape
  <1>2. PICK b \in Backends : a \in {Replacer(b), Proactive(b), CloserOf(b)}
    BY Kinds
  <1>3. proc[a].b = b
    BY <1>1, <1>2 DEF Placed, ActorShape, DrainerShape
  <1>4. b \in 1 .. nextID
    BY <1>1, <1>3 DEF Backends
  <1> QED BY <1>2, <1>3, <1>4

-----------------------------------------------------------------------------
(* The obligations are many and small; a slow machine may take its time. *)
USE ZenonT(60)

-----------------------------------------------------------------------------
(* Shape is inductive. *)

LEMMA PlacedAs ==
    ASSUME NEW r \in Proc, NEW n \in Nat, r.b <= n, r.pref <= n
    PROVE  /\ \A c \in Clients : ClientShape(r) => Placed(c, r, n)
           /\ r.at \in {"idle", "ensure", "start", "settle", "check"} /\ r.todo \subseteq 1 .. n
              => Placed(Health, r, n)
           /\ r.at \in {"idle", "wait", "done"} => Placed(Closer, r, n)
           /\ \A a \in ScaleOuts : r.at \in {"idle", "start", "settle"} => Placed(a, r, n)
           /\ \A b \in Backends :
                 /\ DrainerShape(r, b, ReplacerLabels) => Placed(Replacer(b), r, n)
                 /\ DrainerShape(r, b, ProactiveLabels) => Placed(Proactive(b), r, n)
                 /\ DrainerShape(r, b, CloserLabels) => Placed(CloserOf(b), r, n)
  <1>1. \A c \in Clients : ClientShape(r) => Placed(c, r, n)
    BY SMT, Kinds, KindsApart DEF Placed, ActorShape
  <1>2. r.at \in {"idle", "ensure", "start", "settle", "check"} /\ r.todo \subseteq 1 .. n
        => Placed(Health, r, n)
    BY Kinds, KindsApart DEF Placed, ActorShape
  <1>3. r.at \in {"idle", "wait", "done"} => Placed(Closer, r, n)
    BY Kinds, KindsApart DEF Placed, ActorShape
  <1>4. \A a \in ScaleOuts : r.at \in {"idle", "start", "settle"} => Placed(a, r, n)
    BY SMT, Kinds, KindsApart DEF Placed, ActorShape
  <1>5. ASSUME NEW b \in Backends, DrainerShape(r, b, ReplacerLabels)
        PROVE  Placed(Replacer(b), r, n)
    <2>1. ActorShape(Replacer(b), r)
      <3>1. Replacer(b) \notin Clients /\ Replacer(b) # Health /\ Replacer(b) # Closer /\ Replacer(b) \notin ScaleOuts
        BY DrainersApart
      <3>2. \A d \in Backends : /\ Replacer(b) # Proactive(d) /\ Replacer(b) # CloserOf(d)
                                /\ Replacer(b) = Replacer(d) => b = d
        BY DrainersApart, OneEach
      <3> QED BY <1>5, <3>1, <3>2 DEF ActorShape
    <2> QED BY <2>1, DrainersApart DEF Placed
  <1>6. ASSUME NEW b \in Backends, DrainerShape(r, b, ProactiveLabels)
        PROVE  Placed(Proactive(b), r, n)
    <2>1. ActorShape(Proactive(b), r)
      <3>1. Proactive(b) \notin Clients /\ Proactive(b) # Health /\ Proactive(b) # Closer /\ Proactive(b) \notin ScaleOuts
        BY DrainersApart
      <3>2. \A d \in Backends : /\ Proactive(b) # Replacer(d) /\ Proactive(b) # CloserOf(d)
                                /\ Proactive(b) = Proactive(d) => b = d
        BY DrainersApart, OneEach
      <3> QED BY <1>6, <3>1, <3>2 DEF ActorShape
    <2> QED BY <2>1, DrainersApart DEF Placed
  <1>7. ASSUME NEW b \in Backends, DrainerShape(r, b, CloserLabels)
        PROVE  Placed(CloserOf(b), r, n)
    <2>1. ActorShape(CloserOf(b), r)
      <3>1. CloserOf(b) \notin Clients /\ CloserOf(b) # Health /\ CloserOf(b) # Closer /\ CloserOf(b) \notin ScaleOuts
        BY DrainersApart
      <3>2. \A d \in Backends : /\ CloserOf(b) # Replacer(d) /\ CloserOf(b) # Proactive(d)
                                /\ CloserOf(b) = CloserOf(d) => b = d
        BY DrainersApart, OneEach
      <3> QED BY <1>7, <3>1, <3>2 DEF ActorShape
    <2> QED BY <2>1, DrainersApart DEF Placed
  <1> QED BY <1>1, <1>2, <1>3, <1>4, <1>5, <1>6, <1>7

\* Whoever a step moves is placed again.
LEMMA ShapeKept ==
    ASSUME Shape, Types', nextID <= nextID', proc' \in [Actors -> Proc],
           \A a \in Actors : proc'[a] = proc[a] \/ Placed(a, proc'[a], nextID')
    PROVE  Shape'
  <1> SUFFICES ASSUME NEW a \in Actors PROVE Placed(a, proc'[a], nextID')
    BY DEF Shape
  <1>1. CASE proc'[a] = proc[a]
    <2>1. proc[a] \in Proc /\ proc[a].b <= nextID /\ proc[a].pref <= nextID /\ ActorShape(a, proc[a])
      BY DEF Shape, Placed
    <2>2. proc[a].b \in Nat /\ proc[a].pref \in Nat /\ nextID \in Nat /\ nextID' \in Nat
      BY SMT, <2>1, PoolConstants DEF Shape, Types, Proc
    <2>3. proc[a].b <= nextID' /\ proc[a].pref <= nextID'
      BY SMT, <2>1, <2>2
    <2>4. a = Health => proc[a].todo \subseteq 1 .. nextID'
      <3>1. \A i \in 1 .. nextID : i \in 1 .. nextID'
        BY SMT, <2>2
      <3> QED BY <3>1 DEF Shape, Placed
    <2> QED BY <1>1, <2>1, <2>3, <2>4 DEF Placed
  <1> QED BY <1>1

-----------------------------------------------------------------------------
(* Setting fields of an actor's record. *)

\* One field of a record is set.
LEMMA PutAt ==
    ASSUME NEW p \in Proc, NEW label \in Labels
    PROVE  LET q == [p EXCEPT !.at = label]
           IN  q \in Proc /\ q.at = label /\ q.op = p.op /\ q.on = p.on
               /\ q.b = p.b /\ q.pref = p.pref /\ q.ws = p.ws
  BY DEF Proc

LEMMA PutB ==
    ASSUME NEW p \in Proc, NEW b \in 0 .. MaxBackends
    PROVE  LET q == [p EXCEPT !.b = b]
           IN  q \in Proc /\ q.at = p.at /\ q.op = p.op /\ q.on = p.on
               /\ q.b = b /\ q.pref = p.pref /\ q.ws = p.ws
  BY DEF Proc

LEMMA PutPref ==
    ASSUME NEW p \in Proc, NEW pref \in 0 .. MaxBackends
    PROVE  LET q == [p EXCEPT !.pref = pref]
           IN  q \in Proc /\ q.at = p.at /\ q.op = p.op /\ q.on = p.on
               /\ q.b = p.b /\ q.pref = pref /\ q.ws = p.ws
  BY DEF Proc

LEMMA PutOp ==
    ASSUME NEW p \in Proc, NEW op \in Ops
    PROVE  LET q == [p EXCEPT !.op = op]
           IN  q \in Proc /\ q.at = p.at /\ q.op = op /\ q.on = p.on
               /\ q.b = p.b /\ q.pref = p.pref /\ q.ws = p.ws
  BY DEF Proc

LEMMA PutOn ==
    ASSUME NEW p \in Proc, NEW x \in Targets
    PROVE  LET q == [p EXCEPT !.on = x]
           IN  q \in Proc /\ q.at = p.at /\ q.op = p.op /\ q.on = x
               /\ q.b = p.b /\ q.pref = p.pref /\ q.ws = p.ws
  BY DEF Proc

LEMMA PutTodo ==
    ASSUME NEW p \in Proc, NEW todo \in SUBSET Backends
    PROVE  LET q == [p EXCEPT !.todo = todo]
           IN  q \in Proc /\ q.at = p.at /\ q.op = p.op /\ q.on = p.on
               /\ q.b = p.b /\ q.pref = p.pref /\ q.ws = p.ws
  BY DEF Proc

LEMMA PutWs ==
    ASSUME NEW p \in Proc, NEW ws \in BOOLEAN
    PROVE  LET q == [p EXCEPT !.ws = ws]
           IN  q \in Proc /\ q.at = p.at /\ q.op = p.op /\ q.on = p.on
               /\ q.b = p.b /\ q.pref = p.pref /\ q.ws = ws
  BY DEF Proc

LEMMA PutAllow ==
    ASSUME NEW p \in Proc, NEW allow \in BOOLEAN
    PROVE  LET q == [p EXCEPT !.allow = allow]
           IN  q \in Proc /\ q.at = p.at /\ q.op = p.op /\ q.on = p.on
               /\ q.b = p.b /\ q.pref = p.pref /\ q.ws = p.ws
  BY DEF Proc

LEMMA PutAns ==
    ASSUME NEW p \in Proc, NEW ans \in Answers
    PROVE  LET q == [p EXCEPT !.ans = ans]
           IN  q \in Proc /\ q.at = p.at /\ q.op = p.op /\ q.on = p.on
               /\ q.b = p.b /\ q.pref = p.pref /\ q.ws = p.ws
  BY DEF Proc

\* A workspace is prepared for sessions only.
WsFrom(r, p) == r.ws = TRUE => p.ws = TRUE \/ p.on \in Sessions

NoWs(r) == r.ws = FALSE

\* g is f, but for the record of a, of which op and on are kept.
Sets(g, f, a, label, b, pref) ==
    /\ g \in [Actors -> Proc] /\ \A d \in Actors \ {a} : g[d] = f[d]
    /\ g[a].at = label /\ g[a].b = b /\ g[a].pref = pref
    /\ g[a].op = f[a].op /\ g[a].on = f[a].on /\ WsFrom(g[a], f[a])

LEMMA SetAt ==
    ASSUME NEW f \in [Actors -> Proc], NEW a \in Actors,
           NEW label \in Labels
    PROVE  Sets([f EXCEPT ![a].at = label],
                f, a, label, f[a].b, f[a].pref)
  <1> DEFINE q1 == [f[a] EXCEPT !.at = label]
             g == [f EXCEPT ![a].at = label]
  <1>1. g \in [Actors -> Proc \cup {q1}] /\ g[a] = q1 /\ \A d \in Actors \ {a} : g[d] = f[d]
    OBVIOUS
  <1> HIDE DEF g
  <1>2. q1 \in Proc /\ q1.at = label /\ q1.b = f[a].b /\ q1.pref = f[a].pref
        /\ q1.op = f[a].op /\ q1.on = f[a].on /\ q1.ws = f[a].ws
    BY SMT, PutAt
  <1> HIDE DEF q1
  <1> QED BY <1>1, <1>2 DEF Sets, WsFrom, g

LEMMA SetPref ==
    ASSUME NEW f \in [Actors -> Proc], NEW a \in Actors,
           NEW pref \in 0 .. MaxBackends
    PROVE  Sets([f EXCEPT ![a].pref = pref],
                f, a, f[a].at, f[a].b, pref)
  <1> DEFINE q1 == [f[a] EXCEPT !.pref = pref]
             g == [f EXCEPT ![a].pref = pref]
  <1>1. g \in [Actors -> Proc \cup {q1}] /\ g[a] = q1 /\ \A d \in Actors \ {a} : g[d] = f[d]
    OBVIOUS
  <1> HIDE DEF g
  <1>2. q1 \in Proc /\ q1.at = f[a].at /\ q1.b = f[a].b /\ q1.pref = pref
        /\ q1.op = f[a].op /\ q1.on = f[a].on /\ q1.ws = f[a].ws
    BY SMT, PutPref
  <1> HIDE DEF q1
  <1> QED BY <1>1, <1>2 DEF Sets, WsFrom, g

LEMMA SetAtB ==
    ASSUME NEW f \in [Actors -> Proc], NEW a \in Actors,
           NEW label \in Labels, NEW b \in 0 .. MaxBackends
    PROVE  Sets([f EXCEPT ![a].at = label, ![a].b = b],
                f, a, label, b, f[a].pref)
  <1> DEFINE q1 == [f[a] EXCEPT !.at = label]
             q2 == [q1 EXCEPT !.b = b]
             g == [f EXCEPT ![a].at = label, ![a].b = b]
  <1>1. g \in [Actors -> Proc \cup {q2}] /\ g[a] = q2 /\ \A d \in Actors \ {a} : g[d] = f[d]
    OBVIOUS
  <1> HIDE DEF g
  <1>2. q1 \in Proc /\ q1.at = label /\ q1.b = f[a].b /\ q1.pref = f[a].pref
        /\ q1.op = f[a].op /\ q1.on = f[a].on /\ q1.ws = f[a].ws
    BY SMT, PutAt
  <1> HIDE DEF q1
  <1>3. q2 \in Proc /\ q2.at = label /\ q2.b = b /\ q2.pref = f[a].pref
        /\ q2.op = f[a].op /\ q2.on = f[a].on /\ q2.ws = f[a].ws
    BY SMT, <1>2, PutB
  <1> HIDE DEF q2
  <1> QED BY <1>1, <1>3 DEF Sets, WsFrom, g

LEMMA SetAtPref ==
    ASSUME NEW f \in [Actors -> Proc], NEW a \in Actors,
           NEW label \in Labels, NEW pref \in 0 .. MaxBackends
    PROVE  Sets([f EXCEPT ![a].at = label, ![a].pref = pref],
                f, a, label, f[a].b, pref)
  <1> DEFINE q1 == [f[a] EXCEPT !.at = label]
             q2 == [q1 EXCEPT !.pref = pref]
             g == [f EXCEPT ![a].at = label, ![a].pref = pref]
  <1>1. g \in [Actors -> Proc \cup {q2}] /\ g[a] = q2 /\ \A d \in Actors \ {a} : g[d] = f[d]
    OBVIOUS
  <1> HIDE DEF g
  <1>2. q1 \in Proc /\ q1.at = label /\ q1.b = f[a].b /\ q1.pref = f[a].pref
        /\ q1.op = f[a].op /\ q1.on = f[a].on /\ q1.ws = f[a].ws
    BY SMT, PutAt
  <1> HIDE DEF q1
  <1>3. q2 \in Proc /\ q2.at = label /\ q2.b = f[a].b /\ q2.pref = pref
        /\ q2.op = f[a].op /\ q2.on = f[a].on /\ q2.ws = f[a].ws
    BY SMT, <1>2, PutPref
  <1> HIDE DEF q2
  <1> QED BY <1>1, <1>3 DEF Sets, WsFrom, g

LEMMA SetAtBPref ==
    ASSUME NEW f \in [Actors -> Proc], NEW a \in Actors,
           NEW label \in Labels, NEW b \in 0 .. MaxBackends, NEW pref \in 0 .. MaxBackends
    PROVE  Sets([f EXCEPT ![a].at = label, ![a].b = b, ![a].pref = pref],
                f, a, label, b, pref)
  <1> DEFINE q1 == [f[a] EXCEPT !.at = label]
             q2 == [q1 EXCEPT !.b = b]
             q3 == [q2 EXCEPT !.pref = pref]
             g == [f EXCEPT ![a].at = label, ![a].b = b, ![a].pref = pref]
  <1>1. g \in [Actors -> Proc \cup {q3}] /\ g[a] = q3 /\ \A d \in Actors \ {a} : g[d] = f[d]
    OBVIOUS
  <1> HIDE DEF g
  <1>2. q1 \in Proc /\ q1.at = label /\ q1.b = f[a].b /\ q1.pref = f[a].pref
        /\ q1.op = f[a].op /\ q1.on = f[a].on /\ q1.ws = f[a].ws
    BY SMT, PutAt
  <1> HIDE DEF q1
  <1>3. q2 \in Proc /\ q2.at = label /\ q2.b = b /\ q2.pref = f[a].pref
        /\ q2.op = f[a].op /\ q2.on = f[a].on /\ q2.ws = f[a].ws
    BY SMT, <1>2, PutB
  <1> HIDE DEF q2
  <1>4. q3 \in Proc /\ q3.at = label /\ q3.b = b /\ q3.pref = pref
        /\ q3.op = f[a].op /\ q3.on = f[a].on /\ q3.ws = f[a].ws
    BY SMT, <1>3, PutPref
  <1> HIDE DEF q3
  <1> QED BY <1>1, <1>4 DEF Sets, WsFrom, g

LEMMA SetAtTodo ==
    ASSUME NEW f \in [Actors -> Proc], NEW a \in Actors,
           NEW label \in Labels, NEW todo \in SUBSET Backends
    PROVE  Sets([f EXCEPT ![a].at = label, ![a].todo = todo],
                f, a, label, f[a].b, f[a].pref)
  <1> DEFINE q1 == [f[a] EXCEPT !.at = label]
             q2 == [q1 EXCEPT !.todo = todo]
             g == [f EXCEPT ![a].at = label, ![a].todo = todo]
  <1>1. g \in [Actors -> Proc \cup {q2}] /\ g[a] = q2 /\ \A d \in Actors \ {a} : g[d] = f[d]
    OBVIOUS
  <1> HIDE DEF g
  <1>2. q1 \in Proc /\ q1.at = label /\ q1.b = f[a].b /\ q1.pref = f[a].pref
        /\ q1.op = f[a].op /\ q1.on = f[a].on /\ q1.ws = f[a].ws
    BY SMT, PutAt
  <1> HIDE DEF q1
  <1>3. q2 \in Proc /\ q2.at = label /\ q2.b = f[a].b /\ q2.pref = f[a].pref
        /\ q2.op = f[a].op /\ q2.on = f[a].on /\ q2.ws = f[a].ws
    BY SMT, <1>2, PutTodo
  <1> HIDE DEF q2
  <1> QED BY <1>1, <1>3 DEF Sets, WsFrom, g

LEMMA SetTodoAt ==
    ASSUME NEW f \in [Actors -> Proc], NEW a \in Actors,
           NEW todo \in SUBSET Backends, NEW label \in Labels
    PROVE  Sets([f EXCEPT ![a].todo = todo, ![a].at = label],
                f, a, label, f[a].b, f[a].pref)
  <1> DEFINE q1 == [f[a] EXCEPT !.todo = todo]
             q2 == [q1 EXCEPT !.at = label]
             g == [f EXCEPT ![a].todo = todo, ![a].at = label]
  <1>1. g \in [Actors -> Proc \cup {q2}] /\ g[a] = q2 /\ \A d \in Actors \ {a} : g[d] = f[d]
    OBVIOUS
  <1> HIDE DEF g
  <1>2. q1 \in Proc /\ q1.at = f[a].at /\ q1.b = f[a].b /\ q1.pref = f[a].pref
        /\ q1.op = f[a].op /\ q1.on = f[a].on /\ q1.ws = f[a].ws
    BY SMT, PutTodo
  <1> HIDE DEF q1
  <1>3. q2 \in Proc /\ q2.at = label /\ q2.b = f[a].b /\ q2.pref = f[a].pref
        /\ q2.op = f[a].op /\ q2.on = f[a].on /\ q2.ws = f[a].ws
    BY SMT, <1>2, PutAt
  <1> HIDE DEF q2
  <1> QED BY <1>1, <1>3 DEF Sets, WsFrom, g

LEMMA SetAtTodoPref ==
    ASSUME NEW f \in [Actors -> Proc], NEW a \in Actors,
           NEW label \in Labels, NEW todo \in SUBSET Backends, NEW pref \in 0 .. MaxBackends
    PROVE  Sets([f EXCEPT ![a].at = label, ![a].todo = todo, ![a].pref = pref],
                f, a, label, f[a].b, pref)
  <1> DEFINE q1 == [f[a] EXCEPT !.at = label]
             q2 == [q1 EXCEPT !.todo = todo]
             q3 == [q2 EXCEPT !.pref = pref]
             g == [f EXCEPT ![a].at = label, ![a].todo = todo, ![a].pref = pref]
  <1>1. g \in [Actors -> Proc \cup {q3}] /\ g[a] = q3 /\ \A d \in Actors \ {a} : g[d] = f[d]
    OBVIOUS
  <1> HIDE DEF g
  <1>2. q1 \in Proc /\ q1.at = label /\ q1.b = f[a].b /\ q1.pref = f[a].pref
        /\ q1.op = f[a].op /\ q1.on = f[a].on /\ q1.ws = f[a].ws
    BY SMT, PutAt
  <1> HIDE DEF q1
  <1>3. q2 \in Proc /\ q2.at = label /\ q2.b = f[a].b /\ q2.pref = f[a].pref
        /\ q2.op = f[a].op /\ q2.on = f[a].on /\ q2.ws = f[a].ws
    BY <1>2, PutTodo
  <1> HIDE DEF q2
  <1>4. q3 \in Proc /\ q3.at = label /\ q3.b = f[a].b /\ q3.pref = pref
        /\ q3.op = f[a].op /\ q3.on = f[a].on /\ q3.ws = f[a].ws
    BY SMT, <1>3, PutPref
  <1> HIDE DEF q3
  <1> QED BY <1>1, <1>4 DEF Sets, WsFrom, g

LEMMA SetAtAns ==
    ASSUME NEW f \in [Actors -> Proc], NEW a \in Actors,
           NEW label \in Labels, NEW ans \in Answers
    PROVE  Sets([f EXCEPT ![a].at = label, ![a].ans = ans],
                f, a, label, f[a].b, f[a].pref)
  <1> DEFINE q1 == [f[a] EXCEPT !.at = label]
             q2 == [q1 EXCEPT !.ans = ans]
             g == [f EXCEPT ![a].at = label, ![a].ans = ans]
  <1>1. g \in [Actors -> Proc \cup {q2}] /\ g[a] = q2 /\ \A d \in Actors \ {a} : g[d] = f[d]
    OBVIOUS
  <1> HIDE DEF g
  <1>2. q1 \in Proc /\ q1.at = label /\ q1.b = f[a].b /\ q1.pref = f[a].pref
        /\ q1.op = f[a].op /\ q1.on = f[a].on /\ q1.ws = f[a].ws
    BY SMT, PutAt
  <1> HIDE DEF q1
  <1>3. q2 \in Proc /\ q2.at = label /\ q2.b = f[a].b /\ q2.pref = f[a].pref
        /\ q2.op = f[a].op /\ q2.on = f[a].on /\ q2.ws = f[a].ws
    BY <1>2, PutAns
  <1> HIDE DEF q2
  <1> QED BY <1>1, <1>3 DEF Sets, WsFrom, g

LEMMA SetAtWs ==
    ASSUME NEW f \in [Actors -> Proc], NEW a \in Actors,
           NEW label \in Labels, NEW ws \in BOOLEAN, ws = TRUE => f[a].on \in Sessions
    PROVE  Sets([f EXCEPT ![a].at = label, ![a].ws = ws],
                f, a, label, f[a].b, f[a].pref)
  <1> DEFINE q1 == [f[a] EXCEPT !.at = label]
             q2 == [q1 EXCEPT !.ws = ws]
             g == [f EXCEPT ![a].at = label, ![a].ws = ws]
  <1>1. g \in [Actors -> Proc \cup {q2}] /\ g[a] = q2 /\ \A d \in Actors \ {a} : g[d] = f[d]
    OBVIOUS
  <1> HIDE DEF g
  <1>2. q1 \in Proc /\ q1.at = label /\ q1.b = f[a].b /\ q1.pref = f[a].pref
        /\ q1.op = f[a].op /\ q1.on = f[a].on /\ q1.ws = f[a].ws
    BY SMT, PutAt
  <1> HIDE DEF q1
  <1>3. q2 \in Proc /\ q2.at = label /\ q2.b = f[a].b /\ q2.pref = f[a].pref
        /\ q2.op = f[a].op /\ q2.on = f[a].on /\ q2.ws = ws
    BY SMT, <1>2, PutWs
  <1> HIDE DEF q2
  <1> QED BY <1>1, <1>3 DEF Sets, WsFrom, g

LEMMA SetPrefTodo ==
    ASSUME NEW f \in [Actors -> Proc], NEW a \in Actors,
           NEW pref \in 0 .. MaxBackends, NEW todo \in SUBSET Backends
    PROVE  Sets([f EXCEPT ![a].pref = pref, ![a].todo = todo],
                f, a, f[a].at, f[a].b, pref)
  <1> DEFINE q1 == [f[a] EXCEPT !.pref = pref]
             q2 == [q1 EXCEPT !.todo = todo]
             g == [f EXCEPT ![a].pref = pref, ![a].todo = todo]
  <1>1. g \in [Actors -> Proc \cup {q2}] /\ g[a] = q2 /\ \A d \in Actors \ {a} : g[d] = f[d]
    OBVIOUS
  <1> HIDE DEF g
  <1>2. q1 \in Proc /\ q1.at = f[a].at /\ q1.b = f[a].b /\ q1.pref = pref
        /\ q1.op = f[a].op /\ q1.on = f[a].on /\ q1.ws = f[a].ws
    BY SMT, PutPref
  <1> HIDE DEF q1
  <1>3. q2 \in Proc /\ q2.at = f[a].at /\ q2.b = f[a].b /\ q2.pref = pref
        /\ q2.op = f[a].op /\ q2.on = f[a].on /\ q2.ws = f[a].ws
    BY <1>2, PutTodo
  <1> HIDE DEF q2
  <1> QED BY <1>1, <1>3 DEF Sets, WsFrom, g

LEMMA SetAtBPrefTodo ==
    ASSUME NEW f \in [Actors -> Proc], NEW a \in Actors,
           NEW label \in Labels, NEW b \in 0 .. MaxBackends, NEW pref \in 0 .. MaxBackends, NEW todo \in SUBSET Backends
    PROVE  Sets([f EXCEPT ![a].at = label, ![a].b = b, ![a].pref = pref, ![a].todo = todo],
                f, a, label, b, pref)
  <1> DEFINE q1 == [f[a] EXCEPT !.at = label]
             q2 == [q1 EXCEPT !.b = b]
             q3 == [q2 EXCEPT !.pref = pref]
             q4 == [q3 EXCEPT !.todo = todo]
             g == [f EXCEPT ![a].at = label, ![a].b = b, ![a].pref = pref, ![a].todo = todo]
  <1>1. g \in [Actors -> Proc \cup {q4}] /\ g[a] = q4 /\ \A d \in Actors \ {a} : g[d] = f[d]
    OBVIOUS
  <1> HIDE DEF g
  <1>2. q1 \in Proc /\ q1.at = label /\ q1.b = f[a].b /\ q1.pref = f[a].pref
        /\ q1.op = f[a].op /\ q1.on = f[a].on /\ q1.ws = f[a].ws
    BY SMT, PutAt
  <1> HIDE DEF q1
  <1>3. q2 \in Proc /\ q2.at = label /\ q2.b = b /\ q2.pref = f[a].pref
        /\ q2.op = f[a].op /\ q2.on = f[a].on /\ q2.ws = f[a].ws
    BY SMT, <1>2, PutB
  <1> HIDE DEF q2
  <1>4. q3 \in Proc /\ q3.at = label /\ q3.b = b /\ q3.pref = pref
        /\ q3.op = f[a].op /\ q3.on = f[a].on /\ q3.ws = f[a].ws
    BY SMT, <1>3, PutPref
  <1> HIDE DEF q3
  <1>5. q4 \in Proc /\ q4.at = label /\ q4.b = b /\ q4.pref = pref
        /\ q4.op = f[a].op /\ q4.on = f[a].on /\ q4.ws = f[a].ws
    BY <1>4, PutTodo
  <1> HIDE DEF q4
  <1> QED BY <1>1, <1>5 DEF Sets, WsFrom, g

\* The records that a call or a goroutine begins with.
LEMMA Fresh0 ==
    ASSUME NEW label \in Labels
    PROVE  /\ At(label) \in Proc /\ At(label).at = label /\ At(label).op = "none"
           /\ At(label).on = NoTarget /\ At(label).b = 0 /\ At(label).pref = 0
           /\ NoWs(At(label))
  BY SMT, PoolConstants DEF At, NoWs, Proc, Ops, Answers, NoBackend, NoTarget

Creating(label, op, x, pref, allow) == [At(label) EXCEPT !.op = op, !.on = x, !.pref = pref, !.allow = allow]

UsingOf(label, op, x, pref, todo) == [At(label) EXCEPT !.op = op, !.on = x, !.pref = pref, !.todo = todo]

Again(label, op, x, pref) == [At(label) EXCEPT !.op = op, !.on = x, !.pref = pref]

For(label, b) == [At(label) EXCEPT !.b = b]

LEMMA NewCreate ==
    ASSUME NEW label \in Labels, NEW op \in Ops, NEW x \in Targets,
           NEW pref \in 0 .. MaxBackends, NEW allow \in BOOLEAN
    PROVE  LET r == Creating(label, op, x, pref, allow)
           IN  r \in Proc /\ r.at = label /\ r.op = op /\ r.on = x
               /\ r.b = 0 /\ r.pref = pref /\ NoWs(r)
  <1> DEFINE q0 == At(label)
             q1 == [q0 EXCEPT !.op = op]
             q2 == [q1 EXCEPT !.on = x]
             q3 == [q2 EXCEPT !.pref = pref]
             q4 == [q3 EXCEPT !.allow = allow]
  <1>0. q0 \in Proc /\ q0.at = label /\ q0.op = "none" /\ q0.on = NoTarget /\ q0.b = 0 /\ q0.pref = 0
        /\ q0.ws = FALSE
    BY Fresh0 DEF NoWs
  <1> HIDE DEF q0
  <1>1. q1 \in Proc /\ q1.at = label /\ q1.op = op /\ q1.on = NoTarget /\ q1.b = 0
        /\ q1.pref = 0 /\ q1.ws = FALSE
    BY <1>0, PutOp
  <1> HIDE DEF q1
  <1>2. q2 \in Proc /\ q2.at = label /\ q2.op = op /\ q2.on = x /\ q2.b = 0
        /\ q2.pref = 0 /\ q2.ws = FALSE
    BY <1>1, PutOn
  <1> HIDE DEF q2
  <1>3. q3 \in Proc /\ q3.at = label /\ q3.op = op /\ q3.on = x /\ q3.b = 0
        /\ q3.pref = pref /\ q3.ws = FALSE
    BY <1>2, PutPref
  <1> HIDE DEF q3
  <1>4. q4 \in Proc /\ q4.at = label /\ q4.op = op /\ q4.on = x /\ q4.b = 0
        /\ q4.pref = pref /\ q4.ws = FALSE
    BY <1>3, PutAllow
  <1> HIDE DEF q4
  <1> QED BY <1>4 DEF NoWs, Creating, q0, q1, q2, q3, q4

LEMMA NewUse ==
    ASSUME NEW label \in Labels, NEW op \in Ops, NEW x \in Targets,
           NEW pref \in 0 .. MaxBackends, NEW todo \in SUBSET Backends
    PROVE  LET r == UsingOf(label, op, x, pref, todo)
           IN  r \in Proc /\ r.at = label /\ r.op = op /\ r.on = x
               /\ r.b = 0 /\ r.pref = pref /\ NoWs(r)
  <1> DEFINE q0 == At(label)
             q1 == [q0 EXCEPT !.op = op]
             q2 == [q1 EXCEPT !.on = x]
             q3 == [q2 EXCEPT !.pref = pref]
             q4 == [q3 EXCEPT !.todo = todo]
  <1>0. q0 \in Proc /\ q0.at = label /\ q0.op = "none" /\ q0.on = NoTarget /\ q0.b = 0 /\ q0.pref = 0
        /\ q0.ws = FALSE
    BY Fresh0 DEF NoWs
  <1> HIDE DEF q0
  <1>1. q1 \in Proc /\ q1.at = label /\ q1.op = op /\ q1.on = NoTarget /\ q1.b = 0
        /\ q1.pref = 0 /\ q1.ws = FALSE
    BY <1>0, PutOp
  <1> HIDE DEF q1
  <1>2. q2 \in Proc /\ q2.at = label /\ q2.op = op /\ q2.on = x /\ q2.b = 0
        /\ q2.pref = 0 /\ q2.ws = FALSE
    BY <1>1, PutOn
  <1> HIDE DEF q2
  <1>3. q3 \in Proc /\ q3.at = label /\ q3.op = op /\ q3.on = x /\ q3.b = 0
        /\ q3.pref = pref /\ q3.ws = FALSE
    BY <1>2, PutPref
  <1> HIDE DEF q3
  <1>4. q4 \in Proc /\ q4.at = label /\ q4.op = op /\ q4.on = x /\ q4.b = 0
        /\ q4.pref = pref /\ q4.ws = FALSE
    BY <1>3, PutTodo
  <1> HIDE DEF q4
  <1> QED BY <1>4 DEF NoWs, UsingOf, q0, q1, q2, q3, q4

LEMMA NewExisting ==
    ASSUME NEW label \in Labels, NEW op \in Ops, NEW x \in Targets,
           NEW pref \in 0 .. MaxBackends
    PROVE  LET r == Again(label, op, x, pref)
           IN  r \in Proc /\ r.at = label /\ r.op = op /\ r.on = x
               /\ r.b = 0 /\ r.pref = pref /\ NoWs(r)
  <1> DEFINE q0 == At(label)
             q1 == [q0 EXCEPT !.op = op]
             q2 == [q1 EXCEPT !.on = x]
             q3 == [q2 EXCEPT !.pref = pref]
  <1>0. q0 \in Proc /\ q0.at = label /\ q0.op = "none" /\ q0.on = NoTarget /\ q0.b = 0 /\ q0.pref = 0
        /\ q0.ws = FALSE
    BY Fresh0 DEF NoWs
  <1> HIDE DEF q0
  <1>1. q1 \in Proc /\ q1.at = label /\ q1.op = op /\ q1.on = NoTarget /\ q1.b = 0
        /\ q1.pref = 0 /\ q1.ws = FALSE
    BY <1>0, PutOp
  <1> HIDE DEF q1
  <1>2. q2 \in Proc /\ q2.at = label /\ q2.op = op /\ q2.on = x /\ q2.b = 0
        /\ q2.pref = 0 /\ q2.ws = FALSE
    BY <1>1, PutOn
  <1> HIDE DEF q2
  <1>3. q3 \in Proc /\ q3.at = label /\ q3.op = op /\ q3.on = x /\ q3.b = 0
        /\ q3.pref = pref /\ q3.ws = FALSE
    BY <1>2, PutPref
  <1> HIDE DEF q3
  <1> QED BY <1>3 DEF NoWs, Again, q0, q1, q2, q3

LEMMA NewFor ==
    ASSUME NEW label \in Labels, NEW b \in 0 .. MaxBackends
    PROVE  LET r == For(label, b)
           IN  r \in Proc /\ r.at = label /\ r.op = "none" /\ r.on = NoTarget
               /\ r.b = b /\ r.pref = 0 /\ NoWs(r)
  <1> DEFINE q0 == At(label)
             q1 == [q0 EXCEPT !.b = b]
  <1>0. q0 \in Proc /\ q0.at = label /\ q0.op = "none" /\ q0.on = NoTarget /\ q0.b = 0 /\ q0.pref = 0
        /\ q0.ws = FALSE
    BY Fresh0 DEF NoWs
  <1> HIDE DEF q0
  <1>1. q1 \in Proc /\ q1.at = label /\ q1.op = "none" /\ q1.on = NoTarget /\ q1.b = b
        /\ q1.pref = 0 /\ q1.ws = FALSE
    BY <1>0, PutB
  <1> HIDE DEF q1
  <1> QED BY <1>1 DEF NoWs, For, q0, q1

-----------------------------------------------------------------------------
(* What a step does to the actors and the instances, in few words. *)

LEMMA SetsOnly ==
    ASSUME NEW a, NEW label, NEW b, NEW pref, Sets(proc', proc, a, label, b, pref)
    PROVE  /\ Only({a}) /\ proc'[a].at = label /\ proc'[a].b = b /\ proc'[a].pref = pref
           /\ proc'[a].op = proc[a].op /\ proc'[a].on = proc[a].on
           /\ WsFrom(proc'[a], proc[a])
  BY DEF Sets, Only

LEMMA EndOnly ==
    ASSUME Shape, NEW a \in Actors, End(a)
    PROVE  Only({a}) /\ proc'[a] = At("idle") /\ At("idle") \in Proc
           /\ At("idle").at = "idle" /\ At("idle").b = 0 /\ At("idle").pref = 0
  <1>1. At("idle") \in Proc /\ At("idle").at = "idle" /\ At("idle").b = 0 /\ At("idle").pref = 0
    BY SMT, Fresh0 DEF Labels
  <1> HIDE DEF At
  <1> QED BY <1>1, ShapeFacts DEF End, Only

\* A step of one caller keeps Shape when it leaves the caller a caller's record.
LEMMA ClientMoved ==
    ASSUME Shape, Types', nextID' = nextID, NEW c \in Clients, Only({c}),
           proc'[c].b \in 0 .. nextID, proc'[c].pref \in 0 .. nextID, ClientShape(proc'[c])
    PROVE  Shape'
  <1>1. proc' \in [Actors -> Proc] /\ c \in Actors /\ nextID \in Nat /\ nextID' \in Nat
    BY Kinds, ShapeFacts DEF Only
  <1>2. Placed(c, proc'[c], nextID')
    <2> DEFINE r == proc'[c]
    <2>1. r \in Proc /\ r.b <= nextID' /\ r.pref <= nextID' /\ ClientShape(r)
      BY SMT, <1>1
    <2> HIDE DEF r
    <2>2. Placed(c, r, nextID')
      BY <1>1, <2>1, PlacedAs
    <2> QED BY <2>2 DEF r
  <1>3. \A a \in Actors : proc'[a] = proc[a] \/ Placed(a, proc'[a], nextID')
    BY <1>2 DEF Only
  <1> QED BY SMT, <1>1, <1>3, ShapeKept

LEMMA IdleShape == ClientShape(At("idle"))
  <1> DEFINE r == At("idle")
  <1>1. r.at = "idle" /\ NoWs(r)
    BY SMT, Fresh0 DEF Labels
  <1> HIDE DEF r
  <1>2. ClientShape(r)
    BY <1>1 DEF NoWs, ClientShape, HoldLabels, NewLabels, UseLabels
  <1> QED BY <1>2 DEF r

\* A caller ends its call.
LEMMA ClientEnds ==
    ASSUME Shape, Types', nextID' = nextID, NEW c \in Clients, End(c)
    PROVE  Shape'
  <1>1. /\ Only({c}) /\ proc'[c] = At("idle") /\ At("idle").b = 0 /\ At("idle").pref = 0
    BY EndOnly, Kinds
  <1>2. nextID \in Nat
    BY ShapeFacts
  <1> QED BY SMT, <1>1, <1>2, IdleShape, ClientMoved

-----------------------------------------------------------------------------
(* The steps of the calls: each keeps Shape, and is quiet, takes or drops.   *)

LEMMA PreferredTyped ==
    ASSUME Shape, NEW x \in Sessions \cup Turns
    PROVE  PreferredFor(x).b \in 0 .. nextID /\ PreferredFor(x).allow \in BOOLEAN
  BY SMT, PoolConstants, ShapeFacts
     DEF PreferredFor, PreferredForSession, PreferredForTurn, Types, NoBackend, Targets

LEMMA BeginCreateDoes ==
    ASSUME Shape, NEW c \in Clients, NEW x \in Sessions \cup Turns, BeginCreate(c, x)
    PROVE  Shape' /\ Quiet(c) /\ Elsewhere(c)
  <1> DEFINE p == PreferredFor(x).b
             w == PreferredFor(x).allow
             r == Creating("newWork", "create", x, p, w)
  <1>1. /\ proc[c].at = "idle" /\ proc' = [proc EXCEPT ![c] = r]
        /\ UNCHANGED <<policy, closed, starting, instances, routing, world>>
        /\ spent' = [spent EXCEPT !.calls = @ + 1]
    BY DEF BeginCreate, Creating
  <1>2. c \in Actors /\ x \in Targets /\ nextID \in Nat /\ MaxBackends \in Nat /\ nextID <= MaxBackends
    BY Kinds, ShapeFacts DEF Targets
  <1>3. p \in 0 .. nextID /\ w \in BOOLEAN
    BY PreferredTyped
  <1> HIDE DEF p, w
  <1>4. /\ r \in Proc /\ r.at = "newWork" /\ r.op = "create" /\ r.on = x
        /\ r.b = 0 /\ r.pref = p /\ NoWs(r)
    <2>1. "newWork" \in Labels /\ "create" \in Ops /\ p \in 0 .. MaxBackends
      BY SMT, <1>2, <1>3 DEF Labels, Ops
    <2> QED BY SMT, <1>2, <1>3, <2>1, NewCreate
  <1> HIDE DEF r
  <1>5. Only({c}) /\ proc'[c] = r
    BY <1>1, <1>2, <1>4, ShapeFacts DEF Only
  <1>6. Types'
    BY SMT, <1>1, ShapeFacts DEF Types, instances, routing, world
  <1>7. ClientShape(r)
    BY <1>2, <1>4 DEF NoWs, ClientShape, HoldLabels, NewLabels, UseLabels
  <1>8. Shape'
    BY SMT, <1>1, <1>2, <1>3, <1>4, <1>5, <1>6, <1>7, ClientMoved DEF instances
  <1>9. Quiet(c) /\ Elsewhere(c)
    BY <1>1, <1>4, <1>5 DEF Quiet, Elsewhere, HoldLabels, Starting, instances, world, routing
  <1> QED BY <1>8, <1>9

LEMMA BeginUseDoes ==
    ASSUME Shape, NEW c \in Clients, NEW op \in {"get", "update"}, NEW x \in Targets, BeginUse(c, op, x)
    PROVE  Shape' /\ Quiet(c) /\ Elsewhere(c)
  <1> DEFINE l == IF op = "update" /\ route[x] # NoBackend THEN "existing" ELSE "read"
             p == route[x]
             t == IF route[x] = NoBackend THEN Visible ELSE {}
             r == UsingOf(l, op, x, p, t)
  <1>1. /\ proc[c].at = "idle" /\ proc' = [proc EXCEPT ![c] = r]
        /\ UNCHANGED <<policy, closed, starting, instances, routing, world>>
        /\ spent' = [spent EXCEPT !.calls = @ + 1]
    BY DEF BeginUse, UsingOf
  <1>2. c \in Actors /\ nextID \in Nat /\ MaxBackends \in Nat /\ nextID <= MaxBackends
    BY Kinds, ShapeFacts
  <1>3. /\ p \in 0 .. nextID /\ t \in SUBSET Backends /\ l \in {"existing", "read"}
        /\ l = "existing" => op = "update" /\ p # NoBackend
    <2>1. p \in 0 .. nextID
      BY ShapeFacts DEF Types
    <2>2. Visible \in SUBSET Backends
      <3>1. \A b \in 1 .. nextID : b \in Backends
        BY SMT, <1>2 DEF Backends
      <3>2. backends \subseteq 1 .. nextID
        BY ShapeFacts DEF Types
      <3> QED BY <3>1, <3>2 DEF Visible
    <2> QED BY SMT, <2>1, <2>2
  <1> HIDE DEF p, t, l
  <1>4. /\ r \in Proc /\ r.at = l /\ r.op = op /\ r.on = x /\ r.b = 0 /\ r.pref = p
        /\ NoWs(r)
    <2>1. l \in Labels /\ op \in Ops /\ p \in 0 .. MaxBackends
      BY SMT, <1>2, <1>3 DEF Labels, Ops
    <2> QED BY <1>3, <2>1, NewUse
  <1> HIDE DEF r
  <1>5. Only({c}) /\ proc'[c] = r
    BY <1>1, <1>2, <1>4, ShapeFacts DEF Only
  <1>6. Types'
    BY SMT, <1>1, ShapeFacts DEF Types, instances, routing, world
  <1>7. ClientShape(r)
    BY <1>3, <1>4 DEF NoWs, ClientShape, HoldLabels, NewLabels, UseLabels
  <1>8. Shape'
    BY SMT, <1>1, <1>2, <1>3, <1>4, <1>5, <1>6, <1>7, ClientMoved DEF instances
  <1>9. Quiet(c) /\ Elsewhere(c)
    BY <1>1, <1>3, <1>4, <1>5 DEF Quiet, Elsewhere, HoldLabels, Starting, instances, world, routing
  <1> QED BY <1>8, <1>9

LEMMA ClosedToCallerDoes ==
    ASSUME Shape, NEW c \in Clients, ClosedToCaller(c) \/ NothingFound(c)
    PROVE  Shape' /\ Quiet(c) /\ Elsewhere(c)
  <1>1. /\ proc[c].at \in {"newWork", "existing", "owner", "read"} /\ End(c)
        /\ UNCHANGED <<policy, closed, starting, instances, routing, world, spent>>
    BY DEF ClosedToCaller, NothingFound
  <1>2. Only({c}) /\ proc'[c] = At("idle") /\ At("idle").at = "idle"
    BY <1>1, Kinds, EndOnly
  <1>3. Types'
    BY <1>1, ShapeFacts DEF Types, instances, routing, world
  <1>4. Shape'
    BY <1>1, <1>3, ClientEnds DEF instances
  <1>5. Quiet(c) /\ Elsewhere(c)
    BY <1>1, <1>2 DEF Quiet, Elsewhere, HoldLabels, Starting, instances, world, routing
  <1> QED BY <1>4, <1>5

\* A caller that waits for an instance and gets b.
LEMMA TakenShape ==
    ASSUME Shape, NEW c \in Clients, NEW b \in backends, NEW label \in {"fresh", "claim", "call", "reading"},
           NEW pref \in 0 .. nextID,
           active' = [active EXCEPT ![b] = @ + 1],
           UNCHANGED <<policy, closed, nextID, backends, marks, liveTurns, routing, world, spent>>,
           starting' \in Int,
           proc[c].at # "idle", proc[c].at \in {"newWork", "settle"} => label = "fresh",
           proc[c].at = "owner" => label = "claim", proc[c].at = "existing" => label = "call",
           proc[c].at = "read" => label = "reading",
           proc[c].at \in {"newWork", "settle", "owner", "existing", "read"},
           Sets(proc', proc, c, label, b, pref)
    PROVE  Shape' /\ Takes(c) /\ Elsewhere(c)
  <1>1. c \in Actors /\ ClientShape(proc[c]) /\ nextID \in Nat
    BY Kinds, ShapeFacts
  <1>2. b \in 1 .. nextID /\ b \in Backends
    BY SMT, <1>1, ShapeFacts DEF Types, Backends
  <1>3. /\ Only({c}) /\ proc'[c].at = label /\ proc'[c].b = b /\ proc'[c].pref = pref
        /\ proc'[c].op = proc[c].op /\ proc'[c].on = proc[c].on /\ WsFrom(proc'[c], proc[c])
    BY SetsOnly
  <1>4. Types'
    BY SMT, <1>2, ShapeFacts DEF Types, routing, world
  <1>5. ClientShape(proc'[c])
    BY SMT, <1>1, <1>2, <1>3 DEF WsFrom, ClientShape, HoldLabels, NewLabels, UseLabels, NoBackend
  <1>6. Shape'
    BY SMT, <1>1, <1>2, <1>3, <1>4, <1>5, ClientMoved
  <1>7. Takes(c)
    BY <1>1, <1>2, <1>3 DEF Takes, HoldLabels, world, ClientShape
  <1>8. Elsewhere(c)
    BY <1>1, <1>3 DEF Elsewhere, world, routing, ClientShape
  <1> QED BY <1>6, <1>7, <1>8

\* A caller goes on with the same instance, or without one.
LEMMA QuietShape ==
    ASSUME Shape, NEW c \in Clients, NEW label, NEW pref \in 0 .. nextID,
           UNCHANGED <<policy, closed, nextID, backends, marks, active, liveTurns, routing, world, spent>>,
           starting' \in Int,
           Sets(proc', proc, c, label, proc[c].b, pref),
           \/ proc[c].at = "newWork" /\ label \in {"newWork", "start"}
           \/ proc[c].at = "settle" /\ label = "newWork"
           \/ proc[c].at = "fresh" /\ label = "claim" /\ proc[c].on \in Keyed
           \/ proc[c].at = "fresh" /\ label = "call" /\ proc[c].on \notin Keyed
           \/ proc[c].at = "fresh" /\ label = "prepare" /\ proc[c].on \in Sessions \ Keyed
           \/ proc[c].at = "read" /\ label = "read"
    PROVE  Shape' /\ Elsewhere(c)
  <1>1. c \in Actors /\ ClientShape(proc[c]) /\ nextID \in Nat /\ proc[c].b \in 0 .. nextID
    BY Kinds, ShapeFacts
  <1>2. /\ Only({c}) /\ proc'[c].at = label /\ proc'[c].b = proc[c].b /\ proc'[c].pref = pref
        /\ proc'[c].op = proc[c].op /\ proc'[c].on = proc[c].on /\ WsFrom(proc'[c], proc[c])
    BY SetsOnly
  <1>3. Types'
    BY ShapeFacts DEF Types, routing, world
  <1>4. ClientShape(proc'[c])
    BY <1>1, <1>2 DEF WsFrom, ClientShape, HoldLabels, NewLabels, UseLabels
  <1>5. Shape'
    BY <1>1, <1>2, <1>3, <1>4, ClientMoved
  <1>6. Elsewhere(c)
    BY <1>2 DEF Elsewhere, world, routing
  <1> QED BY <1>5, <1>6

LEMMA AcquirePreferredDoes ==
    ASSUME Shape, NEW c \in Clients, AcquirePreferred(c)
    PROVE  /\ Shape' /\ Elsewhere(c) /\ UNCHANGED starting /\ Only({c})
           /\ proc[c].at = "newWork" /\ proc'[c].at \notin Starting
           /\ Quiet(c) \/ Takes(c)
  <1> DEFINE b == proc[c].pref
  <1>1. /\ proc[c].at = "newWork" /\ b # NoBackend
        /\ UNCHANGED <<policy, closed, starting, nextID, backends, marks, liveTurns, routing, world, spent>>
    BY DEF AcquirePreferred
  <1>2. /\ c \in Actors /\ proc \in [Actors -> Proc] /\ starting' \in Int /\ b \in 0 .. MaxBackends
        /\ NoBackend \in 0 .. nextID /\ NoBackend \in 0 .. MaxBackends
    BY SMT, <1>1, Kinds, ShapeFacts DEF Types, NoBackend
  <1>3. CASE AcceptsPreferred(b, proc[c].allow)
    <2>1. /\ active' = [active EXCEPT ![b] = @ + 1]
          /\ proc' = [proc EXCEPT ![c].at = "fresh", ![c].b = b, ![c].pref = NoBackend]
      BY <1>3 DEF AcquirePreferred, Acquire
    <2>2. b \in backends
      BY <1>3 DEF AcceptsPreferred, Accepts, Available
    <2> HIDE DEF b
    <2>3. "fresh" \in Labels
      BY DEF Labels
    <2>4. Sets(proc', proc, c, "fresh", b, NoBackend)
      BY <1>2, <2>1, <2>3, SetAtBPref
    <2>5. Shape' /\ Takes(c) /\ Elsewhere(c)
      BY <1>1, <1>2, <2>1, <2>2, <2>4, TakenShape
    <2>6. Only({c}) /\ proc'[c].at = "fresh"
      BY <2>4, SetsOnly
    <2> QED BY <1>1, <2>5, <2>6 DEF Starting
  <1>4. CASE ~AcceptsPreferred(b, proc[c].allow)
    <2>1. active' = active /\ proc' = [proc EXCEPT ![c].pref = NoBackend]
      BY <1>4 DEF AcquirePreferred
    <2> HIDE DEF b
    <2>2. Sets(proc', proc, c, "newWork", proc[c].b, NoBackend)
      BY <1>1, <1>2, <2>1, SetPref
    <2>3. Shape' /\ Elsewhere(c)
      BY <1>1, <1>2, <2>1, <2>2, QuietShape
    <2>4. Only({c}) /\ proc'[c].at = "newWork"
      BY <2>2, SetsOnly
    <2>5. Quiet(c)
      BY <1>1, <2>1, <2>4 DEF Quiet, HoldLabels, Starting, world
    <2> QED BY <1>1, <2>3, <2>4, <2>5 DEF Starting
  <1> QED BY <1>3, <1>4

LEMMA ScaleOutShape ==
    ASSUME Shape, NEW c \in Clients, NEW b \in backends, NEW a \in ScaleOuts,
           proc[c].at = "newWork", proc[a].at = "idle", CanScaleOut,
           active' = [active EXCEPT ![b] = @ + 1], starting' = starting + 1,
           UNCHANGED <<policy, closed, nextID, backends, marks, liveTurns, routing, world, spent>>,
           NEW held, Sets(held, proc, c, "fresh", b, proc[c].pref),
           Sets(proc', held, a, "start", held[a].b, held[a].pref)
    PROVE  Shape' /\ ScalesOut(c, a) /\ Elsewhere(c)
  <1>1. /\ c \in Actors /\ a \in Actors /\ a # c /\ ClientShape(proc[c]) /\ nextID \in Nat
        /\ proc[a].b \in 0 .. nextID /\ proc[a].pref \in 0 .. nextID /\ proc[c].pref \in 0 .. nextID
    BY Kinds, KindsApart, ShapeFacts
  <1>2. b \in 1 .. nextID /\ b \in Backends
    BY SMT, <1>1, ShapeFacts DEF Types, Backends
  <1>3. /\ Only({c, a}) /\ proc'[c].at = "fresh" /\ proc'[c].b = b /\ proc'[c].pref = proc[c].pref
        /\ proc'[c].op = proc[c].op /\ proc'[c].on = proc[c].on /\ WsFrom(proc'[c], proc[c])
        /\ proc'[a].at = "start" /\ proc'[a].b = proc[a].b /\ proc'[a].pref = proc[a].pref
    BY <1>1 DEF Sets, Only
  <1>4. Types'
    BY SMT, <1>2, ShapeFacts DEF Types, routing, world
  <1>5. ClientShape(proc'[c])
    BY SMT, <1>1, <1>2, <1>3 DEF WsFrom, ClientShape, HoldLabels, NewLabels, UseLabels, NoBackend
  <1>6. /\ proc'[c] \in Proc /\ proc'[c].b <= nextID' /\ proc'[c].pref <= nextID' /\ nextID' \in Nat
        /\ proc'[a] \in Proc /\ proc'[a].b <= nextID' /\ proc'[a].pref <= nextID'
    BY SMT, <1>1, <1>2, <1>3 DEF Only
  <1>7. Placed(c, proc'[c], nextID')
    <2> DEFINE r == proc'[c]
    <2> HIDE DEF r
    <2> QED BY <1>5, <1>6, PlacedAs DEF r
  <1>8. Placed(a, proc'[a], nextID')
    <2> DEFINE r == proc'[a]
    <2>1. r.at = "start"
      BY <1>3
    <2> HIDE DEF r
    <2> QED BY <1>6, <2>1, PlacedAs DEF r
  <1>9. Shape'
    <2>1. \A d \in Actors : proc'[d] = proc[d] \/ Placed(d, proc'[d], nextID')
      BY <1>3, <1>7, <1>8 DEF Only
    <2>2. nextID <= nextID' /\ proc' \in [Actors -> Proc]
      BY SMT, <1>1, <1>3 DEF Only
    <2> QED BY <1>4, <2>1, <2>2, ShapeKept
  <1>10. Takes(c)
    BY <1>1, <1>2, <1>3 DEF Takes, HoldLabels, world, ClientShape
  <1>11. ScalesOut(c, a)
    BY <1>3, <1>10 DEF ScalesOut
  <1>12. Elsewhere(c)
    BY <1>3 DEF Elsewhere, world, routing
  <1> QED BY <1>9, <1>11, <1>12

LEMMA AcquireReadyDoes ==
    ASSUME Shape, NEW c \in Clients, AcquireReady(c)
    PROVE  /\ Shape' /\ Elsewhere(c) /\ Takes(c)
           /\ proc[c].at = "newWork" /\ proc'[c].at = "fresh"
           /\ \/ UNCHANGED starting /\ Only({c})
              \/ \E a \in ScaleOuts : ScalesOut(c, a)
  <1>1. /\ proc[c].at = "newWork"
        /\ UNCHANGED <<policy, closed, nextID, backends, marks, liveTurns, routing, world, spent>>
    BY DEF AcquireReady
  <1>2. PICK b \in Pickable :
            LET held == [proc EXCEPT ![c].at = "fresh", ![c].b = b] IN
            /\ active' = [active EXCEPT ![b] = @ + 1]
            /\ IF active[b] > 0 /\ CanScaleOut
               THEN /\ starting' = starting + 1
                    /\ \E a \in ScaleOuts : proc[a].at = "idle" /\ proc' = [held EXCEPT ![a].at = "start"]
               ELSE /\ proc' = held
                    /\ UNCHANGED starting
    BY DEF AcquireReady, Acquire
  <1>3. b \in backends
    BY DEF Pickable, Accepting
  <1>4. /\ c \in Actors /\ proc \in [Actors -> Proc] /\ proc[c].pref \in 0 .. nextID
        /\ b \in 0 .. MaxBackends /\ "fresh" \in Labels /\ "start" \in Labels /\ starting \in Int
    BY SMT, <1>3, Kinds, ShapeFacts DEF Types, Labels
  <1> DEFINE held == [proc EXCEPT ![c].at = "fresh", ![c].b = b]
  <1>5. Sets(held, proc, c, "fresh", b, proc[c].pref)
    BY <1>4, SetAtB
  <1>6. CASE active[b] > 0 /\ CanScaleOut
    <2>1. /\ starting' = starting + 1 /\ active' = [active EXCEPT ![b] = @ + 1]
          /\ \E a \in ScaleOuts : proc[a].at = "idle" /\ proc' = [held EXCEPT ![a].at = "start"]
      BY <1>2, <1>6
    <2>2. PICK a \in ScaleOuts : proc[a].at = "idle" /\ proc' = [held EXCEPT ![a].at = "start"]
      BY <2>1
    <2> HIDE DEF held
    <2>3. held \in [Actors -> Proc] /\ a \in Actors
      BY <1>5, Kinds DEF Sets
    <2>4. Sets(proc', held, a, "start", held[a].b, held[a].pref)
      BY <1>4, <2>2, <2>3, SetAt
    <2>5. Shape' /\ ScalesOut(c, a) /\ Elsewhere(c)
      BY <1>1, <1>3, <1>5, <1>6, <2>1, <2>2, <2>4, ScaleOutShape
    <2>6. proc'[c].at = "fresh"
      BY <1>4, <1>5, <2>3, <2>4, KindsApart DEF Sets
    <2> QED BY <1>1, <2>5, <2>6 DEF ScalesOut
  <1>7. CASE ~(active[b] > 0 /\ CanScaleOut)
    <2>1. proc' = held /\ UNCHANGED starting /\ active' = [active EXCEPT ![b] = @ + 1]
      BY <1>2, <1>7
    <2> HIDE DEF held
    <2>2. Sets(proc', proc, c, "fresh", b, proc[c].pref)
      BY <1>5, <2>1
    <2>3. Shape' /\ Takes(c) /\ Elsewhere(c)
      BY <1>1, <1>3, <1>4, <2>1, <2>2, TakenShape
    <2>4. Only({c}) /\ proc'[c].at = "fresh"
      BY <2>2, SetsOnly
    <2> QED BY <1>1, <2>1, <2>3, <2>4
  <1> QED BY <1>6, <1>7

LEMMA AcquireStartDoes ==
    ASSUME Shape, NEW c \in Clients, AcquireStart(c)
    PROVE  Shape' /\ Elsewhere(c) /\ (Quiet(c) \/ CallStarts(c))
  <1>1. /\ proc[c].at = "newWork"
        /\ UNCHANGED <<policy, closed, instances, routing, world, spent>>
    BY DEF AcquireStart
  <1>2. /\ c \in Actors /\ proc \in [Actors -> Proc] /\ proc[c].pref \in 0 .. nextID
        /\ starting \in Int /\ "start" \in Labels
    BY Kinds, ShapeFacts DEF Types, Labels
  <1>3. CASE CanScaleOut
    <2>1. starting' = starting + 1 /\ proc' = [proc EXCEPT ![c].at = "start"]
      BY <1>3 DEF AcquireStart, Go
    <2>2. Sets(proc', proc, c, "start", proc[c].b, proc[c].pref)
      BY <1>2, <2>1, SetAt
    <2>3. UNCHANGED <<policy, closed, nextID, backends, marks, active, liveTurns, routing, world, spent>>
          /\ starting' \in Int
      BY SMT, <1>1, <1>2, <2>1 DEF instances
    <2>4. Shape' /\ Elsewhere(c)
      BY <1>1, <1>2, <2>2, <2>3, QuietShape
    <2>5. Only({c}) /\ proc'[c].at = "start"
      BY <2>2, SetsOnly
    <2> QED BY <1>1, <1>3, <2>1, <2>3, <2>4, <2>5 DEF CallStarts, world
  <1>4. CASE ~CanScaleOut
    <2>1. End(c) /\ UNCHANGED starting
      BY <1>4 DEF AcquireStart
    <2>2. Only({c}) /\ proc'[c] = At("idle") /\ At("idle").at = "idle"
      BY <1>2, <2>1, EndOnly
    <2>3. Types'
      BY <1>1, <2>1, ShapeFacts DEF Types, instances, routing, world
    <2>4. Shape'
      BY <1>1, <2>1, <2>3, ClientEnds DEF instances
    <2>5. Quiet(c) /\ Elsewhere(c)
      BY <1>1, <2>1, <2>2 DEF Quiet, Elsewhere, HoldLabels, Starting, instances, world, routing
    <2> QED BY <2>4, <2>5
  <1> QED BY <1>3, <1>4

LEMMA SettleClientDoes ==
    ASSUME Shape, NEW c \in Clients, SettleClient(c)
    PROVE  Shape' /\ Elsewhere(c) /\ CallSettles(c)
  <1> DEFINE new == proc[c].pref
  <1>1. /\ proc[c].at = "settle" /\ starting' = starting - 1
        /\ UNCHANGED <<policy, closed, nextID, backends, marks, liveTurns, routing, world, spent>>
    BY DEF SettleClient
  <1>2. /\ c \in Actors /\ proc \in [Actors -> Proc] /\ starting' \in Int /\ new \in 0 .. MaxBackends
        /\ NoBackend \in 0 .. nextID /\ NoBackend \in 0 .. MaxBackends
        /\ "fresh" \in Labels /\ "newWork" \in Labels
    BY SMT, <1>1, Kinds, ShapeFacts DEF Types, NoBackend, Labels
  <1>3. CASE new # NoBackend /\ Accepts(new)
    <2>1. /\ active' = [active EXCEPT ![new] = @ + 1]
          /\ proc' = [proc EXCEPT ![c].at = "fresh", ![c].b = new, ![c].pref = NoBackend]
      BY <1>3 DEF SettleClient, Acquire
    <2>2. new \in backends
      BY <1>3 DEF Accepts, Available
    <2> HIDE DEF new
    <2>3. Sets(proc', proc, c, "fresh", new, NoBackend)
      BY <1>2, <2>1, SetAtBPref
    <2>4. Shape' /\ Takes(c) /\ Elsewhere(c)
      BY <1>1, <1>2, <2>1, <2>2, <2>3, TakenShape
    <2>5. Only({c}) /\ proc'[c].at = "fresh"
      BY <2>3, SetsOnly
    <2> QED BY <1>1, <2>4, <2>5 DEF CallSettles, Starting, world
  <1>4. CASE new # NoBackend /\ ~Accepts(new)
    <2>1. active' = active /\ proc' = [proc EXCEPT ![c].at = "newWork", ![c].pref = NoBackend]
      BY <1>4 DEF SettleClient
    <2>2. Sets(proc', proc, c, "newWork", proc[c].b, NoBackend)
      BY <1>2, <2>1, SetAtPref
    <2>3. Shape' /\ Elsewhere(c)
      BY <1>1, <1>2, <2>1, <2>2, QuietShape
    <2>4. Only({c}) /\ proc'[c].at = "newWork"
      BY <2>2, SetsOnly
    <2> QED BY <1>1, <2>1, <2>3, <2>4 DEF CallSettles, Starting, HoldLabels, world
  <1>5. CASE new = NoBackend
    <2>1. End(c) /\ active' = active
      BY <1>5 DEF SettleClient
    <2>2. Only({c}) /\ proc'[c] = At("idle") /\ At("idle").at = "idle"
      BY <1>2, <2>1, EndOnly
    <2>3. Types'
      BY <1>1, <1>2, <2>1, ShapeFacts DEF Types, routing, world
    <2>4. Shape'
      BY <1>1, <2>1, <2>3, ClientEnds
    <2>5. CallSettles(c) /\ Elsewhere(c)
      BY <1>1, <2>1, <2>2 DEF CallSettles, Elsewhere, HoldLabels, Starting, world, routing
    <2> QED BY <2>4, <2>5
  <1> QED BY <1>3, <1>4, <1>5

LEMMA AcquireGivenDoes ==
    ASSUME Shape, NEW c \in Clients, AcquireGiven(c)
    PROVE  /\ Shape' /\ Elsewhere(c) /\ UNCHANGED starting /\ Only({c})
           /\ proc[c].at \notin Starting /\ proc'[c].at \notin Starting
           /\ Quiet(c) \/ Takes(c)
  <1> DEFINE b == proc[c].pref
             label == IF proc[c].at = "owner" THEN "claim" ELSE "call"
  <1>1. /\ proc[c].at \in {"owner", "existing"}
        /\ UNCHANGED <<policy, closed, starting, nextID, backends, marks, liveTurns, routing, world, spent>>
    BY DEF AcquireGiven
  <1>2. /\ c \in Actors /\ proc \in [Actors -> Proc] /\ starting' \in Int /\ b \in 0 .. MaxBackends
        /\ NoBackend \in 0 .. nextID /\ NoBackend \in 0 .. MaxBackends
        /\ label \in Labels /\ label \in {"claim", "call"}
        /\ proc[c].at = "owner" => label = "claim"
        /\ proc[c].at = "existing" => label = "call"
    BY SMT, <1>1, Kinds, ShapeFacts DEF Types, NoBackend, Labels
  <1>3. CASE Available(b, TRUE)
    <2>1. /\ active' = [active EXCEPT ![b] = @ + 1]
          /\ proc' = [proc EXCEPT ![c].at = label, ![c].b = b, ![c].pref = NoBackend]
      BY <1>3 DEF AcquireGiven, Acquire
    <2>2. b \in backends
      BY <1>3 DEF Available
    <2> HIDE DEF b, label
    <2>3. Sets(proc', proc, c, label, b, NoBackend)
      BY <1>2, <2>1, SetAtBPref
    <2>4. Shape' /\ Takes(c) /\ Elsewhere(c)
      BY <1>1, <1>2, <2>1, <2>2, <2>3, TakenShape
    <2>5. Only({c}) /\ proc'[c].at = label
      BY <2>3, SetsOnly
    <2> QED BY <1>1, <1>2, <2>4, <2>5 DEF Starting
  <1>4. CASE ~Available(b, TRUE)
    <2>1. End(c) /\ active' = active
      BY <1>4 DEF AcquireGiven
    <2>2. Only({c}) /\ proc'[c] = At("idle") /\ At("idle").at = "idle"
      BY <1>2, <2>1, EndOnly
    <2>3. Types'
      BY <1>1, <2>1, ShapeFacts DEF Types, routing, world
    <2>4. Shape'
      BY <1>1, <2>1, <2>3, ClientEnds
    <2>5. Quiet(c) /\ Elsewhere(c)
      BY <1>1, <2>1, <2>2 DEF Quiet, Elsewhere, HoldLabels, Starting, world, routing
    <2> QED BY <1>1, <2>2, <2>4, <2>5 DEF Starting
  <1> QED BY <1>3, <1>4

LEMMA ReadDoes ==
    ASSUME Shape, NEW c \in Clients, Read(c)
    PROVE  /\ Shape' /\ Elsewhere(c) /\ UNCHANGED starting /\ Only({c})
           /\ proc[c].at \notin Starting /\ proc'[c].at \notin Starting
           /\ Quiet(c) \/ Takes(c)
  <1>1. /\ proc[c].at = "read"
        /\ UNCHANGED <<policy, closed, starting, nextID, backends, marks, liveTurns, routing, world, spent>>
    BY DEF Read
  <1> DEFINE rest(b) == (IF proc[c].pref # NoBackend THEN Visible ELSE proc[c].todo) \ {b}
  <1>2. PICK b \in IF proc[c].pref # NoBackend THEN {proc[c].pref} ELSE proc[c].todo :
            IF Available(b, TRUE)
            THEN /\ active' = [active EXCEPT ![b] = @ + 1]
                 /\ proc' = [proc EXCEPT ![c].at = "reading", ![c].b = b]
            ELSE /\ proc' = [proc EXCEPT ![c].pref = NoBackend, ![c].todo = rest(b)]
                 /\ UNCHANGED active
    BY DEF Read, Acquire
  <1>3. /\ c \in Actors /\ proc \in [Actors -> Proc] /\ starting' \in Int
        /\ NoBackend \in 0 .. nextID /\ NoBackend \in 0 .. MaxBackends
        /\ proc[c].pref \in 0 .. nextID /\ "reading" \in Labels
    BY SMT, <1>1, Kinds, ShapeFacts DEF Types, NoBackend, Labels
  <1>4. CASE Available(b, TRUE)
    <2>1. /\ active' = [active EXCEPT ![b] = @ + 1]
          /\ proc' = [proc EXCEPT ![c].at = "reading", ![c].b = b]
      BY <1>2, <1>4
    <2>2. b \in backends /\ b \in 0 .. MaxBackends
      BY SMT, <1>4, ShapeFacts DEF Available, Types
    <2>3. Sets(proc', proc, c, "reading", b, proc[c].pref)
      BY <1>3, <2>1, <2>2, SetAtB
    <2>4. Shape' /\ Takes(c) /\ Elsewhere(c)
      BY <1>1, <1>3, <2>1, <2>2, <2>3, TakenShape
    <2>5. Only({c}) /\ proc'[c].at = "reading"
      BY <2>3, SetsOnly
    <2> QED BY <1>1, <2>4, <2>5 DEF Starting
  <1>5. CASE ~Available(b, TRUE)
    <2>1. proc' = [proc EXCEPT ![c].pref = NoBackend, ![c].todo = rest(b)] /\ active' = active
      BY <1>2, <1>5
    <2>2. rest(b) \in SUBSET Backends
      <3>1. proc[c].todo \in SUBSET Backends
        BY <1>3 DEF Proc
      <3>2. \A d \in 1 .. nextID : d \in Backends
        BY SMT, ShapeFacts DEF Backends
      <3>3. Visible \in SUBSET Backends
        BY <3>2, ShapeFacts DEF Types, Visible
      <3> QED BY <3>1, <3>3
    <2> HIDE DEF rest
    <2>3. Sets(proc', proc, c, "read", proc[c].b, NoBackend)
      BY <1>1, <1>3, <2>1, <2>2, SetPrefTodo
    <2>4. Shape' /\ Elsewhere(c)
      BY <1>1, <1>3, <2>1, <2>3, QuietShape
    <2>5. Only({c}) /\ proc'[c].at = "read"
      BY <2>3, SetsOnly
    <2>6. Quiet(c)
      BY <1>1, <2>1, <2>5 DEF Quiet, HoldLabels, Starting, world
    <2> QED BY <1>1, <2>4, <2>5, <2>6 DEF Starting
  <1> QED BY <1>4, <1>5

LEMMA PreparedSets ==
    ASSUME Shape, NEW c \in Clients, NEW f \in Prepared(proc, c)
    PROVE  \E label \in {"prepare", "call"} :
              /\ Sets(f, proc, c, label, proc[c].b, proc[c].pref)
              /\ label = "prepare" => proc[c].on \in Sessions
  <1>1. c \in Actors /\ proc \in [Actors -> Proc] /\ "prepare" \in Labels /\ "call" \in Labels
    BY Kinds, ShapeFacts DEF Labels
  <1>2. PICK ws \in IF proc[c].on \in Sessions THEN BOOLEAN ELSE {FALSE} :
            f = [proc EXCEPT ![c].at = IF ws THEN "prepare" ELSE "call", ![c].ws = ws]
    BY DEF Prepared
  <1>3. CASE ws = TRUE
    <2>1. f = [proc EXCEPT ![c].at = "prepare", ![c].ws = TRUE] /\ proc[c].on \in Sessions
      BY <1>2, <1>3
    <2>2. Sets(f, proc, c, "prepare", proc[c].b, proc[c].pref)
      BY <1>1, <2>1, SetAtWs
    <2> QED BY <2>1, <2>2
  <1>4. CASE ws = FALSE
    <2>1. f = [proc EXCEPT ![c].at = "call", ![c].ws = FALSE]
      BY <1>2, <1>4
    <2>2. Sets(f, proc, c, "call", proc[c].b, proc[c].pref)
      BY <1>1, <2>1, SetAtWs
    <2> QED BY <2>2
  <1>5. ws \in BOOLEAN
    BY <1>2
  <1> QED BY <1>3, <1>4, <1>5

-----------------------------------------------------------------------------
(* The steps that let an instance go. *)

\* The actors after replaceBackend.
LEMMA WithReplacerDoes ==
    ASSUME Shape, NEW f \in [Actors -> Proc], NEW d \in Actors, NEW b \in Backends, d # Replacer(b),
           \A e \in Actors \ {d} : f[e] = proc[e]
    PROVE  LET g == WithReplacer(f, b)
           IN  /\ g \in [Actors -> Proc] /\ g[d] = f[d]
               /\ \A e \in Actors \ {d, Replacer(b)} : g[e] = proc[e]
               /\ \/ g[Replacer(b)] = proc[Replacer(b)]
                  \/ /\ Replaces(b) /\ ~closed /\ g[Replacer(b)].at = "ensure"
                     /\ g[Replacer(b)].b = b /\ g[Replacer(b)].pref = NoBackend
  <1>1. Replacer(b) \in Actors /\ b \in 0 .. MaxBackends /\ "ensure" \in Labels
    BY SMT, Kinds, PoolConstants DEF Backends, Labels
  <1>2. For("ensure", b) \in Proc /\ For("ensure", b).at = "ensure" /\ For("ensure", b).b = b
        /\ For("ensure", b).pref = 0
    BY SMT, <1>1, NewFor
  <1>3. WithReplacer(f, b) = IF Replaces(b) /\ ~closed THEN [f EXCEPT ![Replacer(b)] = For("ensure", b)] ELSE f
    BY DEF WithReplacer, For
  <1>4. CASE Replaces(b) /\ ~closed
    BY <1>1, <1>2, <1>3, <1>4 DEF NoBackend
  <1>5. CASE ~(Replaces(b) /\ ~closed)
    BY <1>1, <1>3, <1>5
  <1> QED BY <1>4, <1>5

\* A refresh, or a probe, and what follows from it.
LEMMA RefreshRetires ==
    ASSUME Shape, NEW f \in [Actors -> Proc], NEW d \in Actors, NEW b \in Backends, d # Replacer(b),
           \A e \in Actors \ {d} : f[e] = proc[e],
           marks' \in {[marks EXCEPT ![b] = m] : m \in Refreshed(b)}, proc' = WithReplacer(f, b)
    PROVE  Retires(b, d) /\ proc'[d] = f[d]
  <1>1. PICK m \in Refreshed(b) : marks' = [marks EXCEPT ![b] = m]
    OBVIOUS
  <1>2. /\ marks \in [Backends -> SUBSET Marks]
        /\ "draining" \in Marks /\ "stale" \in Marks
    BY ShapeFacts DEF Types, Marks
  <1>3. PICK s \in SUBSET {"stale"} : m = Marked(b) \cup s
    BY DEF Refreshed
  <1>4. /\ marks[b] \subseteq m /\ m \subseteq marks[b] \cup {"draining", "stale"}
        /\ Replaces(b) => "draining" \in m
    BY <1>3 DEF Marked
  <1>5. m \in SUBSET Marks
    BY <1>2, <1>4
  <1>6. /\ marks' \in [Backends -> SUBSET Marks] /\ marks'[b] = m
        /\ \A e \in Backends \ {b} : marks'[e] = marks[e]
    BY <1>1, <1>2, <1>5
  <1> HIDE DEF Refreshed
  <1> QED BY SMT, <1>4, <1>6, WithReplacerDoes DEF Retires, Only, Replaces, Is

LEMMA ProbeRetires ==
    ASSUME Shape, NEW f \in [Actors -> Proc], NEW d \in Actors, NEW b \in Backends, d # Replacer(b),
           \A e \in Actors \ {d} : f[e] = proc[e],
           marks' = ProbeMarks(b), proc' = ProbeProc(f, b)
    PROVE  Retires(b, d) /\ proc'[d] = f[d]
  <1>1. /\ marks \in [Backends -> SUBSET Marks] /\ "draining" \in Marks /\ Replacer(b) \in Actors
    BY Kinds, ShapeFacts DEF Types, Marks
  <1>2. CASE policy # "never" /\ Is(b, "sick")
    <2>1. marks' = [marks EXCEPT ![b] = Marked(b)] /\ proc' = WithReplacer(f, b)
      BY <1>2 DEF ProbeMarks, ProbeProc
    <2>2. /\ marks[b] \subseteq Marked(b) /\ Marked(b) \subseteq marks[b] \cup {"draining"}
          /\ Replaces(b) => "draining" \in Marked(b)
      BY DEF Marked
    <2>3. /\ marks' \in [Backends -> SUBSET Marks] /\ marks'[b] = Marked(b)
          /\ \A e \in Backends \ {b} : marks'[e] = marks[e]
      <3>1. Marked(b) \in SUBSET Marks
        BY <1>1, <2>2
      <3> QED BY <1>1, <2>1, <3>1
    <2> QED BY SMT, <2>1, <2>2, <2>3, WithReplacerDoes DEF Retires, Only, Replaces, Is
  <1>3. CASE ~(policy # "never" /\ Is(b, "sick"))
    <2>1. marks' = marks /\ proc' = f
      BY <1>3 DEF ProbeMarks, ProbeProc
    <2> QED BY <1>1, <2>1 DEF Retires, Only
  <1> QED BY <1>2, <1>3

\* A step that retires an instance keeps Shape when it leaves its actor in shape.
LEMMA RetireShape ==
    ASSUME Shape, Types', nextID' = nextID, NEW d \in Actors, NEW b \in Backends, b <= nextID,
           d # Replacer(b), Retires(b, d), Placed(d, proc'[d], nextID)
    PROVE  Shape'
  <1>1. proc' \in [Actors -> Proc] /\ Replacer(b) \in Actors /\ nextID \in Nat /\ nextID' \in Nat
    BY Kinds, ShapeFacts DEF Retires, Only
  <1>2. proc'[Replacer(b)] = proc[Replacer(b)] \/ Placed(Replacer(b), proc'[Replacer(b)], nextID')
    <2> DEFINE r == proc'[Replacer(b)]
    <2>1. CASE r = proc[Replacer(b)]
      BY <2>1
    <2>2. CASE r # proc[Replacer(b)]
      <3>1. r \in Proc /\ r.at = "ensure" /\ r.b = b /\ r.pref = NoBackend
        BY <1>1, <2>2 DEF Retires
      <3> HIDE DEF r
      <3>2. DrainerShape(r, b, ReplacerLabels) /\ r.b <= nextID' /\ r.pref <= nextID'
        BY SMT, <1>1, <3>1 DEF DrainerShape, ReplacerLabels, NoBackend
      <3>3. Placed(Replacer(b), r, nextID')
        BY <1>1, <3>1, <3>2, PlacedAs
      <3> QED BY <3>3 DEF r
    <2> QED BY <2>1, <2>2
  <1>3. \A a \in Actors : proc'[a] = proc[a] \/ Placed(a, proc'[a], nextID')
    BY <1>2 DEF Retires, Only
  <1> QED BY SMT, <1>1, <1>3, ShapeKept

LEMMA DropShape ==
    ASSUME Shape, Types', NEW c \in Clients,
           UNCHANGED <<policy, closed, starting, nextID, backends, closes>>,
           proc[c].at \in HoldLabels, Release(proc[c].b), Retires(proc[c].b, c),
           proc'[c].at \notin HoldLabels, proc'[c].at \notin Starting,
           proc'[c].b \in 0 .. nextID, proc'[c].pref \in 0 .. nextID, ClientShape(proc'[c])
    PROVE  Shape' /\ Drops(c)
  <1> DEFINE b == proc[c].b
             r == proc'[c]
  <1>1. /\ c \in Actors /\ ClientShape(proc[c]) /\ nextID \in Nat /\ b \in 0 .. nextID
        /\ nextID <= MaxBackends /\ MaxBackends \in Nat
    BY Kinds, ShapeFacts
  <1>2. b # 0
    BY <1>1 DEF ClientShape, NoBackend
  <1>3. b \in Backends /\ b <= nextID
    BY SMT, <1>1, <1>2 DEF Backends
  <1>4. c # Replacer(b)
    BY <1>3, DrainersApart
  <1>5. Placed(c, r, nextID)
    <2>1. r \in Proc /\ r.b <= nextID /\ r.pref <= nextID /\ ClientShape(r)
      BY <1>1, Numbers DEF Retires, Only
    <2> HIDE DEF r
    <2> QED BY <1>1, <2>1, PlacedAs
  <1>6. Shape'
    BY <1>1, <1>3, <1>4, <1>5, RetireShape
  <1> QED BY <1>6 DEF Drops

LEMMA ReleaseTyped ==
    ASSUME active \in [Backends -> Nat], NEW b \in Backends, Release(b)
    PROVE  active' \in [Backends -> Nat]
  BY SMT DEF Release

LEMMA FreshDoes ==
    ASSUME Shape, NEW c \in Clients, Fresh(c)
    PROVE  Shape' /\ Elsewhere(c) /\ (Quiet(c) \/ Drops(c))
  <1> DEFINE b == proc[c].b
             again == [proc EXCEPT ![c].at = "newWork", ![c].b = NoBackend]
  <1>1. /\ proc[c].at = "fresh"
        /\ UNCHANGED <<policy, closed, starting, nextID, backends, liveTurns, routing, world, spent>>
        /\ \/ /\ marks' \in {[marks EXCEPT ![b] = m] : m \in Refreshed(b)}
              /\ proc' = WithReplacer(again, b)
              /\ Release(b)
           \/ /\ IF proc[c].on \in Keyed THEN Go(c, "claim") ELSE proc' \in Prepared(proc, c)
              /\ UNCHANGED <<marks, active>>
    BY DEF Fresh
  <1>2. /\ c \in Actors /\ proc \in [Actors -> Proc] /\ starting' \in Int /\ b \in Backends
        /\ NoBackend \in 0 .. nextID /\ NoBackend \in 0 .. MaxBackends /\ c # Replacer(b)
        /\ "newWork" \in Labels /\ "claim" \in Labels /\ ClientShape(proc[c])
        /\ proc[c].b \in 0 .. nextID /\ proc[c].pref \in 0 .. nextID
    BY SMT, <1>1, Held, ShapeFacts DEF Types, NoBackend, Labels, HoldLabels
  <1>3. CASE /\ marks' \in {[marks EXCEPT ![b] = m] : m \in Refreshed(b)}
             /\ proc' = WithReplacer(again, b)
             /\ Release(b)
    <2>1. Sets(again, proc, c, "newWork", NoBackend, proc[c].pref)
      BY <1>2, SetAtB
    <2> HIDE DEF again
    <2>2. again \in [Actors -> Proc] /\ \A e \in Actors \ {c} : again[e] = proc[e]
      BY <2>1 DEF Sets
    <2> HIDE DEF b
    <2>3. Retires(b, c) /\ proc'[c] = again[c]
      BY <1>2, <1>3, <2>2, RefreshRetires
    <2>4. /\ proc'[c].at = "newWork" /\ proc'[c].b = NoBackend /\ proc'[c].pref = proc[c].pref
          /\ proc'[c].op = proc[c].op /\ proc'[c].on = proc[c].on /\ WsFrom(proc'[c], proc[c])
      BY <2>1, <2>3 DEF Sets
    <2>5. Types'
      <3>1. active' \in [Backends -> Nat] /\ marks' \in [Backends -> SUBSET Marks]
        BY <1>2, <1>3, <2>3, ReleaseTyped, ShapeFacts DEF Types, Retires
      <3> QED BY <1>1, <3>1, ShapeFacts DEF Types, routing, world
    <2>6. ClientShape(proc'[c])
      BY <1>1, <1>2, <2>4 DEF WsFrom, ClientShape, HoldLabels, NewLabels, UseLabels, NoBackend
    <2>7. Shape' /\ Drops(c)
      <3>1. proc[c].at \in HoldLabels /\ proc'[c].at \notin HoldLabels /\ proc'[c].at \notin Starting
        BY <1>1, <2>4 DEF HoldLabels, Starting
      <3>2. Release(proc[c].b) /\ Retires(proc[c].b, c)
        BY <1>3, <2>3 DEF b
      <3>3. UNCHANGED <<policy, closed, starting, nextID, backends, closes>>
        BY <1>1 DEF world
      <3> QED BY <1>2, <2>4, <2>5, <2>6, <3>1, <3>2, <3>3, DropShape
    <2>8. Elsewhere(c)
      BY <1>1, <2>4 DEF Elsewhere, world, routing
    <2> QED BY <2>7, <2>8
  <1>4. CASE /\ IF proc[c].on \in Keyed THEN Go(c, "claim") ELSE proc' \in Prepared(proc, c)
             /\ UNCHANGED <<marks, active>>
    <2>1. \E label \in {"claim", "call", "prepare"} :
              /\ Sets(proc', proc, c, label, b, proc[c].pref)
              /\ label = "prepare" => proc[c].on \in Sessions
              /\ label = "claim" <=> proc[c].on \in Keyed
      <3>1. CASE proc[c].on \in Keyed
        <4>1. proc' = [proc EXCEPT ![c].at = "claim"]
          BY <1>4, <3>1 DEF Go
        <4>2. Sets(proc', proc, c, "claim", b, proc[c].pref)
          BY <1>2, <4>1, SetAt
        <4> QED BY <3>1, <4>2
      <3>2. CASE proc[c].on \notin Keyed
        <4>1. proc' \in Prepared(proc, c)
          BY <1>4, <3>2
        <4> QED BY <3>2, <4>1, PreparedSets
      <3> QED BY <3>1, <3>2
    <2>2. PICK label \in {"claim", "call", "prepare"} :
              /\ Sets(proc', proc, c, label, b, proc[c].pref)
              /\ label = "prepare" => proc[c].on \in Sessions
              /\ label = "claim" <=> proc[c].on \in Keyed
      BY <2>1
    <2>3. Shape' /\ Elsewhere(c)
      BY <1>1, <1>2, <1>4, <2>2, QuietShape
    <2>4. Only({c}) /\ proc'[c].at = label /\ proc'[c].b = b
      BY SMT, <2>2, SetsOnly
    <2>5. Quiet(c)
      BY <1>1, <1>4, <2>2, <2>4 DEF Quiet, HoldLabels, Starting, world
    <2> QED BY <2>3, <2>5
  <1> QED BY <1>1, <1>3, <1>4

LEMMA NothingRetired ==
    ASSUME Shape, NEW b \in Backends, NEW d \in Actors, d # Replacer(b), Only({d}), marks' = marks
    PROVE  Retires(b, d)
  BY Kinds, ShapeFacts DEF Retires, Only, Types

LEMMA ClaimDoes ==
    ASSUME Shape, NEW c \in Clients, Claim(c)
    PROVE  Shape' /\ Claims(c) /\ (Quiet(c) \/ Drops(c))
  <1> DEFINE b == proc[c].b
             s == proc[c].on
             o == ClaimOwner(s, b)
  <1>1. /\ proc[c].at = "claim" /\ owner' = [owner EXCEPT ![s] = o]
        /\ UNCHANGED <<policy, closed, starting, nextID, backends, marks, liveTurns, route, recorded, world, spent>>
        /\ \/ /\ o = b
              /\ proc' \in Prepared(proc, c)
              /\ UNCHANGED active
           \/ /\ o # b
              /\ Release(b)
              /\ proc' = [proc EXCEPT ![c].at = "owner", ![c].b = NoBackend, ![c].pref = o]
    BY DEF Claim
  <1>2. /\ c \in Actors /\ proc \in [Actors -> Proc] /\ b \in Backends /\ b \in 1 .. nextID
        /\ NoBackend \in 0 .. nextID /\ NoBackend \in 0 .. MaxBackends /\ c # Replacer(b)
        /\ "owner" \in Labels /\ ClientShape(proc[c]) /\ nextID \in Nat
        /\ proc[c].pref \in 0 .. nextID
    BY SMT, <1>1, Held, ShapeFacts DEF NoBackend, Labels, HoldLabels
  <1>3. s \in Keyed /\ s \in Sessions /\ proc[c].op = "create"
    BY <1>1, <1>2, PoolConstants DEF ClientShape, NewLabels
  <1>4. o \in 1 .. nextID /\ o = IF owner[s] = NoBackend THEN b ELSE owner[s]
    <2>1. owner[s] \in 0 .. nextID
      BY <1>3, ShapeFacts DEF Types
    <2> QED BY SMT, <1>2, <2>1 DEF ClaimOwner, NoBackend
  <1> HIDE DEF o
  <1>5. /\ owner' \in [Keyed -> 0 .. nextID] /\ owner'[s] = o
        /\ \A k \in Keyed \ {s} : owner'[k] = owner[k]
    BY <1>1, <1>2, <1>3, <1>4, ShapeFacts DEF Types
  <1>6. CASE o = b /\ proc' \in Prepared(proc, c) /\ UNCHANGED active
    <2>1. PICK label \in {"prepare", "call"} : Sets(proc', proc, c, label, b, proc[c].pref)
      BY <1>6, PreparedSets
    <2>2. /\ Only({c}) /\ proc'[c].at = label /\ proc'[c].b = b /\ proc'[c].pref = proc[c].pref
          /\ proc'[c].op = proc[c].op /\ proc'[c].on = s /\ WsFrom(proc'[c], proc[c])
      BY <2>1, SetsOnly
    <2>3. Types'
      BY <1>1, <1>5, <1>6, ShapeFacts DEF Types, world
    <2>4. ClientShape(proc'[c])
      BY <1>1, <1>2, <1>3, <2>1, <2>2 DEF WsFrom, ClientShape, HoldLabels, NewLabels, UseLabels, NoBackend
    <2>5. Shape'
      BY SMT, <1>1, <1>2, <2>2, <2>3, <2>4, ClientMoved
    <2>6. Quiet(c)
      BY <1>1, <1>6, <2>1, <2>2 DEF Quiet, HoldLabels, Starting, world
    <2>7. Claims(c)
      BY <1>1, <1>3, <1>4, <1>5, <1>6, <2>2 DEF Claims, world
    <2> QED BY <2>5, <2>6, <2>7
  <1>7. CASE o # b /\ Release(b)
             /\ proc' = [proc EXCEPT ![c].at = "owner", ![c].b = NoBackend, ![c].pref = o]
    <2>0. o \in 0 .. MaxBackends /\ o # NoBackend
      BY SMT, <1>4, ShapeFacts DEF NoBackend
    <2>1. Sets(proc', proc, c, "owner", NoBackend, o)
      BY <1>2, <1>7, <2>0, SetAtBPref
    <2>2. /\ Only({c}) /\ proc'[c].at = "owner" /\ proc'[c].b = NoBackend /\ proc'[c].pref = o
          /\ proc'[c].op = proc[c].op /\ proc'[c].on = s /\ WsFrom(proc'[c], proc[c])
      BY <2>1, SetsOnly
    <2>3. Types'
      <3>1. active' \in [Backends -> Nat]
        BY <1>2, <1>7, ReleaseTyped, ShapeFacts DEF Types
      <3> QED BY <1>1, <1>5, <3>1, ShapeFacts DEF Types, world
    <2>4. ClientShape(proc'[c])
      BY <1>2, <1>3, <2>0, <2>2 DEF WsFrom, ClientShape, HoldLabels, NewLabels, UseLabels, Targets
    <2>5. Retires(b, c)
      BY <1>1, <1>2, <2>2, NothingRetired
    <2>6. Shape' /\ Drops(c)
      <3>1. proc[c].at \in HoldLabels /\ proc'[c].at \notin HoldLabels /\ proc'[c].at \notin Starting
        BY <1>1, <2>2 DEF HoldLabels, Starting
      <3>2. UNCHANGED <<policy, closed, starting, nextID, backends, closes>>
        BY <1>1 DEF world
      <3>3. proc'[c].b \in 0 .. nextID /\ proc'[c].pref \in 0 .. nextID
        BY SMT, <1>2, <1>4, <2>2
      <3> QED BY <1>7, <2>3, <2>4, <2>5, <3>1, <3>2, <3>3, DropShape
    <2>7. Claims(c)
      BY <1>1, <1>3, <1>4, <1>5, <2>2 DEF Claims, world
    <2> QED BY <2>6, <2>7
  <1> QED BY <1>1, <1>6, <1>7

LEMMA PrepareDoes ==
    ASSUME Shape, NEW c \in Clients, Prepare(c)
    PROVE  Shape' /\ ((Quiet(c) /\ Prepares(c)) \/ (Drops(c) /\ Unclaims(c)))
  <1> DEFINE b == proc[c].b
             s == proc[c].on
  <1>1. /\ proc[c].at = "prepare"
        /\ UNCHANGED <<policy, closed, starting, nextID, backends, marks, liveTurns, route, recorded, life, closes>>
        /\ \/ /\ workspaces' = workspaces \cup {<<s, b>>}
              /\ Go(c, "call")
              /\ UNCHANGED <<active, owner, dropped, spent>>
           \/ /\ workspaces' = workspaces \ {<<s, b>>}
              /\ owner' = Unclaimed(s)
              /\ dropped' = dropped \cup ({s} \cap Keyed)
              /\ Release(b)
              /\ End(c)
              /\ spent' = Failed(b)
    BY DEF Prepare
  <1>2. /\ c \in Actors /\ proc \in [Actors -> Proc] /\ b \in Backends /\ b \in 1 .. nextID
        /\ c # Replacer(b) /\ "call" \in Labels /\ ClientShape(proc[c]) /\ nextID \in Nat
        /\ proc[c].pref \in 0 .. nextID
    BY <1>1, Held, ShapeFacts DEF Labels, HoldLabels
  <1>3. s \in Sessions
    BY <1>1, <1>2 DEF ClientShape
  <1>4. CASE /\ workspaces' = workspaces \cup {<<s, b>>}
             /\ Go(c, "call")
             /\ UNCHANGED <<active, owner, dropped, spent>>
    <2>1. Sets(proc', proc, c, "call", b, proc[c].pref)
      BY <1>2, <1>4, SetAt DEF Go
    <2>2. /\ Only({c}) /\ proc'[c].at = "call" /\ proc'[c].b = b /\ proc'[c].pref = proc[c].pref
          /\ proc'[c].op = proc[c].op /\ proc'[c].on = s /\ WsFrom(proc'[c], proc[c])
      BY <2>1, SetsOnly
    <2>3. Types'
      <3>1. workspaces' \subseteq Sessions \X Backends
        BY SMT, <1>2, <1>3, <1>4, ShapeFacts DEF Types
      <3> QED BY <1>1, <1>4, <3>1, ShapeFacts DEF Types
    <2>4. ClientShape(proc'[c])
      BY <1>1, <1>2, <2>2 DEF WsFrom, ClientShape, HoldLabels, NewLabels, UseLabels, NoBackend
    <2>5. Shape'
      BY <1>1, <1>2, <2>2, <2>3, <2>4, Numbers, ClientMoved
    <2>6. Quiet(c) /\ Prepares(c)
      BY <1>1, <1>4, <2>2 DEF Quiet, Prepares, HoldLabels, Starting
    <2> QED BY <2>5, <2>6
  <1>5. CASE /\ workspaces' = workspaces \ {<<s, b>>}
             /\ owner' = Unclaimed(s)
             /\ dropped' = dropped \cup ({s} \cap Keyed)
             /\ Release(b)
             /\ End(c)
             /\ spent' = Failed(b)
    <2>1. Only({c}) /\ proc'[c] = At("idle") /\ At("idle").at = "idle" /\ At("idle").b = 0 /\ At("idle").pref = 0
      BY <1>2, <1>5, EndOnly
    <2>2. /\ owner' \in [Keyed -> 0 .. nextID]
          /\ \A k \in Keyed : owner'[k] = IF k = s THEN NoBackend ELSE owner[k]
      BY SMT, <1>2, <1>5, ShapeFacts DEF Unclaimed, Types, NoBackend
    <2>3. spent' \in [calls : Nat, faults : Nat]
      BY SMT, <1>5, ShapeFacts DEF Failed, Types
    <2>4. Types'
      <3>1. active' \in [Backends -> Nat]
        BY <1>2, <1>5, ReleaseTyped, ShapeFacts DEF Types
      <3>2. workspaces' \subseteq Sessions \X Backends /\ dropped' \subseteq Keyed
        BY <1>5, ShapeFacts DEF Types
      <3> QED BY <1>1, <2>2, <2>3, <3>1, <3>2, ShapeFacts DEF Types
    <2>5. Retires(b, c)
      BY <1>1, <1>2, <2>1, NothingRetired
    <2>6. Shape' /\ Drops(c)
      <3>1. proc[c].at \in HoldLabels /\ proc'[c].at \notin HoldLabels /\ proc'[c].at \notin Starting
        BY <1>1, <2>1 DEF HoldLabels, Starting
      <3>2. proc'[c].b \in 0 .. nextID /\ proc'[c].pref \in 0 .. nextID
        BY SMT, <1>2, <2>1
      <3>3. ClientShape(proc'[c])
        BY <2>1, IdleShape
      <3> QED BY <1>1, <1>5, <2>4, <2>5, <3>1, <3>2, <3>3, DropShape
    <2>7. Unclaims(c)
      BY <1>1, <1>5, <2>1, <2>2 DEF Unclaims
    <2> QED BY <2>6, <2>7
  <1> QED BY <1>1, <1>4, <1>5

LEMMA EffectIs ==
    ASSUME Shape, NEW op \in {"create", "update"}, NEW x \in Targets, NEW b \in Backends
    PROVE  /\ Effect(op, x, b) \in [Targets -> [Backends -> Answers]]
           /\ \A y \in Targets, d \in Backends :
                 Effect(op, x, b)[y][d] # "none" =>
                     \/ life[y][d] # "none"
                     \/ d = b /\ op = "create" /\ (y = x \/ y \in Interactions)
  <1> DEFINE e == Effect(op, x, b)
  <1>1. life \in [Targets -> [Backends -> Answers]]
    BY ShapeFacts DEF Types
  <1>2. CASE op = "update"
    <2>1. e = [y \in Targets |-> [life[y] EXCEPT ![b] = IF y = x /\ life[y][b] # "none" THEN "done" ELSE life[y][b]]]
      BY <1>2 DEF Effect
    <2>2. ASSUME NEW y \in Targets
          PROVE  /\ e[y] \in [Backends -> Answers]
                 /\ \A d \in Backends : e[y][d] # "none" => life[y][d] # "none"
      <3>1. e[y] = [life[y] EXCEPT ![b] = IF y = x /\ life[y][b] # "none" THEN "done" ELSE life[y][b]]
        BY <2>1
      <3>2. life[y] \in [Backends -> Answers]
        BY <1>1
      <3> QED BY <3>1, <3>2 DEF Answers
    <2>3. e \in [Targets -> [Backends -> Answers]]
      BY <2>1, <2>2
    <2> QED BY <2>2, <2>3
  <1>3. CASE op = "create"
    <2> DEFINE v(y) == IF life[y][b] = "none" /\ (y = x \/ (y \in Interactions /\ TurnOf[y] = x))
                       THEN "live" ELSE life[y][b]
    <2>1. e = [y \in Targets |-> [life[y] EXCEPT ![b] = v(y)]]
      BY <1>3 DEF Effect
    <2>2. ASSUME NEW y \in Targets
          PROVE  /\ e[y] \in [Backends -> Answers]
                 /\ \A d \in Backends : e[y][d] # "none" =>
                        life[y][d] # "none" \/ (d = b /\ (y = x \/ y \in Interactions))
      <3>1. e[y] = [life[y] EXCEPT ![b] = v(y)]
        BY <2>1
      <3>2. life[y] \in [Backends -> Answers]
        BY <1>1
      <3>3. v(y) \in Answers /\ (v(y) # "none" => life[y][b] # "none" \/ y = x \/ y \in Interactions)
        BY <3>2 DEF Answers
      <3> HIDE DEF v
      <3> QED BY <3>1, <3>2, <3>3
    <2>3. e \in [Targets -> [Backends -> Answers]]
      BY <2>1, <2>2
    <2> QED BY <1>3, <2>2, <2>3
  <1> QED BY <1>2, <1>3

LEMMA CallReturnsDoes ==
    ASSUME Shape, NEW c \in Clients, CallReturns(c)
    PROVE  Shape' /\ Drops(c) /\ Calls(c)
  <1> DEFINE b == proc[c].b
             x == proc[c].on
             after == Effect(proc[c].op, x, b)
  <1>1. /\ proc[c].at = "call" /\ life' = after /\ Release(b)
        /\ proc' = [proc EXCEPT ![c].at = "record", ![c].ans = after[x][b]]
        /\ UNCHANGED <<policy, closed, starting, nextID, backends, marks, liveTurns, routing,
                       workspaces, dropped, closes, spent>>
    BY DEF CallReturns
  <1>2. /\ c \in Actors /\ proc \in [Actors -> Proc] /\ b \in Backends /\ b \in 1 .. nextID
        /\ c # Replacer(b) /\ "record" \in Labels /\ ClientShape(proc[c]) /\ nextID \in Nat
        /\ proc[c].pref \in 0 .. nextID
    BY <1>1, Held, ShapeFacts DEF Labels, HoldLabels
  <1>3. x \in Targets /\ proc[c].op \in {"create", "update"}
    BY <1>1, <1>2 DEF ClientShape
  <1>4. /\ after \in [Targets -> [Backends -> Answers]]
        /\ \A y \in Targets, d \in Backends :
              after[y][d] # "none" =>
                  \/ life[y][d] # "none"
                  \/ d = b /\ proc[c].op = "create" /\ (y = x \/ y \in Interactions)
    BY SMT, <1>2, <1>3, EffectIs
  <1> HIDE DEF after
  <1>5. after[x][b] \in Answers
    BY <1>2, <1>3, <1>4
  <1>6. Sets(proc', proc, c, "record", b, proc[c].pref)
    BY <1>1, <1>2, <1>5, SetAtAns
  <1>7. /\ Only({c}) /\ proc'[c].at = "record" /\ proc'[c].b = b /\ proc'[c].pref = proc[c].pref
        /\ proc'[c].op = proc[c].op /\ proc'[c].on = x /\ WsFrom(proc'[c], proc[c])
    BY <1>6, SetsOnly
  <1>8. Types'
    <2>1. active' \in [Backends -> Nat]
      BY <1>1, <1>2, ReleaseTyped, ShapeFacts DEF Types
    <2> QED BY <1>1, <1>4, <2>1, ShapeFacts DEF Types, routing
  <1>9. ClientShape(proc'[c])
    BY SMT, <1>2, <1>3, <1>7 DEF WsFrom, ClientShape, HoldLabels, NewLabels, UseLabels, NoBackend
  <1>10. Retires(b, c)
    BY <1>1, <1>2, <1>7, NothingRetired
  <1>11. Shape' /\ Drops(c)
    <2>1. proc[c].at \in HoldLabels /\ proc'[c].at \notin HoldLabels /\ proc'[c].at \notin Starting
      BY <1>1, <1>7 DEF HoldLabels, Starting
    <2>2. proc'[c].b \in 0 .. nextID /\ proc'[c].pref \in 0 .. nextID
      BY SMT, <1>2, <1>7
    <2> QED BY <1>1, <1>8, <1>9, <1>10, <2>1, <2>2, DropShape
  <1>12. Calls(c)
    BY <1>1, <1>4, <1>7 DEF Calls, routing
  <1> QED BY <1>11, <1>12

LEMMA FailedTyped ==
    ASSUME Types, NEW b
    PROVE  Failed(b) \in [calls : Nat, faults : Nat]
  BY SMT DEF Failed, Types

\* A caller ends its call with an error, after which b may be probed.
LEMMA ProbedEnd ==
    ASSUME Shape, Types', NEW c \in Clients, proc[c].at \in HoldLabels, Release(proc[c].b),
           marks' = ProbeMarks(proc[c].b),
           proc' = ProbeProc([proc EXCEPT ![c] = At("idle")], proc[c].b),
           UNCHANGED <<policy, closed, starting, nextID, backends, closes>>
    PROVE  Shape' /\ Drops(c) /\ proc'[c].at = "idle"
  <1> DEFINE b == proc[c].b
             f == [proc EXCEPT ![c] = At("idle")]
  <1>1. /\ c \in Actors /\ proc \in [Actors -> Proc] /\ b \in Backends /\ c # Replacer(b) /\ nextID \in Nat
    BY Held, ShapeFacts
  <1>2. At("idle") \in Proc /\ At("idle").at = "idle" /\ At("idle").b = 0 /\ At("idle").pref = 0
    BY Fresh0 DEF Labels
  <1>3. f \in [Actors -> Proc] /\ f[c] = At("idle") /\ \A e \in Actors \ {c} : f[e] = proc[e]
    BY <1>1, <1>2
  <1> HIDE DEF f
  <1>4. proc' = ProbeProc(f, b)
    BY DEF f
  <1>5. Retires(b, c) /\ proc'[c] = At("idle")
    <2> HIDE DEF b
    <2>1. marks' = ProbeMarks(b)
      BY DEF b
    <2> QED BY <1>1, <1>3, <1>4, <2>1, ProbeRetires
  <1>6. proc'[c].at \notin HoldLabels /\ proc'[c].at \notin Starting
    BY <1>2, <1>5 DEF HoldLabels, Starting
  <1>7. proc'[c].b \in 0 .. nextID /\ proc'[c].pref \in 0 .. nextID /\ ClientShape(proc'[c])
    BY SMT, <1>1, <1>2, <1>5, IdleShape
  <1>8. Shape' /\ Drops(c)
    BY <1>5, <1>6, <1>7, DropShape
  <1> QED BY <1>2, <1>5, <1>8

LEMMA CallFailsDoes ==
    ASSUME Shape, NEW c \in Clients, CallFails(c)
    PROVE  Shape' /\ Drops(c) /\ Calls(c)
  <1> DEFINE b == proc[c].b
             s == proc[c].on
             after == Effect(proc[c].op, s, b)
  <1>1. /\ proc[c].at = "call" /\ life' \in {life} \cup {after} /\ Release(b)
        /\ workspaces' \subseteq workspaces /\ spent' = Failed(b)
        /\ marks' = ProbeMarks(b) /\ proc' = ProbeProc([proc EXCEPT ![c] = At("idle")], b)
        /\ UNCHANGED <<policy, closed, starting, nextID, backends, liveTurns, routing, dropped, closes>>
    BY DEF CallFails
  <1>2. /\ b \in Backends /\ ClientShape(proc[c])
    BY <1>1, Held, ShapeFacts DEF HoldLabels
  <1>3. s \in Targets /\ proc[c].op \in {"create", "update"}
    BY <1>1, <1>2 DEF ClientShape
  <1>4. /\ after \in [Targets -> [Backends -> Answers]]
        /\ \A y \in Targets, d \in Backends :
              after[y][d] # "none" =>
                  \/ life[y][d] # "none"
                  \/ d = b /\ proc[c].op = "create" /\ (y = s \/ y \in Interactions)
    BY SMT, <1>2, <1>3, EffectIs
  <1> HIDE DEF after
  <1>5. marks' \in [Backends -> SUBSET Marks]
    <2>1. marks \in [Backends -> SUBSET Marks] /\ "draining" \in Marks
      BY ShapeFacts DEF Types, Marks
    <2>2. Marked(b) \in SUBSET Marks
      BY <1>2, <2>1 DEF Marked
    <2> QED BY <1>1, <2>1, <2>2 DEF ProbeMarks
  <1>6. Types'
    <2>1. active' \in [Backends -> Nat]
      BY <1>1, <1>2, ReleaseTyped, ShapeFacts DEF Types
    <2>2. life' \in [Targets -> [Backends -> Answers]]
      BY <1>1, <1>4, ShapeFacts DEF Types
    <2>3. spent' \in [calls : Nat, faults : Nat]
      BY <1>1, FailedTyped, ShapeFacts
    <2>4. workspaces' \subseteq Sessions \X Backends
      BY <1>1, ShapeFacts DEF Types
    <2> QED BY <1>1, <1>5, <2>1, <2>2, <2>3, <2>4, ShapeFacts DEF Types, routing
  <1>7. Shape' /\ Drops(c) /\ proc'[c].at = "idle"
    BY <1>1, <1>6, ProbedEnd DEF HoldLabels
  <1>8. Calls(c)
    BY <1>1, <1>4, <1>7 DEF Calls, routing
  <1> QED BY <1>7, <1>8

-----------------------------------------------------------------------------
(* The steps that record what a call has learned. *)

LEMMA RecordedIs ==
    ASSUME Shape, NEW x \in Targets, NEW b \in 1 .. nextID, NEW ans
    PROVE  /\ Recorded(x, b, ans) \in [Targets -> 0 .. nextID]
           /\ \A y \in Targets : Recorded(x, b, ans)[y] \in {route[y], NoBackend} \cup backends
           /\ RecordedTurns(x, b, ans) \in [Backends -> SUBSET Turns]
  <1>1. /\ route \in [Targets -> 0 .. nextID] /\ nextID \in Nat /\ NoBackend \in 0 .. nextID
        /\ b \in 0 .. nextID /\ b \in Backends /\ liveTurns \in [Backends -> SUBSET Turns]
    BY SMT, ShapeFacts DEF Types, NoBackend, Backends
  <1>2. Kept(b, ans) \in {b, NoBackend}
    BY DEF Kept
  <1>3. Available(b, TRUE) => b \in backends
    BY DEF Available
  <1>4. RecordedTurns(x, b, ans) \in [Backends -> SUBSET Turns]
    BY <1>1 DEF RecordedTurns
  <1>5. CASE x \in Sessions
    BY <1>1, <1>3, <1>4, <1>5 DEF Recorded, RecordedSession
  <1>6. CASE x \notin Sessions /\ x \in Turns
    <2>1. SessionOf[x] \in Targets
      BY <1>6, PoolConstants DEF Targets
    <2>2. Recorded(x, b, ans) = IF Available(b, TRUE)
                                THEN [route EXCEPT ![x] = Kept(b, ans), ![SessionOf[x]] = b] ELSE route
      BY <1>6 DEF Recorded, RecordedTurn
    <2> QED BY <1>1, <1>2, <1>3, <1>4, <2>1, <2>2
  <1>7. CASE x \notin Sessions /\ x \notin Turns
    <2>1. TurnOf[x] \in Targets /\ SessionOf[TurnOf[x]] \in Targets
      BY <1>7, PoolConstants DEF Targets
    <2>2. Recorded(x, b, ans) = IF Available(b, TRUE)
                                THEN [route EXCEPT ![x] = Kept(b, ans), ![TurnOf[x]] = b,
                                                   ![SessionOf[TurnOf[x]]] = b]
                                ELSE route
      BY <1>7 DEF Recorded, RecordedInteraction
    <2> QED BY <1>1, <1>2, <1>3, <1>4, <2>1, <2>2
  <1> QED BY <1>5, <1>6, <1>7

LEMMA RecordDoes ==
    ASSUME Shape, NEW c \in Clients, Record(c)
    PROVE  Shape' /\ Quiet(c) /\ Elsewhere(c)
  <1> DEFINE b == proc[c].b
             x == proc[c].on
  <1>1. /\ proc[c].at = "record" /\ End(c)
        /\ UNCHANGED <<policy, closed, starting, nextID, backends, marks, active, owner,
                       life, dropped, closes, spent>>
        /\ \/ /\ x \in Sessions
              /\ route' = [route EXCEPT ![x] = NoBackend]
              /\ recorded' = recorded \ {x}
              /\ workspaces' \subseteq workspaces
              /\ UNCHANGED liveTurns
           \/ /\ route' = Recorded(x, b, proc[c].ans)
              /\ liveTurns' = RecordedTurns(x, b, proc[c].ans)
              /\ recorded' = recorded \cup (IF proc[c].ws THEN {x} ELSE {})
              /\ UNCHANGED workspaces
    BY DEF Record
  <1>2. c \in Actors /\ b \in 1 .. nextID /\ ClientShape(proc[c])
    BY <1>1, Held, ShapeFacts
  <1>3. x \in Targets /\ NoBackend \in 0 .. nextID
    BY <1>1, <1>2, Numbers DEF ClientShape
  <1>4. Only({c}) /\ proc'[c] = At("idle") /\ At("idle").at = "idle"
    BY <1>1, <1>2, EndOnly
  <1>5. /\ route' \in [Targets -> 0 .. nextID] /\ liveTurns' \in [Backends -> SUBSET Turns]
        /\ \A y \in Targets : route'[y] \in {route[y], NoBackend} \cup backends
        /\ workspaces' \subseteq workspaces
    <2>1. CASE route' = [route EXCEPT ![x] = NoBackend] /\ UNCHANGED liveTurns /\ workspaces' \subseteq workspaces
      BY <1>3, <2>1, ShapeFacts DEF Types
    <2>2. CASE /\ route' = Recorded(x, b, proc[c].ans) /\ liveTurns' = RecordedTurns(x, b, proc[c].ans)
               /\ UNCHANGED workspaces
      BY <1>2, <1>3, <2>2, RecordedIs
    <2> QED BY <1>1, <2>1, <2>2
  <1>6. recorded' \subseteq Sessions
    <2>1. recorded \subseteq Sessions /\ (proc[c].ws = TRUE => x \in Sessions)
      BY <1>2, ShapeFacts DEF Types, ClientShape
    <2>2. proc[c].ws \in BOOLEAN
      BY <1>2, ShapeFacts DEF Proc
    <2> QED BY <1>1, <2>1, <2>2
  <1>7. Types'
    BY <1>1, <1>5, <1>6, ShapeFacts DEF Types
  <1>8. Shape'
    BY <1>1, <1>7, ClientEnds
  <1>9. Quiet(c) /\ Elsewhere(c)
    BY <1>1, <1>4, <1>5 DEF Quiet, Elsewhere, HoldLabels, Starting
  <1> QED BY <1>8, <1>9

LEMMA FoundDoes ==
    ASSUME Shape, NEW c \in Clients, Found(c)
    PROVE  Shape' /\ Quiet(c) /\ Elsewhere(c)
  <1> DEFINE b == proc[c].b
             x == proc[c].on
             left == Recorded(x, b, proc[c].ans)
  <1>1. /\ proc[c].at = "found" /\ route' = left /\ liveTurns' = RecordedTurns(x, b, proc[c].ans)
        /\ UNCHANGED <<policy, closed, starting, nextID, backends, marks, active, owner, recorded, world, spent>>
        /\ \/ /\ proc[c].op = "update" /\ left[x] # NoBackend
              /\ proc' = [proc EXCEPT ![c] = Again("existing", "update", x, left[x])]
           \/ End(c)
    BY DEF Found, Again
  <1>2. c \in Actors /\ b \in 1 .. nextID /\ ClientShape(proc[c]) /\ proc \in [Actors -> Proc] /\ nextID \in Nat
        /\ MaxBackends \in Nat /\ nextID <= MaxBackends
    BY <1>1, Held, ShapeFacts
  <1>3. x \in Targets
    BY <1>1, <1>2 DEF ClientShape
  <1>4. /\ left \in [Targets -> 0 .. nextID] /\ liveTurns' \in [Backends -> SUBSET Turns]
        /\ \A y \in Targets : left[y] \in {route[y], NoBackend} \cup backends
    BY <1>1, <1>2, <1>3, RecordedIs
  <1> HIDE DEF left
  <1>5. Types'
    BY <1>1, <1>4, ShapeFacts DEF Types, world
  <1>6. CASE /\ proc[c].op = "update" /\ left[x] # NoBackend
             /\ proc' = [proc EXCEPT ![c] = Again("existing", "update", x, left[x])]
    <2> DEFINE p == left[x]
               r == Again("existing", "update", x, p)
    <2>1. p \in 0 .. nextID /\ p \in 0 .. MaxBackends /\ p # NoBackend /\ "existing" \in Labels /\ "update" \in Ops
      BY SMT, <1>2, <1>3, <1>4, <1>6 DEF Labels, Ops
    <2> HIDE DEF p
    <2>2. r \in Proc /\ r.at = "existing" /\ r.op = "update" /\ r.on = x /\ r.b = 0 /\ r.pref = p /\ NoWs(r)
      BY <1>3, <2>1, NewExisting
    <2>3. proc' = [proc EXCEPT ![c] = r]
      BY <1>6 DEF p
    <2> HIDE DEF r
    <2>4. Only({c}) /\ proc'[c] = r
      BY <1>2, <2>2, <2>3 DEF Only
    <2>5. ClientShape(r)
      BY <1>3, <2>1, <2>2 DEF NoWs, ClientShape, HoldLabels, NewLabels, UseLabels
    <2>6. Shape'
      BY <1>1, <1>5, <2>1, <2>2, <2>4, <2>5, Numbers, ClientMoved
    <2>7. Quiet(c) /\ Elsewhere(c)
      BY <1>1, <1>4, <2>2, <2>4 DEF Quiet, Elsewhere, HoldLabels, Starting, world
    <2> QED BY <2>6, <2>7
  <1>7. CASE End(c)
    <2>1. Only({c}) /\ proc'[c] = At("idle") /\ At("idle").at = "idle"
      BY <1>2, <1>7, EndOnly
    <2>2. Shape'
      BY <1>1, <1>5, <1>7, ClientEnds
    <2>3. Quiet(c) /\ Elsewhere(c)
      BY <1>1, <1>4, <2>1 DEF Quiet, Elsewhere, HoldLabels, Starting, world
    <2> QED BY <2>2, <2>3
  <1> QED BY <1>1, <1>6, <1>7

\* A reader goes on to the next instance, after which b may be probed.
LEMMA ReadOn ==
    ASSUME Shape, Types', NEW c \in Clients, proc[c].at = "reading", Release(proc[c].b),
           NEW f, Sets(f, proc, c, "read", NoBackend, NoBackend),
           \/ marks' = ProbeMarks(proc[c].b) /\ proc' = ProbeProc(f, proc[c].b)
           \/ marks' = marks /\ proc' = f,
           UNCHANGED <<policy, closed, starting, nextID, backends, closes>>
    PROVE  Shape' /\ Drops(c) /\ proc'[c].at = "read"
  <1> DEFINE b == proc[c].b
  <1>1. /\ c \in Actors /\ proc \in [Actors -> Proc] /\ b \in Backends /\ c # Replacer(b) /\ nextID \in Nat
        /\ ClientShape(proc[c])
    BY Held, ShapeFacts DEF HoldLabels
  <1>2. f \in [Actors -> Proc] /\ \A e \in Actors \ {c} : f[e] = proc[e]
    BY DEF Sets
  <1>3. Retires(b, c) /\ proc'[c] = f[c]
    <2>1. CASE marks' = ProbeMarks(b) /\ proc' = ProbeProc(f, b)
      BY <1>1, <1>2, <2>1, ProbeRetires
    <2>2. CASE marks' = marks /\ proc' = f
      <3>1. Only({c})
        BY <1>2, <2>2 DEF Only
      <3> QED BY <1>1, <2>2, <3>1, NothingRetired
    <2> QED BY <2>1, <2>2
  <1>4. /\ proc'[c].at = "read" /\ proc'[c].b = NoBackend /\ proc'[c].pref = NoBackend
        /\ proc'[c].op = proc[c].op /\ proc'[c].on = proc[c].on /\ WsFrom(proc'[c], proc[c])
    BY <1>3 DEF Sets
  <1>5. ClientShape(proc'[c])
    BY <1>1, <1>4 DEF WsFrom, ClientShape, HoldLabels, NewLabels, UseLabels
  <1>6. /\ proc'[c].at \notin HoldLabels /\ proc'[c].at \notin Starting /\ proc[c].at \in HoldLabels
        /\ proc'[c].b \in 0 .. nextID /\ proc'[c].pref \in 0 .. nextID
    BY <1>1, <1>4, Numbers DEF HoldLabels, Starting
  <1>7. Shape' /\ Drops(c)
    BY <1>3, <1>5, <1>6, DropShape
  <1> QED BY <1>4, <1>7

LEMMA ReadingDoes ==
    ASSUME Shape, NEW c \in Clients, Reading(c)
    PROVE  Shape' /\ Drops(c) /\ Elsewhere(c)
  <1> DEFINE x == proc[c].on
             b == proc[c].b
             first == proc[c].pref # NoBackend
             todo == (IF first THEN Visible ELSE proc[c].todo) \ {b}
             next == [proc EXCEPT ![c].at = "read", ![c].b = NoBackend, ![c].pref = NoBackend, ![c].todo = todo]
             found == [proc EXCEPT ![c].at = "found", ![c].ans = life[x][b]]
             idle == [proc EXCEPT ![c] = At("idle")]
  <1>1. /\ proc[c].at = "reading" /\ Release(b)
        /\ UNCHANGED <<policy, closed, starting, nextID, backends, owner, recorded, world>>
        /\ \/ proc' = found /\ UNCHANGED <<route, liveTurns, marks, spent>>
           \/ /\ route' = IF first THEN [route EXCEPT ![x] = NoBackend] ELSE route
              /\ liveTurns' = IF first /\ x \in Turns
                              THEN [d \in Backends |-> IF d \in backends THEN liveTurns[d] \ {x} ELSE liveTurns[d]]
                              ELSE liveTurns
              /\ proc' = next
              /\ UNCHANGED <<marks, spent>>
           \/ /\ marks' = ProbeMarks(b)
              /\ proc' \in {ProbeProc(next, b), ProbeProc(idle, b)}
              /\ spent' = Failed(b)
              /\ UNCHANGED <<route, liveTurns>>
    BY DEF Reading
  <1>2. /\ c \in Actors /\ b \in 1 .. nextID /\ b \in Backends /\ c # Replacer(b) /\ ClientShape(proc[c])
        /\ proc \in [Actors -> Proc] /\ nextID \in Nat /\ Types
        /\ NoBackend \in 0 .. nextID /\ NoBackend \in 0 .. MaxBackends
        /\ "read" \in Labels /\ "found" \in Labels /\ proc[c].pref \in 0 .. nextID
    <2>1. proc[c].at \in HoldLabels
      BY <1>1 DEF HoldLabels
    <2>2. "read" \in Labels /\ "found" \in Labels
      BY DEF Labels
    <2> QED BY <2>1, <2>2, Held, Numbers, ShapeFacts
  <1>3. x \in Targets /\ proc[c].op \in {"get", "update"}
    BY <1>1, <1>2 DEF ClientShape, UseLabels
  <1>4. todo \in SUBSET Backends
    <2>1. proc[c].todo \in SUBSET Backends
      BY <1>2 DEF Proc
    <2>2. \A d \in 1 .. nextID : d \in Backends
      BY SMT, ShapeFacts DEF Backends
    <2>3. Visible \in SUBSET Backends
      BY <1>2, <2>2 DEF Types, Visible
    <2> QED BY <2>1, <2>3
  <1> HIDE DEF todo
  <1>5. Sets(next, proc, c, "read", NoBackend, NoBackend)
    BY <1>2, <1>4, SetAtBPrefTodo
  <1> HIDE DEF next
  <1>6. active' \in [Backends -> Nat]
    BY <1>1, <1>2, ReleaseTyped DEF Types
  <1>7. UNCHANGED <<policy, closed, starting, nextID, backends, closes>>
    BY <1>1 DEF world
  <1>8. CASE proc' = found /\ UNCHANGED <<route, liveTurns, marks, spent>>
    <2>1. life[x][b] \in Answers
      BY SMT, <1>2, <1>3 DEF Types
    <2>2. Sets(proc', proc, c, "found", b, proc[c].pref)
      BY <1>2, <1>8, <2>1, SetAtAns
    <2> HIDE DEF found
    <2>3. /\ Only({c}) /\ proc'[c].at = "found" /\ proc'[c].b = b /\ proc'[c].pref = proc[c].pref
          /\ proc'[c].op = proc[c].op /\ proc'[c].on = x /\ WsFrom(proc'[c], proc[c])
      BY <2>2, SetsOnly
    <2>4. Types'
      BY <1>1, <1>2, <1>6, <1>8 DEF Types, world
    <2>5. ClientShape(proc'[c])
      BY SMT, <1>2, <1>3, <2>3 DEF WsFrom, ClientShape, HoldLabels, NewLabels, UseLabels, NoBackend
    <2>6. Retires(b, c)
      BY <1>2, <1>8, <2>3, NothingRetired
    <2>7. Shape' /\ Drops(c)
      <3>1. proc[c].at \in HoldLabels /\ proc'[c].at \notin HoldLabels /\ proc'[c].at \notin Starting
        BY <1>1, <2>3 DEF HoldLabels, Starting
      <3>2. proc'[c].b \in 0 .. nextID /\ proc'[c].pref \in 0 .. nextID
        BY SMT, <1>2, <2>3
      <3> QED BY <1>1, <1>7, <2>4, <2>5, <2>6, <3>1, <3>2, DropShape
    <2>8. Elsewhere(c)
      BY <1>1, <1>8, <2>3 DEF Elsewhere, world
    <2> QED BY <2>7, <2>8
  <1>9. CASE /\ route' = IF first THEN [route EXCEPT ![x] = NoBackend] ELSE route
             /\ liveTurns' = IF first /\ x \in Turns
                             THEN [d \in Backends |-> IF d \in backends THEN liveTurns[d] \ {x} ELSE liveTurns[d]]
                             ELSE liveTurns
             /\ proc' = next
             /\ UNCHANGED <<marks, spent>>
    <2>1. /\ route' \in [Targets -> 0 .. nextID]
          /\ \A y \in Targets : route'[y] \in {route[y], NoBackend} \cup backends
      BY <1>2, <1>3, <1>9 DEF Types
    <2>2. liveTurns' \in [Backends -> SUBSET Turns]
      BY <1>2, <1>9 DEF Types
    <2>3. Types'
      BY <1>1, <1>2, <1>6, <1>9, <2>1, <2>2 DEF Types, world
    <2>4. Shape' /\ Drops(c) /\ proc'[c].at = "read"
      BY <1>1, <1>5, <1>7, <1>9, <2>3, ReadOn
    <2>5. Elsewhere(c)
      BY <1>1, <2>1, <2>4 DEF Elsewhere, world
    <2> QED BY <2>4, <2>5
  <1>10. CASE /\ marks' = ProbeMarks(b)
              /\ proc' \in {ProbeProc(next, b), ProbeProc(idle, b)}
              /\ spent' = Failed(b)
              /\ UNCHANGED <<route, liveTurns>>
    <2>1. marks' \in [Backends -> SUBSET Marks]
      <3>1. marks \in [Backends -> SUBSET Marks] /\ "draining" \in Marks
        BY <1>2 DEF Types, Marks
      <3>2. Marked(b) \in SUBSET Marks
        BY <1>2, <3>1 DEF Marked
      <3> QED BY <1>10, <3>1, <3>2 DEF ProbeMarks
    <2>2. spent' \in [calls : Nat, faults : Nat]
      BY <1>2, <1>10, FailedTyped
    <2>3. Types'
      BY <1>1, <1>2, <1>6, <1>10, <2>1, <2>2 DEF Types, world
    <2>4. Shape' /\ Drops(c) /\ proc'[c].at \in {"read", "idle"}
      <3>1. CASE proc' = ProbeProc(next, b)
        BY <1>1, <1>5, <1>7, <1>10, <2>3, <3>1, ReadOn
      <3>2. CASE proc' = ProbeProc(idle, b)
        <4>1. proc[c].at \in HoldLabels
          BY <1>1 DEF HoldLabels
        <4> QED BY <1>1, <1>7, <1>10, <2>3, <3>2, <4>1, ProbedEnd
      <3> QED BY <1>10, <3>1, <3>2
    <2>5. Elsewhere(c)
      BY <1>1, <1>10, <2>4 DEF Elsewhere, world
    <2> QED BY <2>4, <2>5
  <1> QED BY <1>1, <1>8, <1>9, <1>10

-----------------------------------------------------------------------------
(* The starts. *)

LEMMA ActorMoved ==
    ASSUME Shape, Types', nextID <= nextID', NEW a \in Actors, Only({a}), Placed(a, proc'[a], nextID')
    PROVE  Shape'
  <1>1. \A d \in Actors : proc'[d] = proc[d] \/ Placed(d, proc'[d], nextID')
    BY DEF Only
  <1>2. proc' \in [Actors -> Proc]
    BY DEF Only
  <1> QED BY <1>1, <1>2, ShapeKept

LEMMA ActorStays ==
    ASSUME Shape, Types', nextID' = nextID, NEW a \in Actors, Only({a}), Placed(a, proc'[a], nextID')
    PROVE  Shape'
  <1>1. nextID <= nextID'
    BY Numbers
  <1> QED BY <1>1, ActorMoved

LEMMA StartedShape ==
    ASSUME NEW a \in Actors, NEW p \in Proc, NEW r \in Proc, NEW m \in Nat, NEW n \in Nat, m <= n,
           Placed(a, p, m), p.at = "start", r.at = "settle", r.b = p.b, r.op = p.op, r.on = p.on,
           WsFrom(r, p), r.pref <= n, r.todo = p.todo
    PROVE  Placed(a, r, n)
  <1>1. ActorShape(a, p) /\ p.b <= m /\ p.b \in Nat
    BY SMT DEF Placed, Proc
  <1>2. r.b <= n
    BY SMT, <1>1
  <1>3. a \in Clients => ClientShape(r)
    BY <1>1 DEF ActorShape, ClientShape, WsFrom, HoldLabels, NewLabels, UseLabels
  <1>4. a # Closer
    BY <1>1 DEF ActorShape
  <1>5. \A b \in Backends : /\ a = Replacer(b) => DrainerShape(r, b, ReplacerLabels)
                            /\ a = Proactive(b) => DrainerShape(r, b, ProactiveLabels)
                            /\ a = CloserOf(b) => DrainerShape(r, b, CloserLabels)
    BY <1>1 DEF ActorShape, DrainerShape, ReplacerLabels, ProactiveLabels, CloserLabels
  <1>6. ActorShape(a, r)
    BY <1>3, <1>4, <1>5 DEF ActorShape
  <1>7. a = Health => r.todo \subseteq 1 .. n
    <2>1. \A i \in 1 .. m : i \in 1 .. n
      BY SMT
    <2> QED BY <2>1 DEF Placed
  <1> QED BY <1>2, <1>6, <1>7 DEF Placed

LEMMA StartBackendDoes ==
    ASSUME Shape, NEW a \in Actors, StartBackend(a)
    PROVE  Shape' /\ Joins(a)
  <1>1. /\ proc[a].at = "start"
        /\ UNCHANGED <<policy, closed, starting, marks, active, liveTurns, routing, world>>
        /\ \/ /\ ~closed /\ nextID < MaxBackends
              /\ nextID' = nextID + 1 /\ backends' = backends \cup {nextID + 1}
              /\ proc' = [proc EXCEPT ![a].at = "settle", ![a].pref = nextID + 1]
              /\ UNCHANGED spent
           \/ /\ proc' = [proc EXCEPT ![a].at = "settle", ![a].pref = NoBackend]
              /\ spent' = IF closed \/ nextID = MaxBackends THEN spent ELSE [spent EXCEPT !.faults = @ + 1]
              /\ UNCHANGED <<nextID, backends>>
    BY DEF StartBackend
  <1>2. /\ proc \in [Actors -> Proc] /\ "settle" \in Labels /\ nextID \in Nat /\ MaxBackends \in Nat
        /\ nextID <= MaxBackends /\ NoBackend \in 0 .. MaxBackends /\ Types
        /\ Placed(a, proc[a], nextID)
    BY SMT, ShapeFacts DEF Labels, NoBackend, Shape
  <1>3. ASSUME NEW p \in 0 .. nextID', nextID' \in nextID .. MaxBackends, Types',
               proc' = [proc EXCEPT ![a].at = "settle", ![a].pref = p]
        PROVE  Shape' /\ Only({a}) /\ proc'[a].at = "settle" /\ proc'[a].pref = p
    <2>1. p \in 0 .. MaxBackends /\ nextID' \in Nat /\ nextID <= nextID'
      BY SMT, <1>2, <1>3
    <2>2. Sets(proc', proc, a, "settle", proc[a].b, p)
      BY <1>2, <1>3, <2>1, SetAtPref
    <2>3. /\ Only({a}) /\ proc'[a].at = "settle" /\ proc'[a].b = proc[a].b /\ proc'[a].pref = p
          /\ proc'[a].op = proc[a].op /\ proc'[a].on = proc[a].on
          /\ WsFrom(proc'[a], proc[a])
      BY <2>2, SetsOnly
    <2>4. proc'[a] \in Proc /\ proc[a] \in Proc /\ proc'[a].pref <= nextID'
      BY SMT, <1>2, <2>1, <2>3 DEF Only
    <2>6. proc'[a].todo = proc[a].todo
      BY <1>2, <1>3 DEF Proc
    <2>5. Placed(a, proc'[a], nextID')
      <3> DEFINE q == proc[a]
                 r == proc'[a]
      <3> HIDE DEF q, r
      <3>1. /\ q \in Proc /\ r \in Proc /\ Placed(a, q, nextID) /\ q.at = "start" /\ r.at = "settle"
            /\ r.b = q.b /\ r.op = q.op /\ r.on = q.on /\ WsFrom(r, q) /\ r.pref <= nextID'
            /\ r.todo = q.todo
        BY <1>1, <1>2, <2>3, <2>4, <2>6 DEF q, r
      <3>2. Placed(a, r, nextID')
        BY <1>2, <2>1, <3>1, StartedShape
      <3> QED BY <3>2 DEF r
    <2> QED BY <1>3, <2>1, <2>3, <2>5, ActorMoved
  <1>4. CASE /\ ~closed /\ nextID < MaxBackends
             /\ nextID' = nextID + 1 /\ backends' = backends \cup {nextID + 1}
             /\ proc' = [proc EXCEPT ![a].at = "settle", ![a].pref = nextID + 1]
             /\ UNCHANGED spent
    <2>1. nextID + 1 \in 0 .. nextID' /\ nextID' \in nextID .. MaxBackends /\ nextID' \in Nat
      BY SMT, <1>2, <1>4
    <2>2. Types'
      <3>1. backends' \subseteq 1 .. nextID' /\ nextID' \in 0 .. MaxBackends
        BY SMT, <1>2, <1>4, <2>1 DEF Types
      <3>2. route' \in [Targets -> 0 .. nextID'] /\ owner' \in [Keyed -> 0 .. nextID']
        <4>1. \A i \in 0 .. nextID : i \in 0 .. nextID'
          BY SMT, <1>2, <1>4
        <4> QED BY <1>1, <1>2, <4>1 DEF Types, routing
      <3> QED BY <1>1, <1>2, <1>4, <3>1, <3>2 DEF Types, routing, world
    <2>3. Shape' /\ Only({a}) /\ proc'[a].at = "settle" /\ proc'[a].pref = nextID + 1
      BY <1>3, <1>4, <2>1, <2>2
    <2> QED BY <1>1, <1>4, <2>3 DEF Joins, Apart, routing, world
  <1>5. CASE /\ proc' = [proc EXCEPT ![a].at = "settle", ![a].pref = NoBackend]
             /\ spent' = IF closed \/ nextID = MaxBackends THEN spent ELSE [spent EXCEPT !.faults = @ + 1]
             /\ UNCHANGED <<nextID, backends>>
    <2>1. NoBackend \in 0 .. nextID' /\ nextID' \in nextID .. MaxBackends
      BY SMT, <1>2, <1>5 DEF NoBackend
    <2>2. spent' \in [calls : Nat, faults : Nat]
      BY SMT, <1>2, <1>5 DEF Types
    <2>3. Types'
      BY <1>1, <1>2, <1>5, <2>2 DEF Types, routing, world
    <2>4. Shape' /\ Only({a}) /\ proc'[a].at = "settle" /\ proc'[a].pref = NoBackend
      BY <1>3, <1>5, <2>1, <2>3
    <2> QED BY <1>1, <1>5, <2>4 DEF Joins, Apart, routing, world
  <1> QED BY <1>1, <1>4, <1>5

\* The health loop or a replacer moves on.
LEMMA EnsurerShape ==
    ASSUME Shape, Types', nextID' = nextID, NEW a \in {Health} \cup Replacers, NEW label, NEW pref \in 0 .. nextID,
           Sets(proc', proc, a, label, proc[a].b, pref),
           proc'[a].todo = proc[a].todo \/ proc'[a].todo \subseteq 1 .. nextID,
           a = Health => label \in {"idle", "ensure", "start", "check"},
           a # Health => label \in {"ensure", "start", "drain"} /\ proc[a].at # "idle"
    PROVE  Shape'
  <1>1. a \in Actors /\ nextID \in Nat /\ proc[a].b \in 0 .. nextID /\ Placed(a, proc[a], nextID)
    BY Kinds, ShapeFacts DEF Shape
  <1>2. Only({a}) /\ proc'[a].at = label /\ proc'[a].b = proc[a].b /\ proc'[a].pref = pref
    BY DEF Sets, Only
  <1> DEFINE r == proc'[a]
  <1>3. r \in Proc /\ r.b <= nextID' /\ r.pref <= nextID' /\ nextID' \in Nat /\ r.at = label /\ r.b = proc[a].b
    BY <1>1, <1>2, Numbers DEF Only
  <1>4. Placed(a, r, nextID')
    <2> HIDE DEF r
    <2>1. CASE a = Health
      <3>1. r.at \in {"idle", "ensure", "start", "settle", "check"}
        BY <1>3, <2>1
      <3>2. r.todo \subseteq 1 .. nextID'
        BY <1>1, <2>1 DEF Placed, r
      <3> QED BY <1>3, <2>1, <3>1, <3>2, PlacedAs
    <2>2. CASE a # Health
      <3>1. PICK b \in Backends : a = Replacer(b)
        BY <2>2, Kinds
      <3>2. DrainerShape(proc[a], b, ReplacerLabels)
        BY <1>1, <3>1 DEF Placed, ActorShape
      <3>3. DrainerShape(r, b, ReplacerLabels)
        BY <1>3, <2>2, <3>2 DEF DrainerShape, ReplacerLabels
      <3> QED BY <1>3, <3>1, <3>3, PlacedAs
    <2> QED BY <2>1, <2>2
  <1> QED BY <1>1, <1>2, <1>4, ActorStays

LEMMA AfterEnsureIs ==
    ASSUME Shape, NEW a \in {Health} \cup Replacers
    PROVE  /\ a = Health => AfterEnsure(a) \in {"idle", "check"}
           /\ a # Health => AfterEnsure(a) = "drain"
           /\ ToCheck(a) \in SUBSET Backends /\ ToCheck(a) \subseteq 1 .. nextID
  <1>1. \A d \in 1 .. nextID : d \in Backends
    BY SMT, ShapeFacts DEF Backends
  <1>2. ToCheck(a) \in SUBSET Backends /\ ToCheck(a) \subseteq 1 .. nextID
    BY <1>1, ShapeFacts DEF ToCheck, Types
  <1> QED BY <1>2 DEF AfterEnsure

LEMMA SettleEnsureDoes ==
    ASSUME Shape, NEW a \in Actors, SettleEnsure(a)
    PROVE  /\ Shape' /\ Settles(a) /\ UNCHANGED marks
           /\ a \in {Health} \cup Replacers /\ proc'[a].at \in {"idle", "ensure", "check", "drain"}
  <1> DEFINE label == IF proc[a].pref # NoBackend THEN "ensure" ELSE AfterEnsure(a)
             todo == ToCheck(a)
  <1>1. /\ a \in {Health} \cup Replacers /\ proc[a].at = "settle" /\ starting' = starting - 1
        /\ proc' = [proc EXCEPT ![a].at = label, ![a].todo = todo, ![a].pref = NoBackend]
        /\ UNCHANGED <<policy, closed, instances, routing, world, spent>>
    BY DEF SettleEnsure
  <1>2. /\ proc \in [Actors -> Proc] /\ NoBackend \in 0 .. nextID /\ NoBackend \in 0 .. MaxBackends
        /\ Types /\ starting \in Int
    BY SMT, ShapeFacts DEF NoBackend, Types
  <1>3. /\ todo \in SUBSET Backends /\ todo \subseteq 1 .. nextID
        /\ a = Health => label \in {"idle", "ensure", "check"}
        /\ a # Health => label \in {"ensure", "drain"}
    BY <1>1, AfterEnsureIs
  <1> HIDE DEF label, todo
  <1>4. label \in {"idle", "ensure", "check", "drain"} /\ label \in Labels
    BY <1>3 DEF Labels
  <1>5. Sets(proc', proc, a, label, proc[a].b, NoBackend)
    BY <1>1, <1>2, <1>3, <1>4, SetAtTodoPref
  <1>6. Types'
    BY SMT, <1>1, <1>2 DEF Types, instances, routing, world
  <1>7. Shape'
    <2>1. nextID' = nextID
      BY <1>1 DEF instances
    <2>2. proc'[a].todo = todo
      BY <1>1, <1>2 DEF Proc
    <2> QED BY <1>1, <1>2, <1>3, <1>5, <1>6, <2>1, <2>2, EnsurerShape
  <1>8. Only({a}) /\ proc'[a].at = label
    BY <1>5, SetsOnly
  <1>9. Settles(a) /\ UNCHANGED marks
    BY <1>1, <1>4, <1>8 DEF Settles, Apart, Starting, instances, routing, world
  <1> QED BY <1>1, <1>4, <1>7, <1>8, <1>9

LEMMA SettleScaleOutDoes ==
    ASSUME Shape, NEW a \in Actors, SettleScaleOut(a)
    PROVE  /\ Shape' /\ Settles(a) /\ UNCHANGED marks /\ a \in ScaleOuts /\ proc'[a].at = "idle"
  <1>1. /\ a \in ScaleOuts /\ proc[a].at = "settle" /\ starting' = starting - 1 /\ End(a)
        /\ UNCHANGED <<policy, closed, instances, routing, world, spent>>
    BY DEF SettleScaleOut
  <1>2. /\ Only({a}) /\ proc'[a] = At("idle") /\ At("idle") \in Proc
        /\ At("idle").at = "idle" /\ At("idle").b = 0 /\ At("idle").pref = 0
    BY <1>1, EndOnly
  <1>3. Types' /\ nextID \in Nat /\ nextID' = nextID
    <2>1. starting' \in Int
      BY <1>1, Numbers
    <2> QED BY <1>1, <2>1, ShapeFacts DEF Types, instances, routing, world
  <1>4. Placed(a, At("idle"), nextID')
    <2>1. At("idle").b <= nextID' /\ At("idle").pref <= nextID' /\ nextID' \in Nat
      BY <1>2, <1>3, Numbers
    <2> QED BY <1>1, <1>2, <2>1, PlacedAs
  <1>5. Shape'
    BY <1>1, <1>2, <1>3, <1>4, Kinds, ActorStays
  <1>6. Settles(a) /\ UNCHANGED marks
    BY <1>1, <1>2 DEF Settles, Apart, Starting, instances, routing, world
  <1> QED BY <1>1, <1>2, <1>5, <1>6

LEMMA EnsureMinReadyDoes ==
    ASSUME Shape, NEW a \in Actors, EnsureMinReady(a)
    PROVE  Shape' /\ Ensures(a)
  <1> DEFINE label == AfterEnsure(a)
             todo == ToCheck(a)
  <1>1. /\ a \in {Health} \cup Replacers /\ proc[a].at \in {"ensure", "idle"}
        /\ proc[a].at = "idle" => a = Health /\ ~closed
        /\ UNCHANGED <<policy, closed, instances, routing, world, spent>>
        /\ \/ /\ proc' = [proc EXCEPT ![a].at = label, ![a].todo = todo]
              /\ UNCHANGED starting
           \/ /\ proc' = [proc EXCEPT ![a].at = "start"]
              /\ starting' = starting + 1 /\ ~closed /\ ~Enough
    BY DEF EnsureMinReady, Ticks, Go
  <1>2. /\ proc \in [Actors -> Proc] /\ proc[a].pref \in 0 .. nextID /\ Types /\ starting \in Int
        /\ "start" \in Labels
    BY ShapeFacts DEF Types, Labels
  <1>3. /\ todo \in SUBSET Backends /\ todo \subseteq 1 .. nextID
        /\ a = Health => label \in {"idle", "check"}
        /\ a # Health => label = "drain"
    BY <1>1, AfterEnsureIs
  <1> HIDE DEF label, todo
  <1>4. label \in {"idle", "check", "drain"} /\ label \in Labels
    BY <1>3 DEF Labels
  <1>5. Types' /\ nextID' = nextID
    BY SMT, <1>1, <1>2 DEF Types, instances, routing, world
  <1>6. CASE proc' = [proc EXCEPT ![a].at = label, ![a].todo = todo] /\ UNCHANGED starting
    <2>1. Sets(proc', proc, a, label, proc[a].b, proc[a].pref)
      BY <1>2, <1>3, <1>4, <1>6, SetAtTodo
    <2>4. proc'[a].todo = todo
      BY <1>2, <1>6 DEF Proc
    <2>2. Shape'
      BY <1>1, <1>2, <1>3, <1>5, <2>1, <2>4, EnsurerShape
    <2>3. Only({a}) /\ proc'[a].at = label
      BY <2>1, SetsOnly
    <2> QED BY <1>1, <1>4, <1>6, <2>2, <2>3 DEF Ensures, Apart, instances, routing, world
  <1>7. CASE proc' = [proc EXCEPT ![a].at = "start"] /\ starting' = starting + 1 /\ ~closed /\ ~Enough
    <2>1. Sets(proc', proc, a, "start", proc[a].b, proc[a].pref)
      BY <1>2, <1>7, SetAt
    <2>4. proc'[a].todo = proc[a].todo
      BY <1>2, <1>7 DEF Proc
    <2>2. Shape'
      BY <1>1, <1>2, <1>5, <2>1, <2>4, EnsurerShape
    <2>3. Only({a}) /\ proc'[a].at = "start"
      BY <2>1, SetsOnly
    <2> QED BY <1>1, <1>7, <2>2, <2>3 DEF Ensures, Apart, instances, routing, world
  <1> QED BY <1>1, <1>6, <1>7

LEMMA SettleProactiveDoes ==
    ASSUME Shape, NEW b \in Backends, SettleProactive(b)
    PROVE  Shape' /\ ProactiveSettles(b)
  <1> DEFINE a == Proactive(b)
             new == proc[a].pref
             r == IF new # NoBackend THEN For("drain", b) ELSE At("idle")
             m == (marks[b] \ {"replacing"}) \cup (IF new # NoBackend THEN {"draining"} ELSE {})
  <1>1. /\ proc[a].at = "settle" /\ starting' = starting - 1
        /\ marks' = IF ~Available(b, TRUE) THEN marks ELSE [marks EXCEPT ![b] = m]
        /\ proc' = [proc EXCEPT ![a] = r]
        /\ UNCHANGED <<policy, closed, nextID, backends, active, liveTurns, routing, world, spent>>
    BY DEF SettleProactive, For
  <1>2. /\ proc \in [Actors -> Proc] /\ a \in Actors /\ Types /\ nextID \in Nat /\ MaxBackends \in Nat
        /\ starting \in Int /\ marks \in [Backends -> SUBSET Marks] /\ "draining" \in Marks
        /\ b \in 0 .. MaxBackends /\ "drain" \in Labels /\ "idle" \in Labels
        /\ Placed(a, proc[a], nextID)
    <2>1. "draining" \in Marks /\ "drain" \in Labels /\ "idle" \in Labels
      BY DEF Marks, Labels
    <2>2. a \in Actors
      BY ProactiveKind
    <2>3. Types /\ marks \in [Backends -> SUBSET Marks] /\ Placed(a, proc[a], nextID)
      BY <2>2, ShapeFacts DEF Types, Shape
    <2> QED BY <2>1, <2>2, <2>3, Numbers, ShapeFacts
  <1>3. proc[a].b = b /\ b <= nextID
    BY <1>1, <1>2 DEF Placed, ActorShape, DrainerShape
  <1>4. /\ r \in Proc /\ r.at \in {"drain", "idle"}
        /\ r.at = "drain" <=> new # NoBackend
        /\ r.at = "drain" => r.b = b
        /\ r.b <= nextID' /\ r.pref <= nextID' /\ nextID' \in Nat
    <2>1. For("drain", b) \in Proc /\ For("drain", b).at = "drain" /\ For("drain", b).b = b /\ For("drain", b).pref = 0
      BY SMT, <1>2, NewFor
    <2>2. At("idle") \in Proc /\ At("idle").at = "idle" /\ At("idle").b = 0 /\ At("idle").pref = 0
      BY <1>2, Fresh0
    <2>3. nextID' = nextID
      BY <1>1
    <2>4. CASE new # NoBackend
      BY <1>3, <2>1, <2>3, <2>4, Numbers
    <2>5. CASE new = NoBackend
      BY <2>2, <2>3, <2>5, Numbers
    <2> QED BY <2>4, <2>5
  <1>5. /\ marks' \in [Backends -> SUBSET Marks] /\ \A e \in Backends \ {b} : marks'[e] = marks[e]
        /\ marks[b] \ {"replacing"} \subseteq marks'[b] /\ marks'[b] \subseteq marks[b] \cup {"draining"}
        /\ Available(b, TRUE) /\ new # NoBackend => "draining" \in marks'[b]
    <2>1. m \in SUBSET Marks
      BY <1>2
    <2>2. CASE Available(b, TRUE)
      BY <1>1, <1>2, <2>1, <2>2
    <2>3. CASE ~Available(b, TRUE)
      BY <1>1, <1>2, <2>3
    <2> QED BY <2>2, <2>3
  <1> HIDE DEF r, m
  <1>6. Only({a}) /\ proc'[a] = r
    BY <1>1, <1>2, <1>4 DEF Only
  <1>7. Placed(a, r, nextID')
    <2>1. DrainerShape(r, b, ProactiveLabels)
      BY <1>4 DEF DrainerShape, ProactiveLabels
    <2> QED BY <1>4, <2>1, PlacedAs
  <1>8. Types'
    <2>1. /\ UNCHANGED <<policy, closed, nextID, backends, active, liveTurns, routing, world, spent>>
          /\ starting' \in Int
      BY <1>1, Numbers
    <2> QED BY <1>2, <1>5, <2>1 DEF Types, routing, world
  <1>9. Shape'
    BY <1>1, <1>2, <1>6, <1>7, <1>8, ActorStays
  <1>10. Settles(a)
    BY <1>1, <1>4, <1>6 DEF Settles, Apart, Starting, routing, world
  <1>11. r.at = "drain" => ~Available(b, FALSE)'
    <2>1. CASE Available(b, TRUE)
      BY <1>4, <1>5, <2>1 DEF Available, Is
    <2>2. CASE ~Available(b, TRUE)
      BY <1>1, <2>2 DEF Available, Is
    <2> QED BY <2>1, <2>2
  <1> QED BY <1>4, <1>5, <1>6, <1>9, <1>10, <1>11 DEF ProactiveSettles

LEMMA HealthCheckDoes ==
    ASSUME Shape, NEW b \in Backends, HealthCheck(b)
    PROVE  Shape' /\ Checks(b)
  <1> DEFINE todo == proc[Health].todo \ {b}
             label == IF proc[Health].todo = {b} THEN "idle" ELSE "check"
             rest == [proc EXCEPT ![Health].todo = todo, ![Health].at = label]
  <1>1. /\ proc[Health].at = "check" /\ b \in proc[Health].todo
        /\ \/ /\ marks' \in {[marks EXCEPT ![b] = m] : m \in Refreshed(b)}
              /\ proc' = WithReplacer(rest, b)
              /\ UNCHANGED starting
           \/ /\ ~closed /\ StartsProactive(b)
              /\ marks' = [marks EXCEPT ![b] = @ \cup {"replacing"}]
              /\ starting' = starting + 1
              /\ proc' = [rest EXCEPT ![Proactive(b)] = For("start", b)]
           \/ /\ proc' = rest
              /\ UNCHANGED <<marks, starting>>
        /\ UNCHANGED <<policy, closed, nextID, backends, active, liveTurns, routing, world, spent>>
    BY DEF HealthCheck, For
  <1>2. /\ proc \in [Actors -> Proc] /\ Types /\ nextID \in Nat /\ MaxBackends \in Nat
        /\ starting \in Int /\ marks \in [Backends -> SUBSET Marks] /\ "replacing" \in Marks
        /\ b \in 0 .. MaxBackends /\ "start" \in Labels /\ label \in Labels /\ label \in {"idle", "check"}
        /\ Placed(Health, proc[Health], nextID)
        /\ Health \in Actors /\ Health # Replacer(b) /\ Proactive(b) \in Actors /\ Proactive(b) # Health
    <2>1. "replacing" \in Marks /\ "start" \in Labels /\ label \in Labels /\ label \in {"idle", "check"}
      BY DEF Marks, Labels
    <2>2. Health \in Actors
      BY ProactiveKind
    <2>3. Types /\ marks \in [Backends -> SUBSET Marks] /\ Placed(Health, proc[Health], nextID)
      BY <2>2, ShapeFacts DEF Types, Shape
    <2> HIDE DEF label
    <2> QED BY <2>1, <2>2, <2>3, ProactiveKind, Numbers, ShapeFacts
  <1>3. proc[Health].todo \subseteq 1 .. nextID /\ b <= nextID
    BY <1>1, <1>2, Numbers DEF Placed
  <1>4. todo \in SUBSET Backends
    BY <1>2 DEF Proc
  <1>5. rest[Health].todo = todo
    BY <1>2 DEF Proc
  <1>6. Sets(rest, proc, Health, label, proc[Health].b, proc[Health].pref)
    <2> HIDE DEF todo, label
    <2> QED BY <1>2, <1>4, SetTodoAt
  <1>7. /\ rest \in [Actors -> Proc] /\ \A e \in Actors \ {Health} : rest[e] = proc[e]
        /\ rest[Health].at = label
    BY <1>6 DEF Sets
  <1>8. Placed(Health, rest[Health], nextID)
    <2> DEFINE r == rest[Health]
    <2>1. /\ r \in Proc /\ r.b <= nextID /\ r.pref <= nextID /\ r.todo \subseteq 1 .. nextID
          /\ r.at \in {"idle", "check"}
      BY <1>2, <1>3, <1>5, <1>6, <1>7 DEF Sets, Placed
    <2> HIDE DEF r
    <2>2. Placed(Health, r, nextID)
      BY <1>2, <2>1, PlacedAs
    <2> QED BY <2>2 DEF r
  <1> HIDE DEF todo, label, rest
  <1>9. CASE /\ marks' \in {[marks EXCEPT ![b] = m] : m \in Refreshed(b)}
             /\ proc' = WithReplacer(rest, b)
             /\ UNCHANGED starting
    <2>1. Retires(b, Health) /\ proc'[Health] = rest[Health]
      BY <1>2, <1>7, <1>9, RefreshRetires
    <2>2. Types'
      <3>1. marks' \in [Backends -> SUBSET Marks]
        BY <2>1 DEF Retires
      <3> QED BY <1>1, <1>2, <1>9, <3>1 DEF Types, routing, world
    <2>3. Shape'
      BY <1>1, <1>2, <1>3, <1>8, <2>1, <2>2, RetireShape
    <2> QED BY <1>1, <1>2, <1>3, <1>7, <1>9, <2>1, <2>3 DEF Checks, Apart, routing, world
  <1>10. CASE /\ ~closed /\ StartsProactive(b)
              /\ marks' = [marks EXCEPT ![b] = @ \cup {"replacing"}]
              /\ starting' = starting + 1
              /\ proc' = [rest EXCEPT ![Proactive(b)] = For("start", b)]
    <2> DEFINE r == For("start", b)
    <2>1. r \in Proc /\ r.at = "start" /\ r.b = b /\ r.pref = 0
      BY SMT, <1>2, NewFor
    <2> HIDE DEF r
    <2>2. proc' = [rest EXCEPT ![Proactive(b)] = r]
      BY <1>10 DEF r
    <2>3. /\ Only({Health, Proactive(b)}) /\ proc'[Health] = rest[Health] /\ proc'[Proactive(b)] = r
      BY <1>2, <1>7, <2>1, <2>2 DEF Only
    <2>4. Types'
      <3>1. starting' \in Int /\ marks' \in [Backends -> SUBSET Marks]
        BY <1>2, <1>10, Numbers
      <3> QED BY <1>1, <1>2, <3>1 DEF Types, routing, world
    <2>5. Placed(Proactive(b), r, nextID')
      <3>1. DrainerShape(r, b, ProactiveLabels) /\ nextID' = nextID
        BY <1>1, <2>1 DEF DrainerShape, ProactiveLabels
      <3>2. r.b <= nextID' /\ r.pref <= nextID' /\ nextID' \in Nat
        BY <1>3, <2>1, <3>1, Numbers
      <3> QED BY <2>1, <3>1, <3>2, PlacedAs
    <2>6. Shape'
      <3>1. \A d \in Actors : proc'[d] = proc[d] \/ Placed(d, proc'[d], nextID')
        BY <1>1, <1>8, <2>3, <2>5 DEF Only
      <3>2. nextID <= nextID' /\ proc' \in [Actors -> Proc]
        BY <1>1, <2>3, Numbers DEF Only
      <3> QED BY <2>4, <3>1, <3>2, ShapeKept
    <2> QED BY <1>1, <1>2, <1>3, <1>7, <1>10, <2>1, <2>3, <2>6
            DEF Checks, Apart, StartsProactive, NoBackend, routing, world
  <1>11. CASE proc' = rest /\ UNCHANGED <<marks, starting>>
    <2>1. Only({Health})
      BY <1>7, <1>11 DEF Only
    <2>2. Retires(b, Health)
      BY <1>2, <1>11, <2>1, NothingRetired
    <2>3. Types'
      BY <1>1, <1>2, <1>11 DEF Types, routing, world
    <2>4. Shape'
      BY <1>1, <1>2, <1>8, <1>11, <2>1, <2>3, ActorStays
    <2> QED BY <1>1, <1>2, <1>3, <1>7, <1>11, <2>2, <2>4 DEF Checks, Apart, routing, world
  <1> QED BY <1>1, <1>9, <1>10, <1>11

-----------------------------------------------------------------------------
(* The drains, Close and the environment. *)

\* A goroutine of a drain moves on.
LEMMA DrainerMoved ==
    ASSUME Shape, Types', nextID' = nextID, NEW a \in Drainers, Only({a}), proc[a].at # "idle",
           proc'[a].b \in 0 .. nextID, proc'[a].pref \in 0 .. nextID,
           \/ proc'[a].at = "idle"
           \/ proc'[a].at \in {"wait", "provider"} /\ proc'[a].b = proc[a].b
    PROVE  Shape'
  <1>1. a \in Actors /\ nextID \in Nat /\ Placed(a, proc[a], nextID)
    BY Kinds, ShapeFacts DEF Shape
  <1> DEFINE r == proc'[a]
  <1>2. r \in Proc /\ r.b <= nextID' /\ r.pref <= nextID' /\ nextID' \in Nat
    BY <1>1, Numbers DEF Only
  <1>3. PICK b \in Backends : a \in {Replacer(b), Proactive(b), CloserOf(b)}
    BY Kinds
  <1>4. Placed(a, r, nextID')
    <2> HIDE DEF r
    <2>1. CASE a = Replacer(b)
      <3>1. DrainerShape(proc[a], b, ReplacerLabels)
        BY <1>1, <2>1 DEF Placed, ActorShape
      <3>2. DrainerShape(r, b, ReplacerLabels)
        BY <3>1 DEF DrainerShape, ReplacerLabels, r
      <3> QED BY <1>2, <2>1, <3>2, PlacedAs
    <2>2. CASE a = Proactive(b)
      <3>1. DrainerShape(proc[a], b, ProactiveLabels)
        BY <1>1, <2>2 DEF Placed, ActorShape
      <3>2. DrainerShape(r, b, ProactiveLabels)
        BY <3>1 DEF DrainerShape, ProactiveLabels, r
      <3> QED BY <1>2, <2>2, <3>2, PlacedAs
    <2>3. CASE a = CloserOf(b)
      <3>1. DrainerShape(proc[a], b, CloserLabels)
        BY <1>1, <2>3 DEF Placed, ActorShape
      <3>2. DrainerShape(r, b, CloserLabels)
        BY <3>1 DEF DrainerShape, CloserLabels, r
      <3> QED BY <1>2, <2>3, <3>2, PlacedAs
    <2> QED BY <1>3, <2>1, <2>2, <2>3
  <1> QED BY <1>1, <1>4, ActorStays

LEMMA DrainDoes ==
    ASSUME Shape, NEW a \in Actors, Drain(a)
    PROVE  Shape' /\ DrainsFirst(a)
  <1> DEFINE b == proc[a].b
  <1>1. /\ a \in Drainers /\ proc[a].at = "drain"
        /\ UNCHANGED <<policy, closed, starting, nextID, backends, active, liveTurns, routing, world, spent>>
        /\ \/ /\ FirstToClose(b)
              /\ marks' = [marks EXCEPT ![b] = @ \cup {"closing", "draining"}]
              /\ proc' = [proc EXCEPT ![a].at = "wait"]
           \/ ~FirstToClose(b) /\ End(a) /\ marks' = marks
    BY DEF Drain, Go
  <1>2. /\ proc \in [Actors -> Proc] /\ Types /\ nextID \in Nat /\ b \in Backends /\ b \in 0 .. nextID
        /\ proc[a].pref \in 0 .. nextID /\ "wait" \in Labels
        /\ marks \in [Backends -> SUBSET Marks] /\ "closing" \in Marks /\ "draining" \in Marks
    BY <1>1, Draining, ShapeFacts DEF Types, Labels, Marks
  <1>3. CASE /\ FirstToClose(b)
             /\ marks' = [marks EXCEPT ![b] = @ \cup {"closing", "draining"}]
             /\ proc' = [proc EXCEPT ![a].at = "wait"]
    <2>1. Sets(proc', proc, a, "wait", b, proc[a].pref)
      BY <1>2, <1>3, SetAt
    <2>2. Only({a}) /\ proc'[a].at = "wait" /\ proc'[a].b = b /\ proc'[a].pref = proc[a].pref
      BY <2>1 DEF Sets, Only
    <2>3. Types'
      <3>1. marks' \in [Backends -> SUBSET Marks]
        BY <1>2, <1>3
      <3> QED BY <1>1, <1>2, <3>1 DEF Types, routing, world
    <2>4. Shape'
      BY <1>1, <1>2, <2>2, <2>3, DrainerMoved
    <2> QED BY <1>1, <1>3, <2>2, <2>4 DEF DrainsFirst, Apart, routing, world
  <1>4. CASE ~FirstToClose(b) /\ End(a) /\ marks' = marks
    <2>1. Only({a}) /\ proc'[a] = At("idle") /\ At("idle").at = "idle" /\ At("idle").b = 0 /\ At("idle").pref = 0
      BY <1>4, EndOnly
    <2>2. Types'
      BY <1>1, <1>2, <1>4 DEF Types, routing, world
    <2>3. Shape'
      BY <1>1, <2>1, <2>2, Numbers, DrainerMoved
    <2> QED BY <1>1, <1>4, <2>1, <2>3 DEF DrainsFirst, Apart, routing, world
  <1> QED BY <1>1, <1>3, <1>4

LEMMA RemoveDoes ==
    ASSUME Shape, NEW a \in Actors, Remove(a)
    PROVE  Shape' /\ Removes(a)
  <1> DEFINE b == proc[a].b
  <1>1. /\ a \in Drainers /\ proc[a].at = "wait" /\ (Drained(b) \/ Is(b, "late"))
        /\ marks' = [marks EXCEPT ![b] = @ \cup {"closed"}] /\ backends' = backends \ {b}
        /\ route' = [x \in DOMAIN route |-> IF route[x] = b THEN NoBackend ELSE route[x]]
        /\ owner' = [s \in DOMAIN owner |-> IF owner[s] = b THEN NoBackend ELSE owner[s]]
        /\ recorded' \subseteq recorded /\ proc' = [proc EXCEPT ![a].at = "provider"]
        /\ UNCHANGED <<policy, closed, starting, nextID, active, liveTurns, world, spent>>
    BY DEF Remove, Go, ForgetTargets, ForgetKeys, Forget
  <1>2. /\ proc \in [Actors -> Proc] /\ Types /\ nextID \in Nat /\ b \in Backends /\ b \in 0 .. nextID
        /\ proc[a].pref \in 0 .. nextID /\ "provider" \in Labels /\ NoBackend \in 0 .. nextID
        /\ marks \in [Backends -> SUBSET Marks] /\ "closed" \in Marks
    BY <1>1, Draining, Numbers, ShapeFacts DEF Types, Labels, Marks
  <1>3. Sets(proc', proc, a, "provider", b, proc[a].pref)
    BY <1>1, <1>2, SetAt
  <1>4. Only({a}) /\ proc'[a].at = "provider" /\ proc'[a].b = b /\ proc'[a].pref = proc[a].pref
    BY <1>3 DEF Sets, Only
  <1>5. /\ route' \in [Targets -> 0 .. nextID]
        /\ \A x \in Targets : route'[x] = IF route[x] = b THEN NoBackend ELSE route[x]
    BY <1>1, <1>2 DEF Types
  <1>6. /\ owner' \in [Keyed -> 0 .. nextID]
        /\ \A s \in Keyed : owner'[s] = IF owner[s] = b THEN NoBackend ELSE owner[s]
    BY <1>1, <1>2 DEF Types
  <1>7. Types'
    <2>1. marks' \in [Backends -> SUBSET Marks]
      BY <1>1, <1>2
    <2>2. backends' \subseteq 1 .. nextID' /\ recorded' \subseteq Sessions
      BY <1>1, <1>2 DEF Types
    <2> QED BY <1>1, <1>2, <1>5, <1>6, <2>1, <2>2 DEF Types, world
  <1>8. Shape'
    BY <1>1, <1>2, <1>4, <1>7, DrainerMoved
  <1>9. Removes(a)
    BY <1>1, <1>4, <1>5, <1>6 DEF Removes, world
  <1> QED BY <1>8, <1>9

LEMMA AtProvider ==
    ASSUME Shape, NEW a \in Actors, proc[a].at = "provider"
    PROVE  a \in Drainers
  <1>1. ActorShape(a, proc[a])
    BY DEF Shape, Placed
  <1>2. a \notin Clients
    BY <1>1 DEF ActorShape, ClientShape, NewLabels, UseLabels
  <1>3. a # Health /\ a # Closer /\ a \notin ScaleOuts
    BY <1>1 DEF ActorShape
  <1> QED BY <1>2, <1>3, Kinds

LEMMA CloseProviderDoes ==
    ASSUME Shape, NEW a \in Actors, CloseProvider(a)
    PROVE  Shape' /\ Finishes(a)
  <1> DEFINE b == proc[a].b
  <1>1. /\ proc[a].at = "provider" /\ closes' = [closes EXCEPT ![b] = @ + 1] /\ End(a)
        /\ UNCHANGED <<policy, closed, starting, instances, routing, life, workspaces, dropped, spent>>
    BY DEF CloseProvider
  <1>2. a \in Drainers
    BY <1>1, AtProvider
  <1>3. Types /\ nextID \in Nat /\ b \in Backends
    BY <1>1, <1>2, Draining, ShapeFacts
  <1>4. Only({a}) /\ proc'[a] = At("idle") /\ At("idle").at = "idle" /\ At("idle").b = 0 /\ At("idle").pref = 0
    BY <1>1, EndOnly
  <1>5. Types' /\ nextID' = nextID
    <2>1. closes' \in [Backends -> Nat]
      <3>1. closes \in [Backends -> Nat] /\ closes[b] + 1 \in Nat
        BY SMT, <1>3 DEF Types
      <3> QED BY <1>1, <3>1
    <2> QED BY <1>1, <1>3, <2>1 DEF Types, instances, routing
  <1>6. Shape'
    BY <1>1, <1>2, <1>4, <1>5, Numbers, DrainerMoved
  <1> QED BY <1>1, <1>2, <1>4, <1>6 DEF Finishes, Apart, instances, routing

LEMMA CloseDoes ==
    ASSUME Shape, Close
    PROVE  Shape' /\ Closes
  <1> DEFINE the(a) == CHOOSE b \in backends : a = CloserOf(b)
  <1>1. /\ ~closed /\ closed' = TRUE
        /\ marks' = [b \in Backends |-> IF b \in backends THEN marks[b] \cup {"draining"} ELSE marks[b]]
        /\ proc' = [a \in Actors |-> IF a = Closer THEN At("wait")
                                     ELSE IF \E b \in backends : a = CloserOf(b)
                                     THEN For("drain", the(a)) ELSE proc[a]]
        /\ UNCHANGED <<policy, starting, nextID, backends, active, liveTurns, routing, world, spent>>
    BY DEF Close, For
  <1>2. /\ proc \in [Actors -> Proc] /\ Types /\ nextID \in Nat /\ MaxBackends \in Nat /\ nextID <= MaxBackends
        /\ "drain" \in Labels /\ "wait" \in Labels /\ Closer \in Actors /\ "draining" \in Marks
    BY Kinds, ShapeFacts DEF Labels, Marks
  <1>3. /\ At("wait") \in Proc /\ At("wait").at = "wait" /\ At("wait").b = 0 /\ At("wait").pref = 0
    BY <1>2, Fresh0
  <1>4. \A b \in backends : b \in 1 .. nextID /\ b \in Backends
    BY <1>2, Numbers DEF Types
  <1>5. ASSUME NEW b \in backends
        PROVE  /\ CloserOf(b) \in Actors /\ CloserOf(b) # Closer /\ proc'[CloserOf(b)] = For("drain", b)
               /\ For("drain", b) \in Proc /\ For("drain", b).at = "drain" /\ For("drain", b).b = b
               /\ For("drain", b).pref = 0
    <2>1. CloserOf(b) \in Actors /\ CloserOf(b) # Closer
      BY <1>4, Kinds, DrainersApart
    <2>2. the(CloserOf(b)) = b
      BY <1>4, OneEach
    <2>3. proc'[CloserOf(b)] = For("drain", b)
      BY <1>1, <2>1, <2>2
    <2>4. b \in 0 .. MaxBackends
      BY <1>4, Numbers
    <2> QED BY SMT, <1>2, <2>1, <2>3, <2>4, NewFor
  <1>6. proc'[Closer] = At("wait") /\ DOMAIN proc' = Actors
    BY <1>1, <1>2
  <1>7. \A a \in Actors : a # Closer /\ (\A b \in backends : a # CloserOf(b)) => proc'[a] = proc[a]
    BY <1>1
  <1>8. proc' = [a \in Actors |-> proc'[a]]
    BY <1>1
  <1>9. \A a \in Actors : proc'[a] \in Proc
    BY SMT, <1>2, <1>3, <1>5, <1>6, <1>7
  <1>10. proc' \in [Actors -> Proc]
    <2> HIDE DEF the
    <2> QED BY <1>8, <1>9
  <1>11. Types'
    <2>1. marks' \in [Backends -> SUBSET Marks]
      BY <1>1, <1>2 DEF Types
    <2> QED BY <1>1, <1>2, <2>1 DEF Types, routing, world
  <1>12. ASSUME NEW b \in backends
         PROVE  Placed(CloserOf(b), proc'[CloserOf(b)], nextID')
    <2> DEFINE r == For("drain", b)
    <2>1. r \in Proc /\ r.at = "drain" /\ r.b = b /\ r.pref = 0 /\ proc'[CloserOf(b)] = r /\ b \in Backends /\ b \in 1 .. nextID
      BY <1>4, <1>5
    <2> HIDE DEF r
    <2>2. DrainerShape(r, b, CloserLabels) /\ r.b <= nextID' /\ r.pref <= nextID' /\ nextID' \in Nat
      BY <1>1, <2>1, Numbers DEF DrainerShape, CloserLabels
    <2>3. Placed(CloserOf(b), r, nextID')
      BY <2>1, <2>2, PlacedAs
    <2> QED BY <2>1, <2>3
  <1>13. Placed(Closer, proc'[Closer], nextID')
    <2>1. nextID' = nextID
      BY <1>1
    <2>2. At("wait").b <= nextID' /\ At("wait").pref <= nextID' /\ nextID' \in Nat
      BY <1>3, <2>1, Numbers
    <2>3. Placed(Closer, At("wait"), nextID')
      BY <1>3, <2>2, PlacedAs
    <2> QED BY <1>6, <2>3
  <1>14. Shape'
    <2>1. \A a \in Actors : proc'[a] = proc[a] \/ Placed(a, proc'[a], nextID')
      BY <1>7, <1>12, <1>13
    <2>2. nextID <= nextID'
      BY <1>1, Numbers
    <2> QED BY <1>10, <1>11, <2>1, <2>2, ShapeKept
  <1>15. \A b \in backends : proc'[CloserOf(b)].at = "drain" /\ proc'[CloserOf(b)].b = b
    BY <1>5
  <1>16. /\ UNCHANGED <<policy, starting, nextID, backends, active, closes>> /\ Apart /\ ~closed /\ closed' = TRUE
         /\ marks' = [b \in Backends |-> IF b \in backends THEN marks[b] \cup {"draining"} ELSE marks[b]]
    BY <1>1 DEF Apart, routing, world
  <1> QED BY <1>3, <1>6, <1>7, <1>10, <1>14, <1>15, <1>16 DEF Closes

LEMMA CloseReturnsDoes ==
    ASSUME Shape, CloseReturns
    PROVE  Shape' /\ CloseEnds
  <1>1. /\ proc[Closer].at = "wait" /\ (\A a \in WaitedFor : proc[a].at = "idle") /\ backends' = {}
        /\ route' = [x \in Targets |-> NoBackend] /\ owner' = [s \in Keyed |-> NoBackend] /\ recorded' = {}
        /\ proc' = [proc EXCEPT ![Closer].at = "done"]
        /\ UNCHANGED <<policy, closed, starting, nextID, marks, active, liveTurns, world, spent>>
    BY DEF CloseReturns, Go
  <1>2. /\ proc \in [Actors -> Proc] /\ Types /\ nextID \in Nat /\ "done" \in Labels /\ Closer \in Actors
        /\ NoBackend \in 0 .. nextID /\ proc[Closer].b \in 0 .. nextID /\ proc[Closer].pref \in 0 .. nextID
    BY Kinds, Numbers, ShapeFacts DEF Labels
  <1>3. Sets(proc', proc, Closer, "done", proc[Closer].b, proc[Closer].pref)
    BY <1>1, <1>2, SetAt
  <1>4. /\ Only({Closer}) /\ proc'[Closer].at = "done" /\ proc'[Closer].b = proc[Closer].b
        /\ proc'[Closer].pref = proc[Closer].pref
    BY <1>3 DEF Sets, Only
  <1>5. Types'
    BY <1>1, <1>2 DEF Types, world
  <1>6. Placed(Closer, proc'[Closer], nextID')
    <2> DEFINE r == proc'[Closer]
    <2>1. r \in Proc /\ r.at = "done" /\ r.b <= nextID' /\ r.pref <= nextID' /\ nextID' \in Nat
      BY <1>1, <1>2, <1>4, Numbers DEF Only
    <2> HIDE DEF r
    <2>2. Placed(Closer, r, nextID')
      BY <2>1, PlacedAs
    <2> QED BY <2>2 DEF r
  <1>7. Shape'
    BY <1>1, <1>2, <1>4, <1>5, <1>6, ActorStays
  <1> QED BY <1>1, <1>4, <1>7 DEF CloseEnds, world

LEMMA StillShape ==
    ASSUME Shape, Types', nextID' = nextID, proc' = proc
    PROVE  Shape'
  <1>1. nextID <= nextID' /\ proc' \in [Actors -> Proc]
    BY Numbers, ShapeFacts
  <1> QED BY <1>1, ShapeKept

LEMMA MarkingDoes ==
    ASSUME Shape, NEW b \in Backends,
           (\E m \in Faults : Fault(b, m)) \/ DrainTimeout(b)
    PROVE  Shape' /\ Marking(b)
  <1>1. PICK m \in Faults \cup {"late"} : marks' = [marks EXCEPT ![b] = @ \cup {m}]
    BY DEF Fault, DrainTimeout
  <1>2. /\ UNCHANGED <<policy, closed, starting, nextID, backends, active, liveTurns, routing, proc, world>>
        /\ spent' = spent \/ spent' = [spent EXCEPT !.faults = @ + 1]
    BY DEF Fault, DrainTimeout
  <1>3. b \in backends \/ Is(b, "closing")
    BY DEF Fault, DrainTimeout
  <1>4. Types /\ m \in Marks /\ marks \in [Backends -> SUBSET Marks]
    BY ShapeFacts DEF Types, Marks
  <1>5. Types'
    <2>1. marks' \in [Backends -> SUBSET Marks]
      BY <1>1, <1>4
    <2>2. spent' \in [calls : Nat, faults : Nat]
      BY SMT, <1>2, <1>4 DEF Types
    <2> QED BY <1>2, <1>4, <2>1, <2>2 DEF Types, routing, world
  <1>6. Shape'
    BY <1>2, <1>5, StillShape
  <1> QED BY <1>1, <1>2, <1>3, <1>6 DEF Marking, Apart, routing, world

LEMMA TurnEndsDoes ==
    ASSUME Shape, NEW t \in Turns, NEW b \in Backends, TurnEnds(t, b)
    PROVE  Shape' /\ Ending
  <1>1. /\ life[t][b] = "live" /\ life' = [life EXCEPT ![t][b] = "done"]
        /\ UNCHANGED <<policy, closed, starting, instances, routing, proc, workspaces, dropped, closes, spent>>
    BY DEF TurnEnds
  <1>2. Types /\ life \in [Targets -> [Backends -> Answers]] /\ t \in Targets
    BY ShapeFacts DEF Types, Targets
  <1>3. /\ life' \in [Targets -> [Backends -> Answers]]
        /\ \A y \in Targets, d \in Backends : life'[y][d] # "none" => life[y][d] # "none"
    BY <1>1, <1>2 DEF Answers
  <1>4. Types' /\ nextID' = nextID
    BY <1>1, <1>2, <1>3 DEF Types, instances, routing
  <1>5. Shape'
    BY <1>1, <1>4, StillShape
  <1> QED BY <1>1, <1>3, <1>5 DEF Ending, instances, routing

-----------------------------------------------------------------------------
(* Every step is one of these. *)

LEMMA ClientStepIs ==
    ASSUME Shape, NEW c \in Clients, ClientStep(c)
    PROVE  Shape' /\ OnPool(c) /\ OnWork(c)
  <1>1. CASE SettleClient(c)
    BY <1>1, SettleClientDoes DEF OnPool, OnWork
  <1>2. CASE ClosedToCaller(c) \/ NothingFound(c)
    BY <1>2, ClosedToCallerDoes DEF OnPool, OnWork
  <1>3. CASE AcquirePreferred(c)
    <2>1. proc[c].at \notin Starting
      BY <1>3, AcquirePreferredDoes DEF Starting
    <2> QED BY <1>3, <2>1, AcquirePreferredDoes DEF OnPool, OnWork, Grabs
  <1>4. CASE AcquireReady(c)
    <2>1. proc[c].at \notin Starting /\ proc'[c].at \notin Starting
      BY <1>4, AcquireReadyDoes DEF Starting
    <2> QED BY <1>4, <2>1, AcquireReadyDoes DEF OnPool, OnWork, Grabs
  <1>5. CASE AcquireStart(c)
    BY <1>5, AcquireStartDoes DEF OnPool, OnWork
  <1>6. CASE Fresh(c)
    BY <1>6, FreshDoes DEF OnPool, OnWork
  <1>7. CASE Claim(c)
    BY <1>7, ClaimDoes DEF OnPool, OnWork
  <1>8. CASE AcquireGiven(c)
    BY <1>8, AcquireGivenDoes DEF OnPool, OnWork, Grabs
  <1>9. CASE Prepare(c)
    BY <1>9, PrepareDoes DEF OnPool, OnWork
  <1>10. CASE CallReturns(c)
    BY <1>10, CallReturnsDoes DEF OnPool, OnWork
  <1>11. CASE CallFails(c)
    BY <1>11, CallFailsDoes DEF OnPool, OnWork
  <1>12. CASE Record(c)
    BY <1>12, RecordDoes DEF OnPool, OnWork
  <1>13. CASE Read(c)
    BY <1>13, ReadDoes DEF OnPool, OnWork, Grabs
  <1>14. CASE Reading(c)
    BY <1>14, ReadingDoes DEF OnPool, OnWork
  <1>15. CASE Found(c)
    BY <1>15, FoundDoes DEF OnPool, OnWork
  <1> QED BY <1>1, <1>2, <1>3, <1>4, <1>5, <1>6, <1>7, <1>8, <1>9, <1>10, <1>11, <1>12, <1>13, <1>14, <1>15
          DEF ClientStep

LEMMA LifecycleStepIs ==
    ASSUME Shape, NEW a \in Actors, LifecycleStep(a)
    PROVE  Shape' /\ OfGoroutine(a)
  <1>1. CASE StartBackend(a)
    BY <1>1, StartBackendDoes DEF OfGoroutine
  <1>2. CASE SettleEnsure(a)
    BY <1>2, SettleEnsureDoes DEF OfGoroutine, Settled
  <1>3. CASE SettleScaleOut(a)
    BY <1>3, SettleScaleOutDoes DEF OfGoroutine, Settled
  <1>4. CASE EnsureMinReady(a)
    BY <1>4, EnsureMinReadyDoes DEF OfGoroutine
  <1>5. CASE Drain(a)
    BY <1>5, DrainDoes DEF OfGoroutine
  <1>6. CASE Remove(a)
    BY <1>6, RemoveDoes DEF OfGoroutine
  <1>7. CASE CloseProvider(a)
    BY <1>7, CloseProviderDoes DEF OfGoroutine
  <1> QED BY <1>1, <1>2, <1>3, <1>4, <1>5, <1>6, <1>7 DEF LifecycleStep

LEMMA StillSame ==
    ASSUME Shape, UNCHANGED vars
    PROVE  Shape'
  <1>1. Types' /\ nextID' = nextID /\ proc' = proc
    BY ShapeFacts DEF vars, instances, routing, world, Types
  <1> QED BY <1>1, StillShape

LEMMA StepIs ==
    ASSUME Shape, [Next]_vars
    PROVE  Shape' /\ Step
  <1>1. CASE \E c \in Clients, x \in Sessions \cup Turns : BeginCreate(c, x)
    <2>1. PICK c \in Clients, x \in Sessions \cup Turns : BeginCreate(c, x)
      BY <1>1
    <2>2. Shape' /\ Quiet(c) /\ Elsewhere(c)
      BY <2>1, BeginCreateDoes
    <2> QED BY <2>2 DEF Step, OnPool, OnWork
  <1>2. CASE \E c \in Clients, u \in Uses : BeginUse(c, u[1], u[2])
    <2>1. PICK c \in Clients, u \in Uses : BeginUse(c, u[1], u[2])
      BY <1>2
    <2>2. u[1] \in {"get", "update"} /\ u[2] \in Targets
      BY PoolConstants
    <2>3. Shape' /\ Quiet(c) /\ Elsewhere(c)
      BY <2>1, <2>2, BeginUseDoes
    <2> QED BY <2>3 DEF Step, OnPool, OnWork
  <1>3. CASE \E c \in Clients : ClientStep(c)
    BY <1>3, ClientStepIs DEF Step
  <1>4. CASE \E a \in Actors : LifecycleStep(a)
    BY <1>4, LifecycleStepIs DEF Step
  <1>5. CASE \E b \in Backends : SettleProactive(b) \/ DrainTimeout(b)
    BY <1>5, SettleProactiveDoes, MarkingDoes DEF Step, OfInstance
  <1>6. CASE HealthStep
    BY <1>6, HealthCheckDoes DEF HealthStep, Step, OfInstance
  <1>7. CASE Close
    BY <1>7, CloseDoes DEF Step
  <1>8. CASE CloseReturns
    BY <1>8, CloseReturnsDoes DEF Step
  <1>9. CASE \E b \in Backends, m \in Faults : Fault(b, m)
    BY <1>9, MarkingDoes DEF Step, OfInstance
  <1>10. CASE \E t \in Turns, b \in Backends : TurnEnds(t, b)
    BY <1>10, TurnEndsDoes DEF Step
  <1>11. CASE UNCHANGED vars
    BY <1>11, StillSame DEF Step
  <1> QED BY <1>1, <1>2, <1>3, <1>4, <1>5, <1>6, <1>7, <1>8, <1>9, <1>10, <1>11 DEF Next, Environment

LEMMA InitShape ==
    ASSUME Init
    PROVE  Shape
  <1>1. /\ "idle" \in Labels /\ MinReady \in Nat /\ MaxBackends \in Nat /\ MinReady <= MaxBackends
    BY PoolConstants DEF Labels
  <1>2. /\ At("idle") \in Proc /\ At("idle").at = "idle" /\ At("idle").b = 0 /\ At("idle").pref = 0
    BY <1>1, Fresh0
  <1>3. At("idle").todo = {}
    BY DEF At
  <1>4. proc = [a \in Actors |-> At("idle")]
    BY DEF Init
  <1>5. proc \in [Actors -> Proc] /\ \A a \in Actors : proc[a] = At("idle")
    BY <1>2, <1>4
  <1>6. Types
    <2> closed \in BOOLEAN
      BY DEF Init
    <2>1. /\ policy \in Policies /\ starting \in Int
          /\ nextID \in 0 .. MaxBackends /\ backends \subseteq 1 .. nextID
      BY SMT, <1>1 DEF Init
    <2>2. /\ marks \in [Backends -> SUBSET Marks] /\ active \in [Backends -> Nat]
          /\ liveTurns \in [Backends -> SUBSET Turns] /\ closes \in [Backends -> Nat]
      BY DEF Init
    <2>3. /\ route \in [Targets -> 0 .. nextID] /\ owner \in [Keyed -> 0 .. nextID]
      BY SMT, <1>1 DEF Init, NoBackend
    <2>4. /\ recorded \subseteq Sessions /\ dropped \subseteq Keyed
          /\ life \in [Targets -> [Backends -> Answers]]
          /\ workspaces \subseteq Sessions \X Backends /\ spent \in [calls : Nat, faults : Nat]
      BY DEF Init, Answers
    <2> QED BY <2>1, <2>2, <2>3, <2>4 DEF Types
  <1>7. \A a \in Actors : Placed(a, At("idle"), nextID)
    <2>1. nextID \in Nat
      BY SMT, <1>1, <1>6 DEF Types
    <2> DEFINE r == At("idle")
    <2>2. r \in Proc /\ r.at = "idle" /\ r.b <= nextID /\ r.pref <= nextID /\ r.todo \subseteq 1 .. nextID /\ ClientShape(r)
      BY SMT, <1>1, <1>2, <1>3, <2>1, IdleShape
    <2> HIDE DEF r
    <2>3. \A b \in Backends : /\ DrainerShape(r, b, ReplacerLabels) /\ DrainerShape(r, b, ProactiveLabels)
                              /\ DrainerShape(r, b, CloserLabels)
      BY <2>2 DEF DrainerShape, ReplacerLabels, ProactiveLabels, CloserLabels
    <2>4. /\ \A c \in Clients : Placed(c, r, nextID)
          /\ Placed(Health, r, nextID) /\ Placed(Closer, r, nextID)
          /\ \A a \in ScaleOuts : Placed(a, r, nextID)
      BY <2>1, <2>2, PlacedAs
    <2>5. \A b \in Backends : /\ Placed(Replacer(b), r, nextID) /\ Placed(Proactive(b), r, nextID)
                              /\ Placed(CloserOf(b), r, nextID)
      BY <2>1, <2>2, <2>3, PlacedAs
    <2>6. \A a \in Drainers : Placed(a, r, nextID)
      BY <2>5, Kinds
    <2>7. \A a \in Actors : Placed(a, r, nextID)
      BY <2>4, <2>6, Kinds
    <2> QED BY <2>7 DEF r
  <1> QED BY <1>5, <1>6, <1>7 DEF Shape

=============================================================================
