------------------------ MODULE HostedAgentPoolShape ------------------------
(***************************************************************************)
(* What the steps of the hosted agent pool do, in few words, for any number *)
(* of callers, instances, sessions, turns and interactions.                 *)
(*                                                                          *)
(* Shape is the first layer of the inductive invariant: types, and the      *)
(* labels that an actor of each kind can be at.  Step lists the effects a   *)
(* step can have on the counters, the instances, the keys and the routes.   *)
(* HostedAgentPoolSteps shows that every step keeps Shape and is one of     *)
(* them; the other layers, in HostedAgentPoolLayers, rest on the effects    *)
(* only.                                                                    *)
(***************************************************************************)
EXTENDS HostedAgentPool, Integers, TLAPS

-----------------------------------------------------------------------------
(* Types, and the shape of the actors' records. *)

Ops == {"none", "create", "get", "update"}
Answers == {"none", "live", "done"}
Proc == [at : Labels, op : Ops, on : Targets \cup {NoTarget},
         b : 0 .. MaxBackends, pref : 0 .. MaxBackends, todo : SUBSET Backends,
         ws : BOOLEAN, allow : BOOLEAN, ans : Answers]

Types ==
    /\ policy \in Policies /\ closed \in BOOLEAN /\ starting \in Int
    /\ nextID \in 0 .. MaxBackends /\ backends \subseteq 1 .. nextID
    /\ marks \in [Backends -> SUBSET Marks] /\ active \in [Backends -> Nat]
    /\ liveTurns \in [Backends -> SUBSET Turns]
    /\ route \in [Targets -> 0 .. nextID] /\ owner \in [Keyed -> 0 .. nextID]
    /\ recorded \subseteq Sessions /\ dropped \subseteq Keyed
    /\ life \in [Targets -> [Backends -> Answers]]
    /\ workspaces \subseteq Sessions \X Backends
    /\ closes \in [Backends -> Nat] /\ spent \in [calls : Nat, faults : Nat]

HoldLabels == {"fresh", "claim", "prepare", "call", "reading"}
NewLabels == {"newWork", "start", "settle", "fresh", "claim", "owner", "prepare"}
UseLabels == {"existing", "read", "reading", "found"}

\* A caller's record.
ClientShape(r) ==
    /\ r.at \in {"idle", "call", "record"} \cup NewLabels \cup UseLabels
    /\ r.at # "idle" => r.on \in Targets
    /\ r.at \in HoldLabels \cup {"record", "found"} => r.b # NoBackend
    /\ r.at \in {"owner", "existing"} => r.pref # NoBackend
    /\ r.at \in {"claim", "owner"} => r.on \in Keyed
    /\ r.at = "prepare" => r.on \in Sessions
    /\ r.at \in NewLabels => r.op = "create"
    /\ r.at \in UseLabels => r.op \in {"get", "update"}
    /\ r.at = "existing" => r.op = "update"
    /\ r.at = "call" => r.op \in {"create", "update"}
    /\ r.ws = TRUE => r.on \in Sessions

\* The record of the goroutine that drains b.
ReplacerLabels == {"idle", "ensure", "start", "settle", "drain", "wait", "provider"}
ProactiveLabels == {"idle", "start", "settle", "drain", "wait", "provider"}
CloserLabels == {"idle", "drain", "wait", "provider"}
DrainerShape(r, b, labels) ==
    /\ r.at \in labels
    /\ r.at # "idle" => r.b = b

\* What an actor's record can be, by the kind of the actor.
ActorShape(a, r) ==
    /\ a \in Clients => ClientShape(r)
    /\ a = Health => r.at \in {"idle", "ensure", "start", "settle", "check"}
    /\ a = Closer => r.at \in {"idle", "wait", "done"}
    /\ a \in ScaleOuts => r.at \in {"idle", "start", "settle"}
    /\ \A b \in Backends : /\ a = Replacer(b) => DrainerShape(r, b, ReplacerLabels)
                           /\ a = Proactive(b) => DrainerShape(r, b, ProactiveLabels)
                           /\ a = CloserOf(b) => DrainerShape(r, b, CloserLabels)

Placed(a, r, n) ==
    /\ r \in Proc /\ r.b <= n /\ r.pref <= n /\ ActorShape(a, r)
    /\ a = Health => r.todo \subseteq 1 .. n

Shape ==
    /\ Types
    /\ proc \in [Actors -> Proc]
    /\ \A a \in Actors : Placed(a, proc[a], nextID)

-----------------------------------------------------------------------------
(* The effects on the actors and the instances. *)

Starting == {"start", "settle"}

\* No actor outside S moves.
Only(S) == proc' \in [Actors -> Proc] /\ \A d \in Actors \ S : proc'[d] = proc[d]

\* The call c goes on, and holds afterwards what it held before.
Quiet(c) ==
    /\ UNCHANGED <<policy, closed, starting, nextID, backends, marks, active, closes>>
    /\ Only({c}) /\ proc[c].at \notin Starting /\ proc'[c].at \notin Starting
    /\ \/ proc[c].at \notin HoldLabels /\ proc'[c].at \notin HoldLabels
       \/ proc[c].at \in HoldLabels /\ proc'[c].at \in HoldLabels /\ proc'[c].b = proc[c].b

\* The call c acquires an instance of the pool.
Takes(c) ==
    /\ proc[c].at \notin HoldLabels /\ proc'[c].at \in HoldLabels
    /\ proc'[c].b \in backends /\ active' = [active EXCEPT ![proc'[c].b] = @ + 1]
    /\ UNCHANGED <<policy, closed, nextID, backends, marks, closes>>

\* d finds b unusable, or finds nothing: b may be marked, and whoever marks it
\* draining starts its replacement.
Retires(b, d) ==
    /\ Only({d, Replacer(b)})
    /\ marks' \in [Backends -> SUBSET Marks] /\ \A e \in Backends \ {b} : marks'[e] = marks[e]
    /\ marks[b] \subseteq marks'[b] /\ marks'[b] \subseteq marks[b] \cup {"draining", "stale"}
    /\ \/ proc'[Replacer(b)] = proc[Replacer(b)]
       \/ /\ ~closed /\ ~Is(b, "draining") /\ ~Is(b, "closed") /\ "draining" \in marks'[b]
          /\ proc'[Replacer(b)].at = "ensure" /\ proc'[Replacer(b)].b = b
          /\ proc'[Replacer(b)].pref = NoBackend

\* The call c lets its instance go.
Drops(c) ==
    /\ UNCHANGED <<policy, closed, starting, nextID, backends, closes>>
    /\ proc[c].at \in HoldLabels /\ proc'[c].at \notin HoldLabels /\ proc'[c].at \notin Starting
    /\ Release(proc[c].b) /\ Retires(proc[c].b, c)

-----------------------------------------------------------------------------
(* The effects of a call. *)

\* Nothing changes in what the providers hold or who owns a key, c has not come
\* to create a keyed session, and a new route is one to an instance of the pool.
Elsewhere(c) ==
    /\ UNCHANGED <<life, owner, dropped>>
    /\ \A y \in Targets : route'[y] \in {route[y], NoBackend} \cup backends
    /\ proc'[c].at \in {"prepare", "call"} /\ proc'[c].op = "create" => proc'[c].on \notin Keyed

\* The caller takes a busy instance and the goroutine a starts another one.
ScalesOut(c, a) ==
    /\ Takes(c) /\ Only({c, a}) /\ CanScaleOut /\ starting' = starting + 1
    /\ a \in ScaleOuts /\ proc[a].at = "idle" /\ proc'[a].at = "start"

\* The caller starts an instance.
CallStarts(c) ==
    /\ UNCHANGED <<policy, closed, nextID, backends, marks, active, closes>>
    /\ Only({c}) /\ CanScaleOut /\ starting' = starting + 1
    /\ proc[c].at = "newWork" /\ proc'[c].at = "start"

\* The caller is done with a start.
CallSettles(c) ==
    /\ UNCHANGED <<policy, closed, nextID, backends, marks, closes>>
    /\ Only({c}) /\ starting' = starting - 1
    /\ proc[c].at = "settle" /\ proc'[c].at \notin Starting
    /\ Takes(c) \/ (active' = active /\ proc'[c].at \notin HoldLabels)

\* The first claim of a key wins.
Claims(c) ==
    LET s == proc[c].on IN
    /\ UNCHANGED <<life, dropped, route>> /\ proc[c].at = "claim"
    /\ s \in Keyed /\ owner' \in [Keyed -> 0 .. nextID] /\ \A k \in Keyed \ {s} : owner'[k] = owner[k]
    /\ owner'[s] = IF owner[s] = NoBackend THEN proc[c].b ELSE owner[s]
    /\ proc'[c].at \in {"prepare", "call"} => proc'[c].on = s /\ proc'[c].b = owner'[s]

\* A preparation succeeds, or fails and drops the claim.
Prepares(c) ==
    /\ UNCHANGED <<life, dropped, owner, route>> /\ proc'[c].at = "call" /\ proc[c].at = "prepare"
    /\ proc'[c].b = proc[c].b /\ proc'[c].on = proc[c].on /\ proc'[c].op = proc[c].op
Unclaims(c) ==
    /\ UNCHANGED <<life, route>> /\ proc'[c].at = "idle"
    /\ dropped' = dropped \cup ({proc[c].on} \cap Keyed)
    /\ owner' \in [Keyed -> 0 .. nextID]
    /\ \A k \in Keyed : owner'[k] = IF k = proc[c].on THEN NoBackend ELSE owner[k]

\* The call of the provider, whether or not it returns an error.
Calls(c) ==
    /\ UNCHANGED <<owner, dropped, route>> /\ proc[c].at = "call" /\ proc'[c].at \notin {"prepare", "call"}
    /\ \A y \in Targets, d \in Backends :
          life'[y][d] # "none" =>
              \/ life[y][d] # "none"
              \/ d = proc[c].b /\ proc[c].op = "create" /\ (y = proc[c].on \/ y \in Interactions)

-----------------------------------------------------------------------------
(* The effects of a start. *)

\* Neither the providers' sessions, nor the keys, nor the routes change.
Apart == UNCHANGED <<life, owner, dropped, route>>

\* An instance has been started and joins the pool, or the start has failed.
Joins(a) ==
    /\ UNCHANGED <<policy, closed, starting, marks, active, closes>> /\ Apart
    /\ Only({a}) /\ proc[a].at = "start" /\ proc'[a].at = "settle"
    /\ \/ /\ ~closed /\ nextID < MaxBackends /\ nextID' = nextID + 1
          /\ backends' = backends \cup {nextID + 1} /\ proc'[a].pref = nextID + 1
       \/ UNCHANGED <<nextID, backends>> /\ proc'[a].pref = NoBackend

\* A start is taken off the count.
Settles(a) ==
    /\ UNCHANGED <<policy, closed, nextID, backends, active, closes>> /\ Apart
    /\ Only({a}) /\ starting' = starting - 1
    /\ proc[a].at = "settle" /\ proc'[a].at \notin Starting

\* A round of ensureMinReady starts an instance, or is the last one.
Ensures(a) ==
    /\ UNCHANGED <<policy, closed, nextID, backends, marks, active, closes>> /\ Apart /\ Only({a})
    /\ a \in {Health} \cup Replacers /\ proc[a].at \in {"ensure", "idle"}
    /\ proc[a].at = "idle" => a = Health /\ ~closed
    /\ \/ starting' = starting /\ proc'[a].at \in {"idle", "check", "drain"}
       \/ starting' = starting + 1 /\ proc'[a].at = "start" /\ ~closed /\ ~Enough

\* The proactive replacement of b is there, and b drains, or it has failed.
ProactiveSettles(b) ==
    /\ Settles(Proactive(b)) /\ proc'[Proactive(b)].at \in {"drain", "idle"}
    /\ proc'[Proactive(b)].at = "drain" => ~Available(b, FALSE)'
    /\ marks' \in [Backends -> SUBSET Marks] /\ \A e \in Backends \ {b} : marks'[e] = marks[e]
    /\ marks[b] \ {"replacing"} \subseteq marks'[b] /\ marks'[b] \subseteq marks[b] \cup {"draining"}

\* One instance of the health loop's pass: it is retired, it gets a proactive
\* replacement, or nothing is done.
Checks(b) ==
    /\ UNCHANGED <<policy, closed, nextID, backends, active, closes>> /\ Apart
    /\ proc[Health].at = "check" /\ proc'[Health].at \in {"idle", "check"} /\ b <= nextID
    /\ \/ Retires(b, Health) /\ starting' = starting
       \/ /\ Only({Health, Proactive(b)}) /\ starting' = starting + 1 /\ ~closed
          /\ CanScaleOut /\ Available(b, FALSE) /\ ~Is(b, "replacing")
          /\ marks' = [marks EXCEPT ![b] = @ \cup {"replacing"}]
          /\ proc'[Proactive(b)].at = "start" /\ proc'[Proactive(b)].b = b
          /\ proc'[Proactive(b)].pref = NoBackend

-----------------------------------------------------------------------------
(* The effects of a drain, of Close and of the environment. *)

\* The first to come drains the instance, the others leave.
DrainsFirst(a) ==
    /\ UNCHANGED <<policy, closed, starting, nextID, backends, active, closes>> /\ Apart
    /\ Only({a}) /\ a \in Drainers /\ proc[a].at = "drain"
    /\ \/ /\ FirstToClose(proc[a].b)
          /\ marks' = [marks EXCEPT ![proc[a].b] = @ \cup {"closing", "draining"}]
          /\ proc'[a].at = "wait" /\ proc'[a].b = proc[a].b
       \/ /\ ~FirstToClose(proc[a].b)
          /\ marks' = marks /\ proc'[a].at = "idle"

\* The instance leaves the pool, with the routes and keys that name it.
Removes(a) ==
    LET b == proc[a].b IN
    /\ UNCHANGED <<policy, closed, starting, nextID, active, closes, life, dropped>>
    /\ Only({a}) /\ a \in Drainers /\ proc[a].at = "wait"
    /\ proc'[a].at = "provider" /\ proc'[a].b = b
    /\ Drained(b) \/ Is(b, "late")
    /\ marks' = [marks EXCEPT ![b] = @ \cup {"closed"}] /\ backends' = backends \ {b}
    /\ \A x \in Targets : route'[x] = IF route[x] = b THEN NoBackend ELSE route[x]
    /\ \A s \in Keyed : owner'[s] = IF owner[s] = b THEN NoBackend ELSE owner[s]

\* The provider of the instance is closed.
Finishes(a) ==
    /\ UNCHANGED <<policy, closed, starting, nextID, backends, marks, active>> /\ Apart
    /\ Only({a}) /\ a \in Drainers /\ proc[a].at = "provider" /\ proc'[a].at = "idle"
    /\ closes' = [closes EXCEPT ![proc[a].b] = @ + 1]

\* Close begins.
Closes ==
    /\ UNCHANGED <<policy, starting, nextID, backends, active, closes>> /\ Apart
    /\ ~closed /\ closed' = TRUE
    /\ marks' = [b \in Backends |-> IF b \in backends THEN marks[b] \cup {"draining"} ELSE marks[b]]
    /\ proc' \in [Actors -> Proc] /\ proc'[Closer].at = "wait"
    /\ \A b \in backends : proc'[CloserOf(b)].at = "drain" /\ proc'[CloserOf(b)].b = b
    /\ \A a \in Actors : a # Closer /\ (\A b \in backends : a # CloserOf(b)) => proc'[a] = proc[a]

\* Close ends.
CloseEnds ==
    /\ UNCHANGED <<policy, closed, starting, nextID, marks, active, closes, life, dropped>>
    /\ Only({Closer}) /\ proc[Closer].at = "wait" /\ proc'[Closer].at = "done"
    /\ \A a \in WaitedFor : proc[a].at = "idle"
    /\ backends' = {} /\ (\A x \in Targets : route'[x] = NoBackend) /\ \A s \in Keyed : owner'[s] = NoBackend

\* The environment marks an instance, or a turn ends.
Marking(b) ==
    /\ UNCHANGED <<policy, closed, starting, nextID, backends, active, closes, proc>> /\ Apart
    /\ b \in backends \/ Is(b, "closing")
    /\ \E m \in Faults \cup {"late"} : marks' = [marks EXCEPT ![b] = @ \cup {m}]

\* A turn ends at the provider.
Ending ==
    /\ UNCHANGED <<policy, closed, starting, nextID, backends, marks, active, closes, proc, owner, dropped, route>>
    /\ \A y \in Targets, d \in Backends : life'[y][d] # "none" => life[y][d] # "none"

-----------------------------------------------------------------------------
(* Every step has one of these. *)

\* The caller takes an instance, and that is all.
Grabs(c) ==
    /\ Takes(c) /\ UNCHANGED starting /\ Only({c})
    /\ proc[c].at \notin Starting /\ proc'[c].at \notin Starting

\* A caller's step has an effect on the pool and one on the sessions and routes.
OnPool(c) ==
    \/ Quiet(c) \/ Grabs(c) \/ CallStarts(c) \/ CallSettles(c) \/ Drops(c)
    \/ proc[c].at = "newWork" /\ \E a \in ScaleOuts : ScalesOut(c, a)
OnWork(c) ==
    \/ Elsewhere(c) \/ Claims(c) \/ Calls(c)
    \/ Quiet(c) /\ Prepares(c)
    \/ Drops(c) /\ Unclaims(c)

Settled(a) ==
    /\ Settles(a) /\ UNCHANGED marks
    /\ \/ a \in {Health} \cup Replacers /\ proc'[a].at \in {"idle", "ensure", "check", "drain"}
       \/ a \in ScaleOuts /\ proc'[a].at = "idle"

OfGoroutine(a) == Joins(a) \/ Settled(a) \/ Ensures(a) \/ DrainsFirst(a) \/ Removes(a) \/ Finishes(a)
OfInstance(b) == ProactiveSettles(b) \/ Checks(b) \/ Marking(b)

Step ==
    \/ \E c \in Clients : OnPool(c) /\ OnWork(c)
    \/ \E a \in Actors : OfGoroutine(a)
    \/ \E b \in Backends : OfInstance(b)
    \/ Closes \/ CloseEnds \/ Ending
    \/ UNCHANGED vars

=============================================================================
