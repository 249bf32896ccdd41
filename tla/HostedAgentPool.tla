-------------------------- MODULE HostedAgentPool --------------------------
(***************************************************************************)
(* The pool of hosted agent runtimes: hostedAgentProviderPool in            *)
(* bootstrap/hosted_agent_pool.go.  Every action is one stretch of code     *)
(* under p.mu, together with the call to a provider or a runtime that       *)
(* precedes it.                                                             *)
(*                                                                          *)
(* The actors are the callers, the health loop, the goroutines that replace *)
(* an instance, replace it proactively or scale out, and Close with one     *)
(* goroutine per instance.  A call looks its instance up in a routing map,  *)
(* acquires it, calls its provider, releases it, and records what it        *)
(* learned; the pool lock is free in between.  Deadlines are not numbers:   *)
(* an instance becomes due (its drain deadline has come) or late (its drain *)
(* timeout has passed) at any time.                                         *)
(***************************************************************************)
EXTENDS Naturals, FiniteSets

CONSTANTS
    Clients,             \* callers, each with one call at a time
    Sessions, Keyed,     \* session ids; those created under an idempotency key
    Turns, SessionOf,    \* turn ids and their sessions
    Interactions, TurnOf,
    Policies,            \* restart policies: "always", "never"
    MinReady, MaxReady,  \* runtime.pool.minReadyInstances, maxReadyInstances
    Uses,                \* what is asked of existing targets, <<"get" or "update", target>>
    MayClose,            \* TRUE if the pool may be closed
    MaxBackends, MaxCalls, MaxFaults   \* bounds

Backends == 1 .. MaxBackends
NoBackend == 0
Targets == Sessions \cup Turns \cup Interactions
NoTarget == "none"

\* config_validate.go refuses a pool of any other size.
ASSUME PoolConstants ==
    /\ MinReady \in Nat \ {0} /\ MaxReady \in Nat /\ MinReady <= MaxReady
    /\ MaxBackends \in Nat /\ MinReady <= MaxBackends
    /\ Keyed \subseteq Sessions
    /\ Uses \subseteq {"get", "update"} \X Targets
    /\ SessionOf \in [Turns -> Sessions] /\ TurnOf \in [Interactions -> Turns]
    /\ Sessions \cap Interactions = {}
    /\ MaxCalls \in Nat /\ MaxFaults \in Nat

Health == <<"health">>
Replacer(b) == <<"replace", b>>
Proactive(b) == <<"proactive", b>>
ScaleOut(n) == <<"scaleOut", n>>
CloserOf(b) == <<"close", b>>
Closer == <<"closer">>
Replacers == {Replacer(b) : b \in Backends}
Proactives == {Proactive(b) : b \in Backends}
ScaleOuts == {ScaleOut(n) : n \in 1 .. MaxReady}
Closers == {CloserOf(b) : b \in Backends}
Lifecycle == {Health} \cup Replacers \cup Proactives \cup ScaleOuts
Actors == Clients \cup Lifecycle \cup {Closer} \cup Closers

ASSUME PoolClients ==
    IsFiniteSet(Clients) /\ Clients \cap (Lifecycle \cup {Closer} \cup Closers) = {}

VARIABLES
    policy,     \* RestartPolicy
    closed,     \* p.closed
    starting,   \* p.starting
    nextID,     \* p.nextID
    backends,   \* p.backends, by id
    marks,      \* what is true of an instance
    active,     \* backend.active
    liveTurns,  \* backend.liveTurns
    route,      \* sessionBackends, turnBackends and interactionBackends
    owner,      \* createKeyBackends
    recorded,   \* sessionWorkspaces
    proc,       \* where every actor is
    life,       \* what the provider of an instance holds: "none", "live", "done"
    workspaces, \* the prepared workspaces, <<session, instance>>
    dropped,    \* sessions whose key a failed preparation has unclaimed
    closes,     \* how often the provider of an instance was closed
    spent       \* calls and faults

instances == <<nextID, backends, marks, active, liveTurns>>
routing == <<route, owner, recorded>>
world == <<life, workspaces, dropped, closes>>
vars == <<policy, closed, starting, instances, routing, proc, world, spent>>

\* sick: the provider does not answer, whether or not its runtime session shows it;
\* outdated: its image is no longer the configured one; stale: the pool knows;
\* ageing and due: it nears or has reached its drain deadline; late: its drain
\* timeout has passed.
Faults == {"sick", "outdated", "ageing", "due"}
Marks == Faults \cup {"draining", "replacing", "closing", "closed", "stale", "late"}

\* b: the instance at hand; pref: the preferred one; todo: those still to visit;
\* ws: a workspace is prepared; allow: pref may be draining; ans: the state the
\* provider answered with.
At(label) == [at |-> label, op |-> "none", on |-> NoTarget, b |-> NoBackend, pref |-> NoBackend,
              todo |-> {}, ws |-> FALSE, allow |-> FALSE, ans |-> "none"]

Labels == {"idle", "newWork", "existing", "start", "settle", "fresh", "claim", "owner", "prepare",
           "call", "record", "read", "reading", "found", "ensure", "check", "drain", "wait", "provider",
           "done"}

TypeOK ==
    /\ policy \in Policies /\ closed \in BOOLEAN
    /\ starting \in Nat /\ nextID \in 0 .. MaxBackends /\ backends \subseteq 1 .. nextID
    /\ marks \in [Backends -> SUBSET Marks] /\ active \in [Backends -> Nat]
    /\ liveTurns \in [Backends -> SUBSET Turns]
    /\ route \in [Targets -> Backends \cup {NoBackend}]
    /\ owner \in [Keyed -> Backends \cup {NoBackend}]
    /\ recorded \subseteq Sessions /\ dropped \subseteq Keyed
    /\ DOMAIN proc = Actors
    /\ \A a \in Actors : /\ proc[a].at \in Labels /\ proc[a].todo \subseteq Backends
                         /\ proc[a].b \in 0 .. nextID /\ proc[a].pref \in 0 .. nextID
    /\ life \in [Targets -> [Backends -> {"none", "live", "done"}]]
    /\ workspaces \subseteq Sessions \X Backends
    /\ closes \in [Backends -> Nat] /\ spent \in [calls : Nat, faults : Nat]

\* newHostedAgentProviderPool has started the minimum.
Init ==
    /\ policy \in Policies /\ closed = FALSE /\ starting = 0
    /\ nextID = MinReady /\ backends = 1 .. MinReady
    /\ marks = [b \in Backends |-> {}] /\ active = [b \in Backends |-> 0]
    /\ liveTurns = [b \in Backends |-> {}]
    /\ route = [x \in Targets |-> NoBackend] /\ owner = [s \in Keyed |-> NoBackend]
    /\ recorded = {} /\ dropped = {} /\ workspaces = {}
    /\ proc = [a \in Actors |-> At("idle")]
    /\ life = [x \in Targets |-> [b \in Backends |-> "none"]]
    /\ closes = [b \in Backends |-> 0]
    /\ spent = [calls |-> 0, faults |-> 0]

-----------------------------------------------------------------------------
(* Which instances may be used. *)

Is(b, m) == m \in marks[b]

Available(b, allowDraining) ==
    /\ b \in backends /\ ~Is(b, "closed")
    /\ allowDraining \/ ~(Is(b, "draining") \/ Is(b, "closing"))

Accepts(b) == Available(b, FALSE) /\ ~Is(b, "due") /\ ~Is(b, "stale")
Accepting == {b \in backends : Accepts(b)}

AcceptsPreferred(b, allowDraining) ==
    \/ Accepts(b)
    \/ (allowDraining /\ Available(b, TRUE) /\ ~Is(b, "due") /\ ~Is(b, "stale"))

\* Variant: leaves out the instances being started.
CanScaleOutReadyOnly == Cardinality(Accepting) < MaxReady
CanScaleOut == Cardinality(Accepting) + starting < MaxReady

\* pickReadyBackendLocked: an idle instance if there is one, in turn.
Pickable ==
    LET idle == {b \in Accepting : active[b] = 0}
    IN  IF idle # {} THEN idle ELSE Accepting

Go(a, label) == proc' = [proc EXCEPT ![a].at = label]
End(a) == proc' = [proc EXCEPT ![a] = At("idle")]
Acquire(b) == active' = [active EXCEPT ![b] = @ + 1]
\* Variant: released by the caller and once more by its deferred call.
ReleaseTwice(b) == active' = [active EXCEPT ![b] = @ - 2]
Release(b) == active' = [active EXCEPT ![b] = IF @ > 0 THEN @ - 1 ELSE 0]

\* replaceBackend: the first to mark the instance starts its replacement, unless
\* the pool is closed; f is the actors' state to update.
Replaces(b) == ~Is(b, "draining") /\ ~Is(b, "closed")
Marked(b) == marks[b] \cup (IF Replaces(b) THEN {"draining"} ELSE {})
WithReplacer(f, b) ==
    IF Replaces(b) /\ ~closed THEN [f EXCEPT ![Replacer(b)] = [At("ensure") EXCEPT !.b = b]] ELSE f

-----------------------------------------------------------------------------
(* The environment: instances age and fail, turns end, time passes. *)

Fault(b, m) ==
    /\ spent.faults < MaxFaults /\ ~closed /\ b \in backends /\ m \in Faults \ marks[b]
    /\ marks' = [marks EXCEPT ![b] = @ \cup {m}]
    /\ spent' = [spent EXCEPT !.faults = @ + 1]
    /\ UNCHANGED <<policy, closed, starting, nextID, backends, active, liveTurns, routing, proc, world>>

\* Variant: does not wait for calls.
DrainedOfTurns(b) == liveTurns[b] = {}
\* What a drain waits for.
Drained(b) == active[b] = 0 /\ liveTurns[b] = {}

\* The drain timeout, or the expiry of the runtime session before it.
DrainTimeout(b) ==
    /\ Is(b, "closing") /\ ~Is(b, "closed") /\ ~Is(b, "late") /\ ~Drained(b)
    /\ marks' = [marks EXCEPT ![b] = @ \cup {"late"}]
    /\ UNCHANGED <<policy, closed, starting, nextID, backends, active, liveTurns, routing, proc, world, spent>>

TurnEnds(t, b) ==
    /\ life[t][b] = "live" /\ closes[b] = 0
    /\ life' = [life EXCEPT ![t][b] = "done"]
    /\ UNCHANGED <<policy, closed, starting, instances, routing, proc, workspaces, dropped, closes, spent>>

-----------------------------------------------------------------------------
(* Starting an instance: acquireBackend, ensureMinReady, the scale-out and   *)
(* the proactive replacement all count it in p.starting, start it, and then   *)
(* take it off the count under the lock again.                                *)

\* startBackend.  A pool closed meanwhile closes the new provider instead; the
\* runtime has room for MaxBackends instances altogether.
StartBackend(a) ==
    /\ proc[a].at = "start"
    /\ \/ /\ ~closed /\ nextID < MaxBackends
          /\ nextID' = nextID + 1 /\ backends' = backends \cup {nextID + 1}
          /\ proc' = [proc EXCEPT ![a].at = "settle", ![a].pref = nextID + 1]
          /\ UNCHANGED spent
       \/ /\ closed \/ nextID = MaxBackends \/ spent.faults < MaxFaults
          /\ proc' = [proc EXCEPT ![a].at = "settle", ![a].pref = NoBackend]
          /\ spent' = IF closed \/ nextID = MaxBackends THEN spent ELSE [spent EXCEPT !.faults = @ + 1]
          /\ UNCHANGED <<nextID, backends>>
    /\ UNCHANGED <<policy, closed, starting, marks, active, liveTurns, routing, world>>

\* The caller takes the instance it started if it still accepts work, returns
\* the error, or tries again.
SettleClient(c) ==
    LET new == proc[c].pref IN
    /\ c \in Clients /\ proc[c].at = "settle"
    /\ starting' = starting - 1
    /\ \/ /\ new # NoBackend /\ Accepts(new)
          /\ Acquire(new)
          /\ proc' = [proc EXCEPT ![c].at = "fresh", ![c].b = new, ![c].pref = NoBackend]
       \/ /\ new # NoBackend /\ ~Accepts(new)
          /\ proc' = [proc EXCEPT ![c].at = "newWork", ![c].pref = NoBackend]
          /\ UNCHANGED active
       \/ /\ new = NoBackend
          /\ End(c)
          /\ UNCHANGED active
    /\ UNCHANGED <<policy, closed, nextID, backends, marks, liveTurns, routing, world, spent>>

\* ensureMinReady goes round again, or gives up on an error; a replacer drains
\* either way, and the health loop goes on to its checks.
ToCheck(a) == {b \in backends : a = Health /\ Available(b, FALSE)}
\* Variant: a replacer that is done with the replacement returns.
AfterEnsureReturns(a) == IF a # Health \/ ToCheck(a) = {} THEN "idle" ELSE "check"
AfterEnsure(a) == IF a # Health THEN "drain" ELSE IF ToCheck(a) = {} THEN "idle" ELSE "check"

SettleEnsure(a) ==
    /\ a \in {Health} \cup Replacers /\ proc[a].at = "settle"
    /\ starting' = starting - 1
    /\ proc' = [proc EXCEPT ![a].at = IF proc[a].pref # NoBackend THEN "ensure" ELSE AfterEnsure(a),
                            ![a].todo = ToCheck(a),
                            ![a].pref = NoBackend]
    /\ UNCHANGED <<policy, closed, instances, routing, world, spent>>

SettleScaleOut(a) ==
    /\ a \in ScaleOuts /\ proc[a].at = "settle"
    /\ starting' = starting - 1
    /\ End(a)
    /\ UNCHANGED <<policy, closed, instances, routing, world, spent>>

\* The old instance drains once the new one is there; replacing is cleared only
\* while the old one is in the pool.
SettleProactive(b) ==
    LET a == Proactive(b)
        new == proc[a].pref
    IN  /\ proc[a].at = "settle"
        /\ starting' = starting - 1
        /\ marks' = IF ~Available(b, TRUE) THEN marks
                    ELSE [marks EXCEPT ![b] = (@ \ {"replacing"})
                                              \cup (IF new # NoBackend THEN {"draining"} ELSE {})]
        /\ proc' = [proc EXCEPT ![a] = IF new # NoBackend THEN [At("drain") EXCEPT !.b = b] ELSE At("idle")]
        /\ UNCHANGED <<policy, closed, nextID, backends, active, liveTurns, routing, world, spent>>

-----------------------------------------------------------------------------
(* The health loop and the replacements. *)

\* Variant: counts the instances ever started.
EnoughStarted == nextID >= MinReady
Enough == Cardinality(Accepting) + starting >= MinReady

\* One round of ensureMinReady.  The ticker starts the health loop's, unless the
\* pool is closed; with policy "never" there is no health loop.
Ticks(a) == a = Health /\ proc[a].at = "idle" /\ policy # "never" /\ ~closed

EnsureMinReady(a) ==
    /\ a \in {Health} \cup Replacers /\ (proc[a].at = "ensure" \/ Ticks(a))
    /\ IF closed \/ Enough
       THEN /\ proc' = [proc EXCEPT ![a].at = AfterEnsure(a), ![a].todo = ToCheck(a)]
            /\ UNCHANGED starting
       ELSE /\ Go(a, "start")
            /\ starting' = starting + 1
    /\ UNCHANGED <<policy, closed, instances, routing, world, spent>>

\* An ageing instance is replaced ahead of its deadline if there is room for both.
StartsProactive(b) == Is(b, "ageing") /\ Available(b, FALSE) /\ ~Is(b, "replacing") /\ CanScaleOut

\* What a refresh may have added to the marks, an error of it included.
Refreshed(b) ==
    {Marked(b) \cup s : s \in IF ~Is(b, "outdated") THEN {{}}
                             ELSE IF Is(b, "sick") THEN {{}, {"stale"}} ELSE {{"stale"}}}

\* One instance of the pass: refresh its runtime session, retire it, ping it, or
\* start its proactive replacement.
HealthCheck(b) ==
    LET rest == [proc EXCEPT ![Health].todo = @ \ {b},
                             ![Health].at = IF proc[Health].todo = {b} THEN "idle" ELSE "check"]
        bad == closed \/ marks[b] \cap {"sick", "outdated", "due"} # {}
    IN  /\ proc[Health].at = "check" /\ b \in proc[Health].todo
        /\ \/ /\ bad
              /\ marks' \in {[marks EXCEPT ![b] = m] : m \in Refreshed(b)}
              /\ proc' = WithReplacer(rest, b)
              /\ UNCHANGED starting
           \/ /\ ~bad /\ StartsProactive(b)
              /\ marks' = [marks EXCEPT ![b] = @ \cup {"replacing"}]
              /\ starting' = starting + 1
              /\ proc' = [rest EXCEPT ![Proactive(b)] = [At("start") EXCEPT !.b = b]]
           \/ /\ ~bad /\ ~StartsProactive(b)
              /\ proc' = rest
              /\ UNCHANGED <<marks, starting>>
        /\ UNCHANGED <<policy, closed, nextID, backends, active, liveTurns, routing, world, spent>>

-----------------------------------------------------------------------------
(* drainAndCloseBackend, by the replacements and by Close. *)

Drainers == Replacers \cup Proactives \cup Closers

\* Variant: looks at closed only.
FirstUnclosed(b) == ~Is(b, "closed")
\* Only the first to arrive drains the instance.
FirstToClose(b) == ~Is(b, "closed") /\ ~Is(b, "closing")

Drain(a) ==
    LET b == proc[a].b IN
    /\ a \in Drainers /\ proc[a].at = "drain"
    /\ IF FirstToClose(b)
       THEN /\ marks' = [marks EXCEPT ![b] = @ \cup {"closing", "draining"}]
            /\ Go(a, "wait")
       ELSE /\ End(a)
            /\ UNCHANGED marks
    /\ UNCHANGED <<policy, closed, starting, nextID, backends, active, liveTurns, routing, world, spent>>

\* removeBackendLocked: the instance leaves the pool and every routing map.
Forget(f, b) == [x \in DOMAIN f |-> IF f[x] = b THEN NoBackend ELSE f[x]]
\* Variant: leaves the routes of turns and interactions.
ForgetSessions(f, b) == [x \in DOMAIN f |-> IF f[x] = b /\ x \in Sessions THEN NoBackend ELSE f[x]]
ForgetTargets(f, b) == Forget(f, b)
\* Variant: leaves the create keys.
KeepKeys(f, b) == f
ForgetKeys(f, b) == Forget(f, b)

Remove(a) ==
    LET b == proc[a].b IN
    /\ proc[a].at = "wait" /\ a \in Drainers
    /\ Drained(b) \/ Is(b, "late")
    /\ marks' = [marks EXCEPT ![b] = @ \cup {"closed"}]
    /\ backends' = backends \ {b}
    /\ route' = ForgetTargets(route, b) /\ owner' = ForgetKeys(owner, b)
    /\ recorded' = {s \in recorded : route[s] # b}
    /\ Go(a, "provider")
    /\ UNCHANGED <<policy, closed, starting, nextID, active, liveTurns, world, spent>>

CloseProvider(a) ==
    LET b == proc[a].b IN
    /\ proc[a].at = "provider"
    /\ closes' = [closes EXCEPT ![b] = @ + 1]
    /\ End(a)
    /\ UNCHANGED <<policy, closed, starting, instances, routing, life, workspaces, dropped, spent>>

\* Close: nothing new starts, every instance drains, the lifecycle goroutines
\* are waited for, and the maps are emptied.
Close ==
    /\ MayClose /\ ~closed
    /\ closed' = TRUE
    /\ marks' = [b \in Backends |-> IF b \in backends THEN marks[b] \cup {"draining"} ELSE marks[b]]
    /\ proc' = [a \in Actors |-> IF a = Closer THEN At("wait")
                                 ELSE IF \E b \in backends : a = CloserOf(b)
                                 THEN [At("drain") EXCEPT !.b = CHOOSE b \in backends : a = CloserOf(b)]
                                 ELSE proc[a]]
    /\ UNCHANGED <<policy, starting, nextID, backends, active, liveTurns, routing, world, spent>>

WaitedFor == Closers \cup Lifecycle

CloseReturns ==
    /\ proc[Closer].at = "wait" /\ \A a \in WaitedFor : proc[a].at = "idle"
    /\ backends' = {}
    /\ route' = [x \in Targets |-> NoBackend] /\ owner' = [s \in Keyed |-> NoBackend]
    /\ recorded' = {}
    /\ Go(Closer, "done")
    /\ UNCHANGED <<policy, closed, starting, nextID, marks, active, liveTurns, world, spent>>

-----------------------------------------------------------------------------
(* The calls. *)

Visible == {b \in backends : Available(b, TRUE)}

\* CreateSession and CreateTurn look for the owner of the key, the instance of
\* the turn, or that of its session; an id made up by an unkeyed create is new.
PreferredForSession(s) ==
    IF s \in Keyed THEN [b |-> owner[s], allow |-> TRUE] ELSE [b |-> NoBackend, allow |-> FALSE]
PreferredForTurn(t) ==
    IF route[t] # NoBackend THEN [b |-> route[t], allow |-> TRUE]
    ELSE [b |-> route[SessionOf[t]], allow |-> FALSE]
PreferredFor(x) == IF x \in Sessions THEN PreferredForSession(x) ELSE PreferredForTurn(x)

BeginCreate(c, x) ==
    /\ proc[c].at = "idle" /\ spent.calls < MaxCalls
    /\ x \in Sessions \ Keyed => (\A b \in Backends : life[x][b] = "none") /\ \A d \in Clients : proc[d].on # x
    /\ proc' = [proc EXCEPT ![c] = [At("newWork") EXCEPT !.op = "create", !.on = x,
                                    !.pref = PreferredFor(x).b, !.allow = PreferredFor(x).allow]]
    /\ spent' = [spent EXCEPT !.calls = @ + 1]
    /\ UNCHANGED <<policy, closed, starting, instances, routing, world>>

\* GetSession, GetTurn, GetInteraction; and UpdateSession with state archived,
\* CancelTurn, ResolveInteraction, which look the target up first when it has
\* no route.
BeginUse(c, op, x) ==
    /\ proc[c].at = "idle" /\ spent.calls < MaxCalls
    /\ proc' = [proc EXCEPT ![c] = [At(IF op = "update" /\ route[x] # NoBackend THEN "existing" ELSE "read")
                                    EXCEPT !.op = op, !.on = x, !.pref = route[x],
                                           !.todo = IF route[x] = NoBackend THEN Visible ELSE {}]]
    /\ spent' = [spent EXCEPT !.calls = @ + 1]
    /\ UNCHANGED <<policy, closed, starting, instances, routing, world>>

ClosedToCaller(c) ==
    /\ proc[c].at \in {"newWork", "existing", "owner", "read"} /\ closed
    /\ End(c)
    /\ UNCHANGED <<policy, closed, starting, instances, routing, world, spent>>

\* The preferred instance, if it accepts the work.
AcquirePreferred(c) ==
    LET b == proc[c].pref IN
    /\ proc[c].at = "newWork" /\ ~closed /\ b # NoBackend
    /\ IF AcceptsPreferred(b, proc[c].allow)
       THEN /\ Acquire(b)
            /\ proc' = [proc EXCEPT ![c].at = "fresh", ![c].b = b, ![c].pref = NoBackend]
       ELSE /\ proc' = [proc EXCEPT ![c].pref = NoBackend]
            /\ UNCHANGED active
    /\ UNCHANGED <<policy, closed, starting, nextID, backends, marks, liveTurns, routing, world, spent>>

\* Any ready instance; taking a busy one starts another when there is room.
AcquireReady(c) ==
    /\ proc[c].at = "newWork" /\ ~closed /\ proc[c].pref = NoBackend
    /\ \E b \in Pickable :
          LET held == [proc EXCEPT ![c].at = "fresh", ![c].b = b] IN
          /\ Acquire(b)
          /\ IF active[b] > 0 /\ CanScaleOut
             THEN /\ starting' = starting + 1
                  /\ \E a \in ScaleOuts : /\ proc[a].at = "idle"
                                          /\ \A n \in 1 .. MaxReady :
                                                proc[ScaleOut(n)].at = "idle" => a[2] <= n
                                          /\ proc' = [held EXCEPT ![a].at = "start"]
             ELSE /\ proc' = held
                  /\ UNCHANGED starting
    /\ UNCHANGED <<policy, closed, nextID, backends, marks, liveTurns, routing, world, spent>>

\* None is ready: start one; with no room the caller polls until it gives up.
AcquireStart(c) ==
    /\ proc[c].at = "newWork" /\ ~closed /\ proc[c].pref = NoBackend /\ Pickable = {}
    /\ \/ /\ CanScaleOut
          /\ starting' = starting + 1
          /\ Go(c, "start")
       \/ /\ ~CanScaleOut
          /\ End(c)
          /\ UNCHANGED starting
    /\ UNCHANGED <<policy, closed, instances, routing, world, spent>>

\* What comes after the acquisition; a session may ask for a workspace.
Prepared(f, c) ==
    {[f EXCEPT ![c].at = IF ws THEN "prepare" ELSE "call", ![c].ws = ws] :
        ws \in IF proc[c].on \in Sessions THEN BOOLEAN ELSE {FALSE}}

\* ensureBackendFreshForNewWork: a stale instance, and under policy "never" one
\* that its runtime reports unusable, is replaced and the caller looks again.
Fresh(c) ==
    LET b == proc[c].b
        bad == Is(b, "stale") \/ (policy = "never" /\ marks[b] \cap {"outdated", "due"} # {})
        seen == policy = "never" /\ Is(b, "sick")
        again == [proc EXCEPT ![c].at = "newWork", ![c].b = NoBackend]
    IN  /\ proc[c].at = "fresh"
        /\ \/ /\ bad \/ seen
              /\ marks' \in {[marks EXCEPT ![b] = m] : m \in Refreshed(b)}
              /\ proc' = WithReplacer(again, b)
              /\ Release(b)
           \/ /\ ~bad
              /\ IF proc[c].on \in Keyed THEN Go(c, "claim") ELSE proc' \in Prepared(proc, c)
              /\ UNCHANGED <<marks, active>>
        /\ UNCHANGED <<policy, closed, starting, nextID, backends, liveTurns, routing, world, spent>>

\* Variant: the latest claim wins.
ClaimLatest(s, b) == b
\* claimCreateKeyBackend: the first claim wins, the others move to its instance.
ClaimOwner(s, b) == IF owner[s] = NoBackend THEN b ELSE owner[s]

Claim(c) ==
    LET s == proc[c].on
        b == proc[c].b
        o == ClaimOwner(s, b)
    IN  /\ proc[c].at = "claim"
        /\ owner' = [owner EXCEPT ![s] = o]
        /\ \/ /\ o = b
              /\ proc' \in Prepared(proc, c)
              /\ UNCHANGED active
           \/ /\ o # b
              /\ Release(b)
              /\ proc' = [proc EXCEPT ![c].at = "owner", ![c].b = NoBackend, ![c].pref = o]
        /\ UNCHANGED <<policy, closed, starting, nextID, backends, marks, liveTurns, route, recorded, world, spent>>

\* acquireBackend of a given instance, draining or not, or an error.
AcquireGiven(c) ==
    LET b == proc[c].pref IN
    /\ proc[c].at \in {"owner", "existing"} /\ ~closed
    /\ IF Available(b, TRUE)
       THEN /\ Acquire(b)
            /\ proc' = [proc EXCEPT ![c].at = IF @ = "owner" THEN "claim" ELSE "call",
                                    ![c].b = b, ![c].pref = NoBackend]
       ELSE /\ End(c)
            /\ UNCHANGED active
    /\ UNCHANGED <<policy, closed, starting, nextID, backends, marks, liveTurns, routing, world, spent>>

MayFail(b) == closes[b] > 0 \/ Is(b, "sick") \/ spent.faults < MaxFaults
Failed(b) == IF closes[b] > 0 \/ Is(b, "sick") THEN spent ELSE [spent EXCEPT !.faults = @ + 1]

\* A failed preparation removes the workspace, drops the claim and releases.
Unclaimed(s) == IF s \in Keyed THEN [owner EXCEPT ![s] = NoBackend] ELSE owner

Prepare(c) ==
    LET s == proc[c].on
        b == proc[c].b
    IN  /\ proc[c].at = "prepare"
        /\ \/ /\ closes[b] = 0
              /\ workspaces' = workspaces \cup {<<s, b>>}
              /\ Go(c, "call")
              /\ UNCHANGED <<active, owner, dropped, spent>>
           \/ /\ MayFail(b)
              /\ workspaces' = workspaces \ {<<s, b>>}
              /\ owner' = Unclaimed(s)
              /\ dropped' = dropped \cup ({s} \cap Keyed)
              /\ Release(b)
              /\ End(c)
              /\ spent' = Failed(b)
        /\ UNCHANGED <<policy, closed, starting, nextID, backends, marks, liveTurns, route, recorded,
                       life, closes>>

\* The provider dedups a create by its id; a turn may come with an interaction.
Effect(op, x, b) ==
    [y \in Targets |->
        IF op = "update" THEN [life[y] EXCEPT ![b] = IF y = x /\ @ # "none" THEN "done" ELSE @]
        ELSE [life[y] EXCEPT ![b] = IF @ = "none" /\ (y = x \/ (y \in Interactions /\ TurnOf[y] = x))
                                    THEN "live" ELSE @]]

\* The call of the provider, then the release.
CallReturns(c) ==
    LET b == proc[c].b
        after == Effect(proc[c].op, proc[c].on, b)
    IN  /\ proc[c].at = "call" /\ closes[b] = 0
        /\ after[proc[c].on][b] # "none"
        /\ life' = after
        /\ Release(b)
        /\ proc' = [proc EXCEPT ![c].at = "record", ![c].ans = after[proc[c].on][b]]
        /\ UNCHANGED <<policy, closed, starting, nextID, backends, marks, liveTurns, routing,
                       workspaces, dropped, closes, spent>>

\* maybeProbeAfterCallError: the probe finds a sick instance and replaces it.
ProbeMarks(b) == IF policy # "never" /\ Is(b, "sick") THEN [marks EXCEPT ![b] = Marked(b)] ELSE marks
ProbeProc(f, b) == IF policy # "never" /\ Is(b, "sick") THEN WithReplacer(f, b) ELSE f

\* An error says nothing about whether the provider did the work.  An unkeyed
\* create removes its workspace.
CallFails(c) ==
    LET b == proc[c].b
        s == proc[c].on
    IN  /\ proc[c].at = "call" /\ MayFail(b)
        /\ life' \in {life} \cup (IF closes[b] = 0 THEN {Effect(proc[c].op, s, b)} ELSE {})
        /\ workspaces' = workspaces \ (IF proc[c].ws /\ s \notin Keyed THEN {<<s, b>>} ELSE {})
        /\ Release(b)
        /\ marks' = ProbeMarks(b)
        /\ proc' = ProbeProc([proc EXCEPT ![c] = At("idle")], b)
        /\ spent' = Failed(b)
        /\ UNCHANGED <<policy, closed, starting, nextID, backends, liveTurns, routing, dropped, closes>>

\* recordSession, recordTurn, recordInteraction: what is finished is forgotten,
\* but for an instance that is draining, and nothing is recorded of an instance
\* that has left the pool.
RecordedSession(s, b, ans) ==
    IF ans = "done" /\ (~Is(b, "draining") \/ Is(b, "closed")) THEN [route EXCEPT ![s] = NoBackend]
    ELSE IF Available(b, TRUE) THEN [route EXCEPT ![s] = b]
    ELSE route

Kept(b, ans) == IF ans = "live" \/ Is(b, "draining") THEN b ELSE NoBackend

RecordedTurn(t, b, ans) ==
    IF Available(b, TRUE) THEN [route EXCEPT ![t] = Kept(b, ans), ![SessionOf[t]] = b] ELSE route

RecordedInteraction(i, b, ans) ==
    IF Available(b, TRUE)
    THEN [route EXCEPT ![i] = Kept(b, ans), ![TurnOf[i]] = b, ![SessionOf[TurnOf[i]]] = b]
    ELSE route

Recorded(x, b, ans) ==
    IF x \in Sessions THEN RecordedSession(x, b, ans)
    ELSE IF x \in Turns THEN RecordedTurn(x, b, ans)
    ELSE RecordedInteraction(x, b, ans)

RecordedTurns(x, b, ans) ==
    IF x \notin Turns \/ ~Available(b, TRUE) THEN liveTurns
    ELSE [liveTurns EXCEPT ![b] = IF ans = "live" THEN @ \cup {x} ELSE @ \ {x}]

\* After the call.  Archiving takes the workspace down and drops the route.
Record(c) ==
    LET x == proc[c].on
        b == proc[c].b
        archived == x \in Sessions /\ proc[c].op = "update"
    IN  /\ proc[c].at = "record"
        /\ \/ /\ archived
              /\ route' = [route EXCEPT ![x] = NoBackend]
              /\ recorded' = recorded \ {x}
              /\ workspaces' = workspaces \ (IF x \in recorded THEN {<<x, b>>} ELSE {})
              /\ UNCHANGED liveTurns
           \/ /\ ~archived
              /\ route' = Recorded(x, b, proc[c].ans)
              /\ liveTurns' = RecordedTurns(x, b, proc[c].ans)
              /\ recorded' = recorded \cup (IF proc[c].ws THEN {x} ELSE {})
              /\ UNCHANGED workspaces
        /\ End(c)
        /\ UNCHANGED <<policy, closed, starting, nextID, backends, marks, active, owner,
                       life, dropped, closes, spent>>

\* The reads: the preferred instance first, then every instance of the pool.
Read(c) ==
    LET first == proc[c].pref # NoBackend IN
    /\ proc[c].at = "read" /\ ~closed
    /\ \E b \in IF first THEN {proc[c].pref} ELSE proc[c].todo :
          /\ \A d \in proc[c].todo : b <= d
          /\ IF Available(b, TRUE)
             THEN /\ Acquire(b)
                  /\ proc' = [proc EXCEPT ![c].at = "reading", ![c].b = b]
             ELSE /\ proc' = [proc EXCEPT ![c].pref = NoBackend,
                                          ![c].todo = (IF first THEN Visible ELSE @) \ {b}]
                  /\ UNCHANGED active
    /\ UNCHANGED <<policy, closed, starting, nextID, backends, marks, liveTurns, routing, world, spent>>

NothingFound(c) ==
    /\ proc[c].at = "read" /\ proc[c].pref = NoBackend /\ proc[c].todo = {}
    /\ End(c)
    /\ UNCHANGED <<policy, closed, starting, instances, routing, world, spent>>

\* Not found at the preferred instance drops the route, and takes a turn off
\* every instance's live turns; a retryable error moves on; another one returns.
Reading(c) ==
    LET x == proc[c].on
        b == proc[c].b
        first == proc[c].pref # NoBackend
        next == [proc EXCEPT ![c].at = "read", ![c].b = NoBackend, ![c].pref = NoBackend,
                             ![c].todo = (IF first THEN Visible ELSE @) \ {b}]
        missing == life[x][b] = "none"
    IN  /\ proc[c].at = "reading"
        /\ Release(b)
        /\ \/ /\ closes[b] = 0 /\ ~missing
              /\ proc' = [proc EXCEPT ![c].at = "found", ![c].ans = life[x][b]]
              /\ UNCHANGED <<route, liveTurns, marks, spent>>
           \/ /\ closes[b] = 0 /\ missing
              /\ route' = IF first THEN [route EXCEPT ![x] = NoBackend] ELSE route
              /\ liveTurns' = IF first /\ x \in Turns
                              THEN [d \in Backends |-> IF d \in backends THEN liveTurns[d] \ {x} ELSE liveTurns[d]]
                              ELSE liveTurns
              /\ proc' = next
              /\ UNCHANGED <<marks, spent>>
           \/ /\ MayFail(b)
              /\ marks' = ProbeMarks(b)
              /\ proc' \in {ProbeProc(next, b), ProbeProc([proc EXCEPT ![c] = At("idle")], b)}
              /\ spent' = Failed(b)
              /\ UNCHANGED <<route, liveTurns>>
        /\ UNCHANGED <<policy, closed, starting, nextID, backends, owner, recorded, world>>

\* The answer of a read is recorded; an update goes on with the route it left.
Found(c) ==
    LET x == proc[c].on
        b == proc[c].b
        left == Recorded(x, b, proc[c].ans)
    IN  /\ proc[c].at = "found"
        /\ route' = left
        /\ liveTurns' = RecordedTurns(x, b, proc[c].ans)
        /\ \/ /\ proc[c].op = "update" /\ left[x] # NoBackend
              /\ proc' = [proc EXCEPT ![c] = [At("existing") EXCEPT !.op = "update", !.on = x, !.pref = left[x]]]
           \/ /\ proc[c].op = "get" \/ left[x] = NoBackend
              /\ End(c)
        /\ UNCHANGED <<policy, closed, starting, nextID, backends, marks, active, owner, recorded, world, spent>>

ClientStep(c) ==
    \/ SettleClient(c) \/ ClosedToCaller(c) \/ AcquirePreferred(c) \/ AcquireReady(c)
    \/ AcquireStart(c) \/ Fresh(c) \/ Claim(c) \/ AcquireGiven(c) \/ Prepare(c)
    \/ CallReturns(c) \/ CallFails(c) \/ Record(c)
    \/ Read(c) \/ NothingFound(c) \/ Reading(c) \/ Found(c)

LifecycleStep(a) ==
    \/ StartBackend(a) \/ SettleEnsure(a) \/ SettleScaleOut(a)
    \/ EnsureMinReady(a) \/ Drain(a) \/ Remove(a) \/ CloseProvider(a)

HealthStep == \E b \in Backends : HealthCheck(b)

Environment ==
    \/ \E b \in Backends, m \in Faults : Fault(b, m)
    \/ \E t \in Turns, b \in Backends : TurnEnds(t, b)

Next ==
    \/ \E c \in Clients, x \in Sessions \cup Turns : BeginCreate(c, x)
    \/ \E c \in Clients, u \in Uses : BeginUse(c, u[1], u[2])
    \/ \E c \in Clients : ClientStep(c)
    \/ \E a \in Actors : LifecycleStep(a)
    \/ \E b \in Backends : SettleProactive(b) \/ DrainTimeout(b)
    \/ HealthStep \/ Close \/ CloseReturns \/ Environment

Spec == Init /\ [][Next]_vars

\* Goroutines run, calls of providers and starts return (they have deadlines),
\* the ticker ticks and drain timeouts pass.  Between two ticks there is finitely
\* much to do, so fairness to all of it together is fairness to every goroutine.
\* Callers, faults and Close may never come, and a turn may never end.
Work ==
    \/ \E c \in Clients : ClientStep(c)
    \/ \E a \in Actors \ {Health} : LifecycleStep(a)
    \/ \E b \in Backends : SettleProactive(b) \/ DrainTimeout(b)
    \/ CloseReturns

Fairness == WF_vars(Work) /\ WF_vars(LifecycleStep(Health) \/ HealthStep)

FairSpec == Spec /\ Fairness

-----------------------------------------------------------------------------
\* The pool never holds more instances that accept work than
\* maxReadyInstances, counting those being started: the callers, the health
\* loop, the replacements and the scale-outs all decide under the lock, and a
\* start that has joined the pool is still in p.starting until its starter has
\* taken the lock again.
Landed == {a \in Actors : proc[a].at = "settle" /\ proc[a].pref # NoBackend}
CapacityKept == Cardinality(Accepting) + starting - Cardinality(Landed) <= MaxReady

\* A provider is closed at most once, whoever drains its instance, and once
\* Close has returned every instance that ever joined the pool is closed and no
\* goroutine of the pool is left.
ClosedExactlyOnce ==
    /\ \A b \in Backends : closes[b] <= 1
    /\ proc[Closer].at = "done" => /\ \A b \in 1 .. nextID : closes[b] = 1
                                   /\ \A a \in Lifecycle : proc[a].at = "idle"

\* Every route names an instance of the pool, whatever is recorded while an
\* instance drains and is closed.
RoutesInPool == \A x \in Targets : route[x] # NoBackend => route[x] \in backends

\* A create key outlives its instance only if the instance was closed over a
\* call in flight, after its drain timeout.
KeysInPool == \A s \in Keyed : owner[s] # NoBackend => owner[s] \in backends \/ Is(owner[s], "late")

\* An instance leaves the pool before its drain timeout only when no call is
\* using it: active counts every caller that has acquired it, on every path.
Using(b) == {c \in Clients : proc[c].b = b /\ proc[c].at \in {"fresh", "claim", "prepare", "call", "reading"}}
DrainWaits ==
    [][\A b \in Backends : (Is(b, "closed")' /\ ~Is(b, "closed")) => (Is(b, "late") \/ Using(b) = {})]_vars

\* The creates of one key reach one open instance, so that its provider can
\* dedup them, as long as no preparation for that key has failed.
Holding(s) == {b \in Backends : life[s][b] # "none" /\ ~Is(b, "closed")}
OneOwner == \A s \in Keyed \ dropped : Cardinality(Holding(s)) <= 1

\* A draining instance is closed in the end.
DrainsEnd == \A b \in Backends : Is(b, "draining") ~> closes[b] = 1

\* With restarts allowed, an open pool gets back to its minimum and stays there
\* once the faults are over.
MinReadyRestored ==
    (policy = "always") => <>[](closed \/ Cardinality(Accepting) >= MinReady)

=============================================================================
