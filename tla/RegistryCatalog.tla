-------------------------- MODULE RegistryCatalog --------------------------
(***************************************************************************)
(* The registry objects of one app and the three programs that change       *)
(* them: publishers (StatelessPublishService.Finalize and Writer.Publish),  *)
(* version selection (Installer.install and its retention mirror) and       *)
(* `gestaltd app registry retention prune --config`, all of                 *)
(* gestaltd/internal/appregistry and gestaltd/internal/daemon.              *)
(*                                                                          *)
(* Each version has an artifact object and an entry object, both created    *)
(* once (DoesNotExist); index.json and retention.json are catalogs read     *)
(* with their generation and written on condition that it still holds.      *)
(* One step is one request to the object store or one store transaction.    *)
(* The uploads a declaration names are taken to be staged: a Finalize       *)
(* without them fails before it writes.  Selection and prune share the      *)
(* install lock of InstallLock and are taken to finish within its TTL; a    *)
(* holder that dies leaves it to expire.                                    *)
(***************************************************************************)
EXTENDS Integers, FiniteSets

CONSTANTS
    Versions,          \* versions of the app
    Declarations,      \* publish declarations
    VersionOf,         \* the version each declaration publishes
    Contents,          \* the digests that the declarations' artifacts may have
    Publishers,        \* clients, each publishing one declaration
    Declares,          \* the declaration of each client
    Seeded,            \* declarations published before the start
    Installed,         \* the version selected before the start, or None
    None,              \* no object, no row, no version
    UnusedRetention,   \* RetentionPolicy
    DeployedRetention, \* RetentionPolicy
    Attempts,          \* DefaultCatalogUpdateAttempts
    MaxTime,           \* bound of the clock
    MaxSelects,        \* bound on accepted selections
    MaxPrunes,         \* bound on prune commands
    MaxFaults          \* bound on crashes and lost requests

ASSUME CatalogConstants ==
    /\ VersionOf \in [Declarations -> Versions]
    /\ Declares \in [Publishers -> Declarations]
    /\ Seeded \subseteq Declarations
    /\ \A d, e \in Seeded : VersionOf[d] = VersionOf[e] => d = e
    /\ \A c \in Contents : DOMAIN c = Declarations
    /\ Installed \in {VersionOf[d] : d \in Seeded} \cup {None}
    /\ None \notin Versions
    /\ UnusedRetention \in Nat \ {0} /\ DeployedRetention \in Nat \ {0}
    /\ Attempts \in Nat \ {0}
    /\ {MaxTime, MaxSelects, MaxPrunes, MaxFaults} \subseteq Nat

VARIABLES
    clock,
    digest,     \* the artifact each declaration names
    artifact,   \* artifacts/{version}/: the digest stored, or None
    entry,      \* versions/{version}.json, or None
    index,      \* index.json with its generation
    retention,  \* retention.json with its generation
    desired,    \* the version of the latest change request, or None
    named,      \* versions that the change requests name
    lock,       \* who holds the app's install lock
    pub,        \* the Finalize call of each client
    sel,        \* the selection in progress
    prune,      \* the prune command in progress
    left,       \* what the bounds still allow
    answered,   \* declarations told "published" since their version was last pruned
    touched,    \* versions of which prune has deleted an object
    mirrored    \* the latest change request is in retention.json

objects == <<artifact, entry>>
requests == <<desired, named, mirrored>>
history == <<answered, touched>>
vars == <<clock, digest, objects, index, retention, requests, lock, pub, sel,
          prune, left, history>>

Never == -1   \* a nil expiresAt
Digests == UNION {{c[d] : d \in Declarations} : c \in Contents}

Stored == [decl : Declarations, at : Nat]
Row == [at : Nat, ever : BOOLEAN, expires : Nat \cup {Never}]
IndexFile == [gen : Nat, rows : [Versions -> Stored \cup {None}]]
RetentionFile == [gen : Nat, rows : [Versions -> Row \cup {None}]]
PruneActions == [version : Versions, kind : {"unused", "artifact"}]

ASSUME NoneIsNoValue == None \notin Row /\ None \notin Stored /\ None \notin Digests

\* The variables of a Finalize call, of a selection and of a prune command.
Call ==
    [pc : {"idle", "promote", "upload", "adopt", "retention", "putRetention",
           "index", "putIndex", "failed", "conflict", "settle"},
     at : Nat, stamp : Nat, seen : IndexFile \cup RetentionFile \cup {None},
     cas : 0..Attempts, tries : 0..Attempts]
Selection ==
    [pc : {"idle", "read", "write"}, from : Versions \cup {None}, to : Versions \cup {None},
     at : Nat, seen : RetentionFile \cup {None}, cas : 0..Attempts]
Command ==
    [pc : {"idle", "lock", "index", "retention", "check", "entry", "artifact",
           "putRetention", "putIndex", "done"},
     desired : Versions \cup {None}, now : Nat, deployed : SUBSET Versions,
     try : 0..Attempts, index : IndexFile \cup {None},
     retention : RetentionFile \cup {None}, todo : SUBSET PruneActions,
     target : Versions \cup {None}, out : SUBSET Versions, cleared : SUBSET Versions]

IdlePublisher ==
    [pc |-> "idle", at |-> 0, stamp |-> 0, seen |-> None, cas |-> 0, tries |-> 0]
IdleSelection == [pc |-> "idle", from |-> None, to |-> None, at |-> 0, seen |-> None, cas |-> 0]
IdlePrune ==
    [pc |-> "idle", desired |-> None, now |-> 0, deployed |-> {}, try |-> 0,
     index |-> None, retention |-> None, todo |-> {}, target |-> None,
     out |-> {}, cleared |-> {}]

TypeOK ==
    /\ clock \in 0..MaxTime
    /\ digest \in Contents
    /\ artifact \in [Versions -> Digests \cup {None}]
    /\ entry \in [Versions -> Stored \cup {None}]
    /\ index \in IndexFile
    /\ retention \in RetentionFile
    /\ desired \in Versions \cup {None}
    /\ named \subseteq Versions
    /\ lock \in {"free", "selection", "prune", "dead"}
    /\ pub \in [Publishers -> Call]
    /\ sel \in Selection
    /\ prune \in Command
    /\ left \in [selects : 0..MaxSelects, prunes : 0..MaxPrunes, faults : 0..MaxFaults]
    /\ answered \subseteq Declarations
    /\ touched \subseteq Versions
    /\ mirrored \in BOOLEAN

-----------------------------------------------------------------------------
(* The retention overlay (retention.go, retention_prune.go).               *)

UpsertRow(row, at) ==
    [at |-> at, ever |-> row # None /\ row.ever,
     expires |-> IF row # None /\ row.ever THEN row.expires ELSE at + UnusedRetention]

UpsertPublishedRetention(rows, v, at) == [rows EXCEPT ![v] = UpsertRow(@, at)]

RetentionUnchanged(rows, v, at) ==
    rows[v] # None /\ rows[v].at = at /\ rows[v].expires = at + UnusedRetention

Transitioned(row, now, expires) ==
    [at |-> IF row = None THEN now ELSE row.at, ever |-> TRUE, expires |-> expires]

ApplyDesiredVersionTransition(rows, from, to, now) ==
    LET left1 == [v \in Versions |->
                    IF v = from THEN Transitioned(rows[v], now, now + DeployedRetention)
                    ELSE rows[v]]
    IN  [left1 EXCEPT ![to] = Transitioned(@, now, Never)]

\* Variant: a row without a deadline counts as expired.
ExpiredOrUnset(row, now) == now >= row.expires

RetentionExpired(row, now) == row.expires # Never /\ now >= row.expires

\* VersionSelectable of a version that is not the desired one, and
\* RetryVersionSelectable of the one that is.
Selectable(v, rows, now) ==
    LET row == rows[v]
    IN  row # None =>
          IF row.ever \/ row.expires # Never THEN ~RetentionExpired(row, now)
          ELSE now < row.at + UnusedRetention

\* Variant: the change requests are not cross-checked.
EvaluateFromRetentionOnly(ix, rows, keep, deployed, now) ==
    LET expired == {v \in Versions \ {keep} : rows[v] # None /\ RetentionExpired(rows[v], now)}
    IN  [version : {v \in expired : ~rows[v].ever}, kind : {"unused"}]
          \cup [version : {v \in expired : rows[v].ever /\ ix[v] # None}, kind : {"artifact"}]

EvaluateRetentionPrune(ix, rows, keep, deployed, now) ==
    LET expired == {v \in Versions \ {keep} : rows[v] # None /\ RetentionExpired(rows[v], now)}
        ever == {v \in expired : rows[v].ever \/ v \in deployed}
    IN  [version : expired \ ever, kind : {"unused"}]
          \cup [version : {v \in ever : ix[v] # None}, kind : {"artifact"}]

ShouldApplyRetentionPruneAction(a, row, now) ==
    /\ row # None
    /\ row.ever = (a.kind = "artifact")
    /\ RetentionExpired(row, now)

-----------------------------------------------------------------------------
(* Publishing (publish_admin.go, publish_published.go, writer.go,          *)
(* catalog_cas.go).                                                        *)

V(p) == VersionOf[Declares[p]]

\* Variant: the identity of the stored entry is not verified.
PublishedByAnyone(d) ==
    entry[VersionOf[d]] # None /\ index.rows[VersionOf[d]] = entry[VersionOf[d]]

\* loadMatchingPublished finds the declaration published: the index row is
\* what its entry projects to, publishedAt included, and the entry is its own.
Published(d) ==
    LET v == VersionOf[d]
    IN  entry[v] # None /\ entry[v].decl = d /\ index.rows[v] = entry[v]

\* Variant: publishedAt is part of an entry's identity.
EntryMatchesExactly(d, at) == entry[VersionOf[d]] = [decl |-> d, at |-> at]

\* immutableObjectMatchesExisting of the entry: publishedAt is ignored.
EntryMatches(d, at) == entry[VersionOf[d]] # None /\ entry[VersionOf[d]].decl = d

ArtifactMatches(d) == artifact[VersionOf[d]] = digest[d]

\* Before the start the seeded declarations were published, one of them
\* perhaps selected, and nothing was interrupted.
Init ==
    LET seed(v) == CHOOSE d \in Seeded : VersionOf[d] = v
        seeded == {VersionOf[d] : d \in Seeded}
        fresh == [v \in Versions |-> IF v \in seeded THEN UpsertRow(None, 0) ELSE None]
    IN
    /\ clock = 0
    /\ digest \in Contents
    /\ artifact = [v \in Versions |-> IF v \in seeded THEN digest[seed(v)] ELSE None]
    /\ entry = [v \in Versions |-> IF v \in seeded THEN [decl |-> seed(v), at |-> 0] ELSE None]
    /\ index = [gen |-> IF Seeded = {} THEN 0 ELSE 1, rows |-> entry]
    /\ retention = [gen |-> index.gen,
                    rows |-> IF Installed = None THEN fresh
                             ELSE ApplyDesiredVersionTransition(fresh, None, Installed, 0)]
    /\ desired = Installed /\ named = {Installed} \ {None} /\ mirrored = TRUE
    /\ lock = "free"
    /\ pub = [p \in Publishers |-> IdlePublisher]
    /\ sel = IdleSelection
    /\ prune = IdlePrune
    /\ left = [selects |-> MaxSelects, prunes |-> MaxPrunes, faults |-> MaxFaults]
    /\ answered = Seeded
    /\ touched = {}

\* Finalize up to the writes: preparePublishAttempt and Preflight.  A version
\* that is indexed for another declaration, or whose objects are, is refused.
Prepare(p) ==
    LET d == Declares[p] IN
    /\ pub[p].pc = "idle"
    /\ index.rows[V(p)] = None
    /\ entry[V(p)] = None \/ EntryMatches(d, clock)
    /\ artifact[V(p)] = None \/ ArtifactMatches(d)
    /\ pub' = [pub EXCEPT ![p] = [IdlePublisher EXCEPT !.pc = "promote", !.at = clock]]
    /\ UNCHANGED <<clock, digest, objects, index, retention, requests, lock, sel, prune,
                   left, history>>

\* Finalize of what is already published answers at once.
AnswerAgain(p) ==
    /\ pub[p].pc = "idle"
    /\ Declares[p] \notin answered
    /\ Published(Declares[p])
    /\ answered' = answered \cup {Declares[p]}
    /\ UNCHANGED <<clock, digest, objects, index, retention, requests, lock, pub, sel,
                   prune, left, touched>>

\* promoteStagingArtifacts: the copy is made unless the same content is there.
Promote(p) ==
    LET fits == artifact[V(p)] = None \/ ArtifactMatches(Declares[p]) IN
    /\ pub[p].pc = "promote"
    /\ artifact' = [artifact EXCEPT ![V(p)] = IF fits THEN digest[Declares[p]] ELSE @]
    /\ pub' = [pub EXCEPT ![p] = IF fits THEN [@ EXCEPT !.pc = "upload"] ELSE IdlePublisher]
    /\ UNCHANGED <<clock, digest, entry, index, retention, requests, lock, sel, prune,
                   left, history>>

\* Writer.Publish returns an error: a conflict, or one that is not retried.
Fail(call, how) == [call EXCEPT !.pc = how, !.seen = None, !.cas = 0]

\* uploadImmutableObjects: an artifact that is gone has no local file to
\* restore it from, one that differs is a conflict, and so is another entry.
UploadObjects(p) ==
    LET d == Declares[p] IN
    /\ pub[p].pc = "upload"
    /\ \/ /\ ~ArtifactMatches(d)
          /\ pub' = [pub EXCEPT ![p] = Fail(@, IF artifact[V(p)] = None THEN "failed" ELSE "conflict")]
          /\ UNCHANGED entry
       \/ /\ ArtifactMatches(d)
          /\ entry[V(p)] = None
          /\ entry' = [entry EXCEPT ![V(p)] = [decl |-> d, at |-> pub[p].at]]
          /\ pub' = [pub EXCEPT ![p].pc = "retention", ![p].stamp = pub[p].at]
       \/ /\ ArtifactMatches(d)
          /\ entry[V(p)] # None
          /\ pub' = [pub EXCEPT ![p] =
                       IF EntryMatches(d, @.at) THEN [@ EXCEPT !.pc = "adopt"] ELSE Fail(@, "conflict")]
          /\ UNCHANGED entry
    /\ UNCHANGED <<clock, digest, artifact, index, retention, requests, lock, sel, prune,
                   left, history>>

\* Variant: a republish keeps its own clock.
AdoptNothing(p) ==
    /\ pub[p].pc = "adopt"
    /\ pub' = [pub EXCEPT ![p].pc = "retention", ![p].stamp = pub[p].at]
    /\ UNCHANGED <<clock, digest, objects, index, retention, requests, lock, sel, prune,
                   left, history>>

\* adoptStoredEntryPublishedAt, for this attempt only.
Adopt(p) ==
    /\ pub[p].pc = "adopt"
    /\ pub' = [pub EXCEPT ![p].pc = "retention",
                          ![p].stamp = IF entry[V(p)] = None THEN pub[p].at ELSE entry[V(p)].at]
    /\ UNCHANGED <<clock, digest, objects, index, retention, requests, lock, sel, prune,
                   left, history>>

\* The step of a compareAndSwapCatalog whose write was refused.
Conflicted(call, again) ==
    IF call.cas + 1 < Attempts
    THEN [call EXCEPT !.pc = again, !.cas = @ + 1, !.seen = None]
    ELSE Fail(call, "conflict")

\* Variant: the write does not name the generation.
WroteAnyway(file, seen, rows) == [gen |-> file.gen + 1, rows |-> rows]

\* The write of a catalog: with the generation that was read, or not at all.
Wrote(file, seen, rows) ==
    IF file.gen = seen.gen THEN [gen |-> file.gen + 1, rows |-> rows] ELSE file

ReadRetention(p) ==
    /\ pub[p].pc = "retention"
    /\ pub' = [pub EXCEPT ![p] =
                 IF RetentionUnchanged(retention.rows, V(p), @.stamp)
                 THEN [@ EXCEPT !.pc = "index", !.cas = 0]
                 ELSE [@ EXCEPT !.pc = "putRetention", !.seen = retention]]
    /\ UNCHANGED <<clock, digest, objects, index, retention, requests, lock, sel, prune,
                   left, history>>

PutRetention(p) ==
    /\ pub[p].pc = "putRetention"
    /\ retention' = Wrote(retention, pub[p].seen,
                          UpsertPublishedRetention(pub[p].seen.rows, V(p), pub[p].stamp))
    /\ pub' = [pub EXCEPT ![p] =
                 IF retention' # retention
                 THEN [@ EXCEPT !.pc = "index", !.cas = 0, !.seen = None]
                 ELSE Conflicted(@, "retention")]
    /\ UNCHANGED <<clock, digest, objects, index, requests, lock, sel, prune, left, history>>

\* UpsertAppIndex on what was read: a row of another declaration is a
\* conflict, one of this declaration is kept with its publishedAt.
IndexConflict(row, d) == row # None /\ row.decl # d

UpsertAppIndex(rows, d, at) == [rows EXCEPT ![VersionOf[d]] = [decl |-> d, at |-> at]]

\* Variant: an indexed version is replaced.
ReadIndexToReplace(p) ==
    /\ pub[p].pc = "index"
    /\ pub' = [pub EXCEPT ![p].pc = "putIndex", ![p].seen = index]
    /\ UNCHANGED <<clock, digest, objects, index, retention, requests, lock, sel, prune,
                   left, history>>

ReadIndex(p) ==
    LET row == index.rows[V(p)] IN
    /\ pub[p].pc = "index"
    /\ pub' = [pub EXCEPT ![p] =
                 IF IndexConflict(row, Declares[p]) THEN Fail(@, "conflict")
                 ELSE IF row # None THEN [@ EXCEPT !.pc = "settle", !.cas = 0]
                 ELSE [@ EXCEPT !.pc = "putIndex", !.seen = index]]
    /\ UNCHANGED <<clock, digest, objects, index, retention, requests, lock, sel, prune,
                   left, history>>

PutIndex(p) ==
    /\ pub[p].pc = "putIndex"
    /\ index' = Wrote(index, pub[p].seen,
                      UpsertAppIndex(pub[p].seen.rows, Declares[p], pub[p].stamp))
    /\ pub' = [pub EXCEPT ![p] =
                 IF index' # index
                 THEN [@ EXCEPT !.pc = "settle", !.cas = 0, !.seen = None]
                 ELSE Conflicted(@, "index")]
    /\ UNCHANGED <<clock, digest, objects, retention, requests, lock, sel, prune, left, history>>

\* Variant: conflicts are retried without limit.
RetryForever(p) ==
    /\ pub[p].pc \in {"failed", "conflict"}
    /\ pub' = [pub EXCEPT ![p] =
                 IF ~Published(Declares[p]) /\ @.pc = "conflict"
                 THEN [@ EXCEPT !.pc = "upload", !.tries = @ + 1]
                 ELSE [@ EXCEPT !.pc = "settle"]]
    /\ UNCHANGED <<clock, digest, objects, index, retention, requests, lock, sel, prune,
                   left, history>>

\* publishUntilIndexed after a failed Writer.Publish.
Retry(p) ==
    LET c == pub[p] IN
    /\ c.pc \in {"failed", "conflict"}
    /\ pub' = [pub EXCEPT ![p] =
                 IF ~Published(Declares[p]) /\ c.pc = "conflict" /\ c.tries + 1 < Attempts
                 THEN [c EXCEPT !.pc = "upload", !.tries = c.tries + 1]
                 ELSE [c EXCEPT !.pc = "settle"]]
    /\ UNCHANGED <<clock, digest, objects, index, retention, requests, lock, sel, prune,
                   left, history>>

\* The end of Finalize: what the registry now holds decides the answer, after
\* an index commit and after an error alike.
Settle(p) ==
    /\ pub[p].pc = "settle"
    /\ answered' = answered \cup (IF Published(Declares[p]) THEN {Declares[p]} ELSE {})
    /\ pub' = [pub EXCEPT ![p] = IdlePublisher]
    /\ UNCHANGED <<clock, digest, objects, index, retention, requests, lock, sel, prune,
                   left, touched>>

\* The process or its client goes away; a lost answer is the same.
PublisherCrash(p) ==
    /\ pub[p].pc # "idle"
    /\ left.faults > 0
    /\ left' = [left EXCEPT !.faults = @ - 1]
    /\ pub' = [pub EXCEPT ![p] = IdlePublisher]
    /\ UNCHANGED <<clock, digest, objects, index, retention, requests, lock, sel, prune, history>>

-----------------------------------------------------------------------------
(* Selecting a version (installer.go, gcs_retention_catalog_store.go).     *)

\* Admission under the lock, up to the change request that accepts it.  The
\* rollout it also creates is EnrollmentRollout's and HeartbeatRollout's.
Select(v) ==
    /\ lock = "free"
    /\ left.selects > 0
    /\ Selectable(v, retention.rows, clock)
    /\ entry[v] # None
    /\ lock' = "selection"
    /\ desired' = v
    /\ named' = named \cup {v}
    /\ mirrored' = FALSE
    /\ sel' = [IdleSelection EXCEPT !.pc = "read", !.from = desired, !.to = v, !.at = clock]
    /\ left' = [left EXCEPT !.selects = @ - 1]
    /\ UNCHANGED <<clock, digest, objects, index, retention, pub, prune, history>>

MirrorRead ==
    /\ sel.pc = "read"
    /\ sel' = [sel EXCEPT !.pc = "write", !.seen = retention]
    /\ UNCHANGED <<clock, digest, objects, index, retention, requests, lock, pub, prune,
                   left, history>>

\* MutateRetention; when its attempts are used up the selection succeeds
\* without the mirror.
MirrorWrite ==
    LET again == retention.gen # sel.seen.gen /\ sel.cas + 1 < Attempts IN
    /\ sel.pc = "write"
    /\ retention' = Wrote(retention, sel.seen,
                          ApplyDesiredVersionTransition(sel.seen.rows, sel.from, sel.to, sel.at))
    /\ mirrored' = (retention' # retention)
    /\ sel' = IF again THEN [sel EXCEPT !.pc = "read", !.cas = @ + 1, !.seen = None]
              ELSE IdleSelection
    /\ lock' = IF again THEN lock ELSE "free"
    /\ UNCHANGED <<clock, digest, objects, index, desired, named, pub, prune, left, history>>

\* The mirror's error is ignored, or the process dies before it.
MirrorLost ==
    /\ sel.pc # "idle"
    /\ left.faults > 0
    /\ left' = [left EXCEPT !.faults = @ - 1]
    /\ sel' = IdleSelection
    /\ lock' \in {"free", "dead"}
    /\ UNCHANGED <<clock, digest, objects, index, retention, requests, pub, prune, history>>

\* The TTL of a dead holder's lock.
LockExpires ==
    /\ lock = "dead"
    /\ lock' = "free"
    /\ UNCHANGED <<clock, digest, objects, index, retention, requests, pub, sel, prune,
                   left, history>>

-----------------------------------------------------------------------------
(* Pruning (daemon/app_registry_retention.go).                             *)

\* runAppRegistryRetentionPrune reads the desired version before it asks for
\* the lock.
PruneStart ==
    /\ prune.pc \in {"idle", "done"}
    /\ left.prunes > 0
    /\ left' = [left EXCEPT !.prunes = @ - 1]
    /\ prune' = [IdlePrune EXCEPT !.pc = "lock", !.desired = desired]
    /\ UNCHANGED <<clock, digest, objects, index, retention, requests, lock, pub, sel, history>>

PruneLock ==
    /\ prune.pc = "lock"
    /\ \/ /\ lock = "free"
          /\ lock' = "prune"
          /\ prune' = [prune EXCEPT !.pc = "index", !.now = clock, !.deployed = named, !.try = 1]
       \/ /\ lock # "free"
          /\ prune' = IdlePrune
          /\ UNCHANGED lock
    /\ UNCHANGED <<clock, digest, objects, index, retention, requests, pub, sel, left, history>>

PruneReadIndex ==
    /\ prune.pc = "index"
    /\ prune' = [prune EXCEPT !.pc = "retention", !.index = index, !.out = {}]
    /\ UNCHANGED <<clock, digest, objects, index, retention, requests, lock, pub, sel,
                   left, history>>

\* The command returns without an error; what it cleared is remembered.
PruneDone == [IdlePrune EXCEPT !.pc = "done", !.cleared = prune.cleared]

PruneReadRetention ==
    LET todo == EvaluateRetentionPrune(prune.index.rows, retention.rows, prune.desired,
                                       prune.deployed, prune.now)
    IN
    /\ prune.pc = "retention"
    /\ prune' = IF todo = {} THEN PruneDone
                ELSE [prune EXCEPT !.pc = "check", !.retention = retention, !.todo = todo]
    /\ lock' = IF todo = {} THEN "free" ELSE lock
    /\ UNCHANGED <<clock, digest, objects, index, retention, requests, pub, sel, left, history>>

\* The loop goes on, or writes the catalogs that have lost a version.
PruneNext(a) ==
    LET rest == prune.todo \ {a}
    IN  IF rest = {} /\ prune.out = {} THEN PruneDone
        ELSE [prune EXCEPT !.pc = IF rest # {} THEN "check" ELSE "putRetention",
                           !.todo = rest, !.target = None]

\* ApplyRetentionPruneAction on one of the local catalogs.
Without(file, v) == [gen |-> file.gen, rows |-> [file.rows EXCEPT ![v] = None]]

\* freshRetentionEntryForPrune: the row is read once more, and the local
\* catalogs lose the version before its objects do.
PruneCheck(a) ==
    /\ prune.pc = "check"
    /\ a \in prune.todo
    /\ IF ShouldApplyRetentionPruneAction(a, retention.rows[a.version], prune.now)
       THEN /\ prune' = IF a.kind = "unused"
                        THEN [prune EXCEPT !.pc = "entry", !.target = a.version,
                                           !.out = @ \cup {a.version},
                                           !.index = Without(@, a.version),
                                           !.retention = Without(@, a.version)]
                        ELSE [prune EXCEPT !.pc = "artifact", !.target = a.version]
            /\ UNCHANGED lock
       ELSE /\ prune' = PruneNext(a)
            /\ lock' = IF prune'.pc = "done" THEN "free" ELSE lock
    /\ UNCHANGED <<clock, digest, objects, index, retention, requests, pub, sel, left, history>>

PruneEntry ==
    /\ prune.pc = "entry"
    /\ entry' = [entry EXCEPT ![prune.target] = None]
    /\ prune' = [prune EXCEPT !.pc = "artifact", !.cleared = @ \cup {prune.target}]
    /\ touched' = touched \cup {prune.target}
    /\ answered' = {d \in answered : VersionOf[d] # prune.target}
    /\ UNCHANGED <<clock, digest, artifact, index, retention, requests, lock, pub, sel, left>>

PruneArtifact ==
    LET a == CHOOSE b \in prune.todo : b.version = prune.target IN
    /\ prune.pc = "artifact"
    /\ artifact' = [artifact EXCEPT ![prune.target] = None]
    /\ prune' = PruneNext(a)
    /\ lock' = IF prune'.pc = "done" THEN "free" ELSE lock
    /\ touched' = touched \cup {prune.target}
    /\ UNCHANGED <<clock, digest, entry, index, retention, requests, pub, sel, left, answered>>

\* A refused write starts the evaluation again while attempts are left.
PruneRefused ==
    IF prune.try < Attempts
    THEN [prune EXCEPT !.pc = "index", !.try = @ + 1, !.index = None, !.retention = None]
    ELSE IdlePrune

PrunePutRetention ==
    /\ prune.pc = "putRetention"
    /\ retention' = Wrote(retention, prune.retention, prune.retention.rows)
    /\ prune' = IF retention' # retention THEN [prune EXCEPT !.pc = "putIndex"] ELSE PruneRefused
    /\ lock' = IF prune'.pc = "idle" THEN "free" ELSE lock
    /\ UNCHANGED <<clock, digest, objects, index, requests, pub, sel, left, history>>

PrunePutIndex ==
    /\ prune.pc = "putIndex"
    /\ index' = Wrote(index, prune.index, prune.index.rows)
    /\ prune' = IF index' # index THEN PruneDone ELSE PruneRefused
    /\ lock' = IF prune'.pc \in {"idle", "done"} THEN "free" ELSE lock
    /\ UNCHANGED <<clock, digest, objects, retention, requests, pub, sel, left, history>>

PruneCrash ==
    /\ lock = "prune"
    /\ left.faults > 0
    /\ left' = [left EXCEPT !.faults = @ - 1]
    /\ prune' = IdlePrune
    /\ lock' = "dead"
    /\ UNCHANGED <<clock, digest, objects, index, retention, requests, pub, sel, history>>

-----------------------------------------------------------------------------
Tick ==
    /\ clock < MaxTime
    /\ clock' = clock + 1
    /\ UNCHANGED <<digest, objects, index, retention, requests, lock, pub, sel, prune, left, history>>

Publish(p) ==
    \/ Prepare(p) \/ AnswerAgain(p) \/ Promote(p) \/ UploadObjects(p) \/ Adopt(p)
    \/ ReadRetention(p) \/ PutRetention(p) \/ ReadIndex(p) \/ PutIndex(p)
    \/ Retry(p) \/ Settle(p)

Mirror == MirrorRead \/ MirrorWrite

Prune ==
    \/ PruneLock \/ PruneReadIndex \/ PruneReadRetention
    \/ (\E a \in prune.todo : PruneCheck(a))
    \/ PruneEntry \/ PruneArtifact \/ PrunePutRetention \/ PrunePutIndex

Next ==
    \/ \E p \in Publishers : Publish(p) \/ PublisherCrash(p)
    \/ \E v \in Versions : Select(v)
    \/ Mirror \/ MirrorLost \/ LockExpires
    \/ PruneStart \/ Prune \/ PruneCrash
    \/ Tick

Spec == Init /\ [][Next]_vars

-----------------------------------------------------------------------------
(* Properties.                                                             *)

\* The index is written last: a version that index.json lists, and that prune
\* has not touched, has the entry the row projects, the artifact its
\* declaration names and a retention row, whichever call or crash came between.
IndexedIsComplete ==
    \A v \in Versions \ touched :
        index.rows[v] # None =>
            /\ entry[v] = index.rows[v]
            /\ artifact[v] = digest[index.rows[v].decl]
            /\ retention.rows[v] # None

\* Of two declarations of one version at most one is ever answered
\* "published", unless prune has removed the version in between.
OneDeclarationPerVersion ==
    \A d, e \in answered : VersionOf[d] = VersionOf[e] => d = e

\* retention.json follows the deploy chain through every concurrent publish:
\* once the latest selection is mirrored the desired version has no deadline
\* and counts as deployed.
DesiredHasNoDeadline ==
    mirrored /\ desired # None =>
        /\ retention.rows[desired] # None
        /\ retention.rows[desired].ever
        /\ retention.rows[desired].expires = Never

\* No version's index row passes from one declaration to another: a published
\* version is immutable until prune removes it.
PublishedIsImmutable ==
    [][\A v \in Versions :
          index.rows[v] # None /\ index'.rows[v] # None =>
              index'.rows[v].decl = index.rows[v].decl]_vars

\* Prune keeps deploy history: no step removes the entry or the index row of a
\* version that a change request names, even when retention.json was never told.
DeployHistoryKept ==
    [][\A v \in named :
          /\ entry[v] # None => entry'[v] # None
          /\ index.rows[v] # None => index'.rows[v] # None]_vars

\* No step deletes the artifacts of the desired version once its selection is
\* mirrored, although prune read the desired version before it had the lock.
DesiredArtifactsKept ==
    [][mirrored /\ desired # None /\ artifact[desired] # None => artifact'[desired] # None]_vars

\* Identical finalize retries recover a partial publish: wherever Finalize was
\* interrupted, its client can begin again unless the version is published, has
\* gone to another declaration or was touched by prune.
InterruptedPublishResumes ==
    \A p \in Publishers :
        (pub[p].pc = "idle" /\ V(p) \notin touched /\ ~Published(Declares[p])
           /\ entry[V(p)] # None /\ entry[V(p)].decl = Declares[p])
        => ENABLED Prepare(p)

\* A prune that returned without an error has taken every version it cleared
\* out of index.json, whatever else was published meanwhile: none is listed
\* whose entry it deleted.  (Versions that some client publishes again are left
\* out.)
ClearedLeavesIndex ==
    prune.pc = "done" =>
        \A v \in prune.cleared \ {V(p) : p \in Publishers} :
            index.rows[v] # None => entry[v] # None

=============================================================================
