----------------------- MODULE RegistryCatalogProofs -----------------------
(***************************************************************************)
(* What publishers, selections and prune commands do to the registry of an  *)
(* app, for every number of versions, declarations and clients: no index    *)
(* row passes to another declaration, the entry and the index row of a      *)
(* version that was ever selected stay, and so do the artifacts and the     *)
(* missing deadline of the desired version; what the index lists is         *)
(* complete, and at most one declaration of a version is answered           *)
(* "published" until prune removes the version.                             *)
(*                                                                          *)
(* Beside the types, the invariant behind these says what each phase of a   *)
(* call, a selection and a command has read: a copy of the index whose      *)
(* generation is still current is the index, up to the rows prune took out, *)
(* and because prune and selection exclude each other the deployed versions *)
(* prune has listed are still all of them.  The desired version adds that a *)
(* copy of retention.json whose generation is current is retention.json     *)
(* (for prune, on the versions that change requests name), and that prune   *)
(* has never picked the desired version of a mirrored selection.            *)
(* Completeness adds, for the versions prune has not touched, that an entry *)
(* never loses the artifact it names, and that a call past its uploads      *)
(* works for an entry that is its own, retention.json before index.json.    *)
(***************************************************************************)
EXTENDS RegistryCatalog, TLAPS

(* The obligations are many and small; a slow machine may take its time. *)
USE ZenonT(60)

Evaluated == {"check", "entry", "artifact", "putRetention", "putIndex"}
Working == {"index", "retention"} \cup Evaluated

CallOK(p, c) ==
    /\ c.pc = "putRetention" => c.seen \in RetentionFile
    /\ c.pc = "putIndex" =>
          /\ c.seen \in IndexFile
          /\ c.seen.gen <= index.gen
          /\ c.seen.gen = index.gen => c.seen.rows = index.rows
          /\ c.seen.rows[V(p)] = None

SelectionOK ==
    /\ sel.pc # "idle" => sel.to \in Versions /\ lock = "selection"
    /\ sel.pc = "write" => sel.seen \in RetentionFile

\* The index that prune has read, and what it has taken out of it.
CopyOK ==
    /\ prune.index \in IndexFile
    /\ prune.index.gen <= index.gen
    /\ prune.index.gen = index.gen =>
          \A v \in Versions :
              \/ prune.index.rows[v] = index.rows[v]
              \/ prune.index.rows[v] = None /\ v \notin prune.deployed

CommandOK ==
    /\ prune.pc \in Working => lock = "prune" /\ prune.deployed = named
    /\ prune.pc \in {"retention"} \cup Evaluated => CopyOK
    /\ prune.pc \in Evaluated =>
          /\ prune.retention \in RetentionFile
          /\ \A a \in prune.todo : a.kind = "unused" => a.version \notin prune.deployed
    /\ prune.pc \in {"entry", "artifact"} =>
          /\ prune.target \in Versions
          /\ \E a \in prune.todo : a.version = prune.target
    /\ prune.pc = "entry" => prune.target \notin prune.deployed

CatalogInv ==
    /\ TypeOK
    /\ \A p \in Publishers : CallOK(p, pub[p])
    /\ SelectionOK
    /\ CommandOK

-----------------------------------------------------------------------------
(* The operators.                                                          *)

LEMMA IdleTypes ==
    IdlePublisher \in Call /\ IdleSelection \in Selection /\ IdlePrune \in Command
BY SMTT(60), CatalogConstants DEF IdlePublisher, IdleSelection, IdlePrune, Call, Selection, Command

\* The phase of a call changes, and its copy of a catalog with it.
LEMMA CallTypes ==
    ASSUME NEW call \in Call
    PROVE  /\ \A how \in {"failed", "conflict"} :
                 Fail(call, how) \in Call /\ Fail(call, how).pc = how
           /\ \A again \in {"retention", "index"} :
                 /\ Conflicted(call, again) \in Call
                 /\ Conflicted(call, again).pc \in {again, "conflict"}
<1>1. ASSUME NEW how \in {"failed", "conflict"}
      PROVE  Fail(call, how) \in Call /\ Fail(call, how).pc = how
  <2>1. 0 \in 0..Attempts
    BY SMTT(60), CatalogConstants
  <2> QED BY <2>1 DEF Call, Fail
<1>2. ASSUME NEW again \in {"retention", "index"}, call.cas + 1 < Attempts
      PROVE  Conflicted(call, again) \in Call /\ Conflicted(call, again).pc = again
  <2>1. call.cas + 1 \in 0..Attempts
    BY SMTT(60), <1>2, CatalogConstants DEF Call
  <2> QED BY <1>2, <2>1 DEF Call, Conflicted
<1>3. ASSUME NEW again, ~(call.cas + 1 < Attempts)
      PROVE  Conflicted(call, again) = Fail(call, "conflict")
  BY <1>3 DEF Conflicted
<1> QED BY <1>1, <1>2, <1>3

LEMMA UpsertTypes ==
    ASSUME NEW row \in Row \cup {None}, NEW at \in Nat
    PROVE  UpsertRow(row, at) \in Row
BY SMTT(60), CatalogConstants DEF UpsertRow, Row, Never

LEMMA TransitionTypes ==
    ASSUME NEW rows \in [Versions -> Row \cup {None}], NEW from, NEW to, NEW now \in Nat
    PROVE  ApplyDesiredVersionTransition(rows, from, to, now) \in [Versions -> Row \cup {None}]
<1>1. \A row \in Row \cup {None}, e \in Nat \cup {Never} : Transitioned(row, now, e) \in Row
  BY DEF Transitioned, Row, Never
<1>2. now + DeployedRetention \in Nat \cup {Never} /\ Never \in Nat \cup {Never}
  BY SMTT(60), CatalogConstants
<1> QED BY <1>1, <1>2 DEF ApplyDesiredVersionTransition

LEMMA WroteRetention ==
    ASSUME NEW file \in RetentionFile, NEW seen \in RetentionFile,
           NEW rows \in [Versions -> Row \cup {None}]
    PROVE  /\ Wrote(file, seen, rows) \in RetentionFile
           /\ Wrote(file, seen, rows) # file =>
                 /\ file.gen = seen.gen
                 /\ Wrote(file, seen, rows).gen = file.gen + 1
                 /\ Wrote(file, seen, rows).rows = rows
BY SMTT(60) DEF Wrote, RetentionFile

LEMMA WroteIndex ==
    ASSUME NEW file \in IndexFile, NEW seen \in IndexFile,
           NEW rows \in [Versions -> Stored \cup {None}]
    PROVE  /\ Wrote(file, seen, rows) \in IndexFile
           /\ Wrote(file, seen, rows) # file =>
                 /\ file.gen = seen.gen
                 /\ Wrote(file, seen, rows).gen = file.gen + 1
                 /\ Wrote(file, seen, rows).rows = rows
           /\ Wrote(file, seen, rows).gen >= file.gen
           /\ Wrote(file, seen, rows).gen = file.gen => Wrote(file, seen, rows) = file
BY SMTT(60) DEF Wrote, IndexFile

LEMMA VersionTypes ==
    /\ \A d \in Declarations : VersionOf[d] \in Versions
    /\ \A p \in Publishers : V(p) \in Versions /\ Declares[p] \in Declarations
BY CatalogConstants DEF V

-----------------------------------------------------------------------------
(* The initial states.                                                     *)

LEMMA InitCatalog == Init => CatalogInv
<1> SUFFICES ASSUME Init PROVE CatalogInv
  OBVIOUS
<1> DEFINE seed(v) == CHOOSE d \in Seeded : VersionOf[d] = v
           seeded == {VersionOf[d] : d \in Seeded}
           fresh == [v \in Versions |-> IF v \in seeded THEN UpsertRow(None, 0) ELSE None]
<1>1. \A v \in seeded : seed(v) \in Declarations
  BY CatalogConstants
<1>2. digest \in Contents /\ \A d \in Declarations : digest[d] \in Digests
  BY SMTT(60) DEF Init, Digests
<1>3. artifact \in [Versions -> Digests \cup {None}]
  <2>1. artifact = [v \in Versions |-> IF v \in seeded THEN digest[seed(v)] ELSE None]
    BY DEF Init
  <2> QED BY <1>1, <1>2, <2>1
<1>4. entry \in [Versions -> Stored \cup {None}]
  <2>1. entry = [v \in Versions |-> IF v \in seeded THEN [decl |-> seed(v), at |-> 0] ELSE None]
    BY DEF Init
  <2> QED BY <1>1, <2>1 DEF Stored
<1>5. index \in IndexFile
  BY <1>4 DEF Init, IndexFile
<1>6. retention \in RetentionFile
  <2>1. fresh \in [Versions -> Row \cup {None}]
    BY UpsertTypes
  <2>2. ApplyDesiredVersionTransition(fresh, None, Installed, 0) \in [Versions -> Row \cup {None}]
    BY <2>1, TransitionTypes
  <2>3. retention = [gen |-> index.gen,
                     rows |-> IF Installed = None THEN fresh
                              ELSE ApplyDesiredVersionTransition(fresh, None, Installed, 0)]
    BY DEF Init
  <2> QED BY <1>5, <2>1, <2>2, <2>3 DEF IndexFile, RetentionFile
<1>7. /\ desired \in Versions \cup {None} /\ named \subseteq Versions /\ touched \subseteq Versions
      /\ answered \subseteq Declarations /\ clock \in 0..MaxTime
      /\ left \in [selects : 0..MaxSelects, prunes : 0..MaxPrunes, faults : 0..MaxFaults]
      /\ lock \in {"free", "selection", "prune", "dead"}
  BY SMTT(60), CatalogConstants DEF Init
<1>8. pub \in [Publishers -> Call] /\ sel \in Selection /\ prune \in Command
  BY IdleTypes DEF Init
<1>9. mirrored \in BOOLEAN
  BY DEF Init
<1>10. TypeOK
  BY <1>2, <1>3, <1>4, <1>5, <1>6, <1>7, <1>8, <1>9 DEF TypeOK
<1>11. \A p \in Publishers : CallOK(p, pub[p])
  BY DEF Init, IdlePublisher, CallOK
<1>12. SelectionOK /\ CommandOK
  BY DEF Init, IdleSelection, IdlePrune, SelectionOK, CommandOK, Working, Evaluated
<1> QED BY <1>10, <1>11, <1>12 DEF CatalogInv

-----------------------------------------------------------------------------
(* The steps of a publisher.                                               *)

\* A step that moves one call to a proper state and writes no catalog.
LEMMA CallStep ==
    ASSUME CatalogInv, NEW p \in Publishers, NEW c \in Call, CallOK(p, c),
           pub' = [pub EXCEPT ![p] = c],
           artifact' \in [Versions -> Digests \cup {None}],
           entry' \in [Versions -> Stored \cup {None}],
           answered' \subseteq Declarations,
           left' \in [selects : 0..MaxSelects, prunes : 0..MaxPrunes, faults : 0..MaxFaults],
           UNCHANGED <<clock, digest, index, retention, requests, lock, sel, prune, touched>>
    PROVE  CatalogInv'
<1>1. TypeOK'
  BY DEF CatalogInv, TypeOK, requests
<1>2. \A q \in Publishers : CallOK(q, pub[q])'
  <2> SUFFICES ASSUME NEW q \in Publishers PROVE CallOK(q, pub[q])'
    OBVIOUS
  <2>1. pub'[q] = IF q = p THEN c ELSE pub[q]
    BY DEF CatalogInv, TypeOK
  <2>2. CallOK(q, pub[q])
    BY DEF CatalogInv
  <2> QED BY <2>1, <2>2 DEF CallOK, V
<1>3. SelectionOK' /\ CommandOK'
  BY DEF CatalogInv, SelectionOK, CommandOK, CopyOK, requests
<1> QED BY <1>1, <1>2, <1>3 DEF CatalogInv

\* Phases in which a call holds no catalog.
LEMMA CallHoldsNothing ==
    ASSUME NEW p, NEW c, c.pc \notin {"putRetention", "putIndex"}
    PROVE  CallOK(p, c)
BY DEF CallOK

LEMMA PublishQuietly ==
    ASSUME CatalogInv, NEW p \in Publishers,
           \/ Prepare(p) \/ AnswerAgain(p) \/ Promote(p) \/ UploadObjects(p) \/ Adopt(p)
           \/ ReadRetention(p) \/ ReadIndex(p) \/ Retry(p) \/ Settle(p) \/ PublisherCrash(p)
    PROVE  CatalogInv'
<1> DEFINE c == pub[p]
           Budgets == [selects : 0..MaxSelects, prunes : 0..MaxPrunes, faults : 0..MaxFaults]
<1>1. /\ TypeOK /\ c \in Call /\ V(p) \in Versions /\ Declares[p] \in Declarations
      /\ pub \in [Publishers -> Call] /\ clock \in Nat /\ digest[Declares[p]] \in Digests
  BY SMTT(60), VersionTypes, CatalogConstants DEF CatalogInv, TypeOK, Digests
<1>2. /\ artifact \in [Versions -> Digests \cup {None}]
      /\ entry \in [Versions -> Stored \cup {None}]
      /\ answered \subseteq Declarations /\ left \in Budgets
      /\ index \in IndexFile /\ retention \in RetentionFile
  BY <1>1 DEF TypeOK
<1>3. IdlePublisher \in Call /\ CallOK(p, IdlePublisher)
  BY IdleTypes DEF IdlePublisher, CallOK
<1>4. CASE Prepare(p)
  <2> DEFINE q == [IdlePublisher EXCEPT !.pc = "promote", !.at = clock]
  <2>1. q \in Call /\ q.pc = "promote"
    BY <1>1, <1>3 DEF Call, IdlePublisher
  <2>2. pub' = [pub EXCEPT ![p] = q]
    BY <1>4 DEF Prepare
  <2> HIDE DEF q
  <2>3. CallOK(p, q)
    BY <2>1, CallHoldsNothing
  <2> QED BY <1>2, <1>4, <2>1, <2>2, <2>3, CallStep DEF Prepare, objects, history
<1>5. CASE AnswerAgain(p)
  <2>1. pub' = [pub EXCEPT ![p] = c]
    BY <1>1, <1>5 DEF AnswerAgain
  <2>2. CallOK(p, c)
    BY DEF CatalogInv
  <2>3. answered' \subseteq Declarations
    BY <1>1, <1>2, <1>5 DEF AnswerAgain
  <2> HIDE DEF c
  <2> QED BY <1>1, <1>2, <1>5, <2>1, <2>2, <2>3, CallStep DEF AnswerAgain, objects
<1>6. CASE Promote(p)
  <2> DEFINE q == IF artifact[V(p)] = None \/ ArtifactMatches(Declares[p])
                  THEN [c EXCEPT !.pc = "upload"] ELSE IdlePublisher
  <2>1. q \in Call /\ q.pc \in {"upload", "idle"}
    BY <1>1, <1>3 DEF Call, IdlePublisher
  <2>2. pub' = [pub EXCEPT ![p] = q]
    BY <1>1, <1>6 DEF Promote
  <2>3. artifact' \in [Versions -> Digests \cup {None}]
    BY <1>1, <1>2, <1>6 DEF Promote
  <2> HIDE DEF q
  <2>4. CallOK(p, q)
    BY <2>1, CallHoldsNothing
  <2> QED BY <1>2, <1>6, <2>1, <2>2, <2>3, <2>4, CallStep DEF Promote, history
<1>7. CASE UploadObjects(p)
  <2>1. entry' \in [Versions -> Stored \cup {None}]
    BY SMTT(60), <1>1, <1>2, <1>7 DEF UploadObjects, Call, Stored
  <2>2. PICK q \in Call : pub' = [pub EXCEPT ![p] = q]
                            /\ q.pc \in {"failed", "conflict", "retention", "adopt"}
    <3>1. CASE ~ArtifactMatches(Declares[p])
      <4> DEFINE how == IF artifact[V(p)] = None THEN "failed" ELSE "conflict"
      <4>1. pub' = [pub EXCEPT ![p] = Fail(c, how)]
        BY <1>1, <1>7, <3>1 DEF UploadObjects
      <4> QED BY <1>1, <4>1, CallTypes
    <3>2. CASE ArtifactMatches(Declares[p]) /\ entry[V(p)] = None
      <4> DEFINE r == [c EXCEPT !.pc = "retention", !.stamp = c.at]
      <4>1. pub' = [pub EXCEPT ![p] = r]
        BY <1>1, <1>7, <3>2 DEF UploadObjects
      <4>2. r \in Call /\ r.pc = "retention"
        BY <1>1 DEF Call
      <4> QED BY <4>1, <4>2
    <3>3. CASE ArtifactMatches(Declares[p]) /\ entry[V(p)] # None
      <4> DEFINE r == IF EntryMatches(Declares[p], c.at) THEN [c EXCEPT !.pc = "adopt"]
                      ELSE Fail(c, "conflict")
      <4>1. pub' = [pub EXCEPT ![p] = r]
        BY <1>1, <1>7, <3>3 DEF UploadObjects
      <4>2. r \in Call /\ r.pc \in {"adopt", "conflict"}
        <5>1. [c EXCEPT !.pc = "adopt"] \in Call /\ [c EXCEPT !.pc = "adopt"].pc = "adopt"
          BY <1>1 DEF Call
        <5> QED BY <1>1, <5>1, CallTypes
      <4> QED BY <4>1, <4>2
    <3> QED BY <3>1, <3>2, <3>3
  <2>3. CallOK(p, q)
    BY <2>2, CallHoldsNothing
  <2> QED BY <1>2, <1>7, <2>1, <2>2, <2>3, CallStep DEF UploadObjects, history
<1>8. CASE Adopt(p)
  <2> DEFINE q == [c EXCEPT !.pc = "retention",
                            !.stamp = IF entry[V(p)] = None THEN c.at ELSE entry[V(p)].at]
  <2>1. q \in Call /\ q.pc = "retention"
    <3>1. (IF entry[V(p)] = None THEN c.at ELSE entry[V(p)].at) \in Nat
      BY <1>1, <1>2 DEF Call, Stored
    <3> QED BY <1>1, <3>1 DEF Call
  <2>2. pub' = [pub EXCEPT ![p] = q]
    BY <1>1, <1>8 DEF Adopt
  <2> HIDE DEF q
  <2>3. CallOK(p, q)
    BY <2>1, CallHoldsNothing
  <2> QED BY <1>2, <1>8, <2>1, <2>2, <2>3, CallStep DEF Adopt, objects, history
<1>9. CASE ReadRetention(p)
  <2> DEFINE q == IF RetentionUnchanged(retention.rows, V(p), c.stamp)
                  THEN [c EXCEPT !.pc = "index", !.cas = 0]
                  ELSE [c EXCEPT !.pc = "putRetention", !.seen = retention]
  <2>1. /\ q \in Call /\ q.pc \in {"index", "putRetention"}
        /\ q.pc = "putRetention" => q.seen = retention
    <3>1. 0 \in 0..Attempts
      BY SMTT(60), CatalogConstants
    <3>2. LET r == [c EXCEPT !.pc = "index", !.cas = 0] IN r \in Call /\ r.pc = "index"
      BY <1>1, <3>1 DEF Call
    <3>3. LET r == [c EXCEPT !.pc = "putRetention", !.seen = retention]
          IN  r \in Call /\ r.pc = "putRetention" /\ r.seen = retention
      BY <1>1, <1>2 DEF Call
    <3> QED BY <3>2, <3>3
  <2>2. pub' = [pub EXCEPT ![p] = q]
    BY <1>1, <1>9 DEF ReadRetention
  <2> HIDE DEF q
  <2>3. CallOK(p, q)
    BY <1>2, <2>1 DEF CallOK
  <2> QED BY <1>2, <1>9, <2>1, <2>2, <2>3, CallStep DEF ReadRetention, objects, history
<1>10. CASE ReadIndex(p)
  <2> DEFINE row == index.rows[V(p)]
             q == IF IndexConflict(row, Declares[p]) THEN Fail(c, "conflict")
                  ELSE IF row # None THEN [c EXCEPT !.pc = "settle", !.cas = 0]
                  ELSE [c EXCEPT !.pc = "putIndex", !.seen = index]
  <2>1. /\ q \in Call /\ q.pc \in {"conflict", "settle", "putIndex"}
        /\ q.pc = "putIndex" => q.seen = index /\ row = None
    <3>1. CASE IndexConflict(row, Declares[p])
      BY <1>1, <3>1, CallTypes
    <3>2. CASE ~IndexConflict(row, Declares[p])
      <4>1. 0 \in 0..Attempts
        BY SMTT(60), CatalogConstants
      <4>2. LET r == [c EXCEPT !.pc = "settle", !.cas = 0] IN r \in Call /\ r.pc = "settle"
        BY <1>1, <4>1 DEF Call
      <4>3. LET r == [c EXCEPT !.pc = "putIndex", !.seen = index]
            IN  r \in Call /\ r.pc = "putIndex" /\ r.seen = index
        BY <1>1, <1>2 DEF Call
      <4> QED BY <3>2, <4>2, <4>3
    <3> QED BY <3>1, <3>2
  <2>2. pub' = [pub EXCEPT ![p] = q]
    BY <1>1, <1>10 DEF ReadIndex
  <2> HIDE DEF q
  <2>3. CallOK(p, q)
    BY SMTT(60), <1>2, <2>1 DEF CallOK, IndexFile
  <2> QED BY <1>2, <1>10, <2>1, <2>2, <2>3, CallStep DEF ReadIndex, objects, history
<1>11. CASE Retry(p)
  <2> DEFINE q == IF ~Published(Declares[p]) /\ c.pc = "conflict" /\ c.tries + 1 < Attempts
                  THEN [c EXCEPT !.pc = "upload", !.tries = c.tries + 1]
                  ELSE [c EXCEPT !.pc = "settle"]
  <2>1. q \in Call /\ q.pc \in {"upload", "settle"}
    <3>1. c.tries + 1 < Attempts => c.tries + 1 \in 0..Attempts
      BY SMTT(60), <1>1, CatalogConstants DEF Call
    <3> QED BY <1>1, <3>1 DEF Call
  <2>2. pub' = [pub EXCEPT ![p] = q]
    BY <1>11 DEF Retry
  <2> HIDE DEF q
  <2>3. CallOK(p, q)
    BY <2>1, CallHoldsNothing
  <2> QED BY <1>2, <1>11, <2>1, <2>2, <2>3, CallStep DEF Retry, objects, history
<1>12. CASE Settle(p)
  <2>1. answered' \subseteq Declarations
    BY <1>1, <1>2, <1>12 DEF Settle
  <2> QED BY <1>2, <1>3, <1>12, <2>1, CallStep DEF Settle, objects
<1>13. CASE PublisherCrash(p)
  <2>1. left' \in Budgets
    BY SMTT(60), <1>2, <1>13, CatalogConstants DEF PublisherCrash
  <2> QED BY <1>2, <1>3, <1>13, <2>1, CallStep DEF PublisherCrash, objects, history
<1> QED BY <1>4, <1>5, <1>6, <1>7, <1>8, <1>9, <1>10, <1>11, <1>12, <1>13

\* A write of index.json leaves every copy read before it either current or
\* behind, so what the holders of the copies rely on stays true.
LEMMA OlderCopies ==
    ASSUME CatalogInv, index' \in IndexFile,
           index' = index \/ index'.gen = index.gen + 1
    PROVE  /\ \A p \in Publishers : CallOK(p, pub[p]) =>
                 /\ pub[p].pc = "putRetention" => pub[p].seen \in RetentionFile
                 /\ pub[p].pc = "putIndex" =>
                       /\ pub[p].seen \in IndexFile
                       /\ pub[p].seen.gen <= index'.gen
                       /\ pub[p].seen.gen = index'.gen => pub[p].seen.rows = index'.rows
                       /\ pub[p].seen.rows[V(p)] = None
           /\ CopyOK => /\ prune.index \in IndexFile
                        /\ prune.index.gen <= index'.gen
                        /\ prune.index.gen = index'.gen =>
                              \A v \in Versions :
                                  \/ prune.index.rows[v] = index'.rows[v]
                                  \/ prune.index.rows[v] = None /\ v \notin prune.deployed
<1>1. index \in IndexFile /\ index.gen \in Nat
  BY DEF CatalogInv, TypeOK, IndexFile
<1>2. \A f \in IndexFile : f.gen \in Nat
  BY DEF IndexFile
<1>3. \A p \in Publishers : CallOK(p, pub[p]) =>
                 /\ pub[p].pc = "putRetention" => pub[p].seen \in RetentionFile
                 /\ pub[p].pc = "putIndex" =>
                       /\ pub[p].seen \in IndexFile
                       /\ pub[p].seen.gen <= index'.gen
                       /\ pub[p].seen.gen = index'.gen => pub[p].seen.rows = index'.rows
                       /\ pub[p].seen.rows[V(p)] = None
  BY SMTT(60), <1>1, <1>2 DEF CallOK
<1> QED BY SMTT(60), <1>1, <1>2, <1>3 DEF CopyOK

LEMMA PublishCatalogs ==
    ASSUME CatalogInv, NEW p \in Publishers, PutRetention(p) \/ PutIndex(p)
    PROVE  CatalogInv'
<1> DEFINE c == pub[p]
<1>1. /\ TypeOK /\ c \in Call /\ V(p) \in Versions /\ Declares[p] \in Declarations
      /\ pub \in [Publishers -> Call] /\ CallOK(p, c) /\ c.stamp \in Nat
      /\ index \in IndexFile /\ retention \in RetentionFile
  BY VersionTypes DEF CatalogInv, TypeOK, Call
<1>2. 0 \in 0..Attempts
  BY SMTT(60), CatalogConstants
<1>3. CASE PutRetention(p)
  <2> DEFINE rows == UpsertPublishedRetention(c.seen.rows, V(p), c.stamp)
             q == IF retention' # retention
                  THEN [c EXCEPT !.pc = "index", !.cas = 0, !.seen = None]
                  ELSE Conflicted(c, "retention")
  <2>1. c.seen \in RetentionFile /\ c.seen.rows \in [Versions -> Row \cup {None}]
    BY <1>1, <1>3 DEF CallOK, PutRetention, RetentionFile
  <2>2. rows \in [Versions -> Row \cup {None}]
    <3>1. UpsertRow(c.seen.rows[V(p)], c.stamp) \in Row
      BY <1>1, <2>1, UpsertTypes
    <3> QED BY <1>1, <2>1, <3>1 DEF UpsertPublishedRetention
  <2>3. retention' \in RetentionFile
    <3>1. retention' = Wrote(retention, c.seen, rows)
      BY <1>3 DEF PutRetention
    <3> QED BY <1>1, <2>1, <2>2, <3>1, WroteRetention
  <2>4. q \in Call /\ q.pc \in {"index", "retention", "conflict"}
    <3>1. LET r == [c EXCEPT !.pc = "index", !.cas = 0, !.seen = None]
          IN  r \in Call /\ r.pc = "index"
      BY <1>1, <1>2 DEF Call
    <3>2. Conflicted(c, "retention") \in Call
          /\ Conflicted(c, "retention").pc \in {"retention", "conflict"}
      BY <1>1, CallTypes
    <3> QED BY <3>1, <3>2
  <2>5. pub' = [pub EXCEPT ![p] = q]
    BY <1>1, <1>3 DEF PutRetention
  <2>6. UNCHANGED <<clock, digest, artifact, entry, index, desired, named, mirrored, lock, sel, prune,
                    left, answered, touched>>
    BY <1>3 DEF PutRetention, objects, requests, history
  <2> HIDE DEF q, rows
  <2>7. TypeOK'
    BY <1>1, <2>3, <2>4, <2>5, <2>6 DEF TypeOK
  <2>8. ASSUME NEW r \in Publishers PROVE CallOK(r, pub[r])'
    <3>1. pub'[r] = IF r = p THEN q ELSE pub[r]
      BY <1>1, <2>5
    <3>2. CallOK(r, pub[r])
      BY DEF CatalogInv
    <3> QED BY <2>4, <2>6, <3>1, <3>2 DEF CallOK, V
  <2>9. SelectionOK' /\ CommandOK'
    BY <2>6 DEF CatalogInv, SelectionOK, CommandOK, CopyOK
  <2> QED BY <2>7, <2>8, <2>9 DEF CatalogInv
<1>4. CASE PutIndex(p)
  <2> DEFINE rows == UpsertAppIndex(c.seen.rows, Declares[p], c.stamp)
             q == IF index' # index
                  THEN [c EXCEPT !.pc = "settle", !.cas = 0, !.seen = None]
                  ELSE Conflicted(c, "index")
  <2>1. c.seen \in IndexFile /\ c.seen.rows \in [Versions -> Stored \cup {None}]
    BY <1>1, <1>4 DEF CallOK, PutIndex, IndexFile
  <2>2. rows \in [Versions -> Stored \cup {None}]
    BY <1>1, <2>1 DEF UpsertAppIndex, Stored
  <2>3. index' \in IndexFile /\ (index' = index \/ index'.gen = index.gen + 1)
    <3>1. index' = Wrote(index, c.seen, rows)
      BY <1>4 DEF PutIndex
    <3> QED BY <1>1, <2>1, <2>2, <3>1, WroteIndex
  <2>4. q \in Call /\ q.pc \in {"settle", "index", "conflict"}
    <3>1. LET r == [c EXCEPT !.pc = "settle", !.cas = 0, !.seen = None]
          IN  r \in Call /\ r.pc = "settle"
      BY <1>1, <1>2 DEF Call
    <3>2. Conflicted(c, "index") \in Call
          /\ Conflicted(c, "index").pc \in {"index", "conflict"}
      BY <1>1, CallTypes
    <3> QED BY <3>1, <3>2
  <2>5. pub' = [pub EXCEPT ![p] = q]
    BY <1>1, <1>4 DEF PutIndex
  <2>6. UNCHANGED <<clock, digest, artifact, entry, retention, desired, named, mirrored, lock, sel,
                    prune, left, answered, touched>>
    BY <1>4 DEF PutIndex, objects, requests, history
  <2> HIDE DEF q, rows
  <2>7. TypeOK'
    BY <1>1, <2>3, <2>4, <2>5, <2>6 DEF TypeOK
  <2>8. ASSUME NEW r \in Publishers PROVE CallOK(r, pub[r])'
    <3>1. pub'[r] = IF r = p THEN q ELSE pub[r]
      BY <1>1, <2>5
    <3>2. CallOK(r, pub[r])
      BY DEF CatalogInv
    <3>3. CASE r = p
      BY <2>4, <3>1, <3>3 DEF CallOK
    <3>4. CASE r # p
      BY <2>3, <3>1, <3>2, <3>4, OlderCopies DEF CallOK, V
    <3> QED BY <3>3, <3>4
  <2>9. SelectionOK'
    BY <2>6 DEF CatalogInv, SelectionOK
  <2>10. CommandOK'
    <3>1. CommandOK
      BY DEF CatalogInv
    <3>2. CopyOK => CopyOK'
      BY <2>3, <2>6, OlderCopies DEF CopyOK
    <3> QED BY <2>6, <3>1, <3>2 DEF CommandOK
  <2> QED BY <2>7, <2>8, <2>9, <2>10 DEF CatalogInv
<1> QED BY <1>3, <1>4

-----------------------------------------------------------------------------
(* Selection, the lock and the clock.                                      *)

LEMMA CallsKept ==
    ASSUME CatalogInv, UNCHANGED <<pub, index>>
    PROVE  (\A p \in Publishers : CallOK(p, pub[p]))'
BY DEF CatalogInv, CallOK, V

\* Without the lock no command is at work, so nothing is asked of it.
LEMMA CommandResting ==
    ASSUME CatalogInv, lock # "prune", UNCHANGED prune
    PROVE  CommandOK'
BY DEF CatalogInv, CommandOK, Working, Evaluated

LEMMA SelectionSteps ==
    ASSUME CatalogInv,
           \/ \E v \in Versions : Select(v)
           \/ MirrorRead \/ MirrorWrite \/ MirrorLost \/ LockExpires \/ Tick
    PROVE  CatalogInv'
<1> DEFINE Budgets == [selects : 0..MaxSelects, prunes : 0..MaxPrunes, faults : 0..MaxFaults]
<1>1. /\ TypeOK /\ SelectionOK /\ clock \in Nat /\ sel \in Selection /\ left \in Budgets
      /\ retention \in RetentionFile
  BY SMTT(60) DEF CatalogInv, TypeOK
<1>2. IdleSelection \in Selection /\ IdleSelection.pc = "idle"
  BY IdleTypes DEF IdleSelection
<1>3. ASSUME NEW v \in Versions, Select(v) PROVE CatalogInv'
  <2> DEFINE s == [IdleSelection EXCEPT !.pc = "read", !.from = desired, !.to = v, !.at = clock]
  <2>1. s \in Selection /\ s.pc = "read" /\ s.to = v
    BY <1>1, <1>2 DEF Selection, IdleSelection, TypeOK
  <2>2. sel' = s /\ lock = "free" /\ lock' = "selection" /\ desired' = v
        /\ named' = named \cup {v} /\ mirrored' = FALSE
    BY <1>3 DEF Select
  <2> HIDE DEF s
  <2>3. left' \in Budgets
    <3>1. left.selects - 1 \in 0..MaxSelects
      <4>1. left.selects > 0
        BY <1>3 DEF Select
      <4>2. left.selects \in 0..MaxSelects /\ MaxSelects \in Nat
        BY <1>1, CatalogConstants
      <4> QED BY SMTT(60), <4>1, <4>2
    <3>2. left' = [left EXCEPT !.selects = left.selects - 1]
      BY <1>1, <1>3 DEF Select
    <3> QED BY <1>1, <3>1, <3>2
  <2>4. UNCHANGED <<clock, digest, artifact, entry, index, retention, pub, prune, answered, touched>>
    BY <1>3 DEF Select, objects, history
  <2>5. TypeOK'
    BY <1>1, <2>1, <2>2, <2>3, <2>4 DEF TypeOK
  <2>6. SelectionOK'
    BY <1>3, <2>1, <2>2 DEF SelectionOK
  <2>7. CommandOK'
    BY <2>2, <2>4, CommandResting
  <2> QED BY <2>4, <2>5, <2>6, <2>7, CallsKept DEF CatalogInv
<1>4. CASE MirrorRead
  <2>1. sel' \in Selection /\ sel'.pc = "write" /\ sel'.to = sel.to /\ sel'.seen = retention
    BY <1>1, <1>4 DEF MirrorRead, Selection
  <2>2. UNCHANGED <<clock, digest, artifact, entry, index, retention, desired, named, mirrored, lock,
                    pub, prune, left, answered, touched>>
    BY <1>4 DEF MirrorRead, objects, requests, history
  <2>3. TypeOK'
    BY <1>1, <2>1, <2>2 DEF TypeOK
  <2>4. sel.pc # "idle"
    BY <1>4 DEF MirrorRead
  <2>5. SelectionOK'
    BY <1>1, <2>1, <2>2, <2>4 DEF SelectionOK
  <2>6. CommandOK'
    BY <1>1, <2>2, <2>4, CommandResting DEF SelectionOK
  <2> QED BY <2>2, <2>3, <2>5, <2>6, CallsKept DEF CatalogInv
<1>5. CASE MirrorWrite
  <2> DEFINE again == retention.gen # sel.seen.gen /\ sel.cas + 1 < Attempts
             back == [sel EXCEPT !.pc = "read", !.cas = sel.cas + 1, !.seen = None]
             rows == ApplyDesiredVersionTransition(sel.seen.rows, sel.from, sel.to, sel.at)
  <2>1. sel.pc = "write" /\ lock = "selection" /\ sel.to \in Versions /\ sel.seen \in RetentionFile
    BY <1>1, <1>5 DEF MirrorWrite, SelectionOK
  <2>2. retention' \in RetentionFile
    <3>1. sel.seen.rows \in [Versions -> Row \cup {None}] /\ sel.at \in Nat
      BY <1>1, <2>1 DEF RetentionFile, Selection
    <3>2. rows \in [Versions -> Row \cup {None}]
      BY <3>1, TransitionTypes
    <3>3. retention' = Wrote(retention, sel.seen, rows)
      BY <1>5 DEF MirrorWrite
    <3> QED BY <1>1, <2>1, <3>2, <3>3, WroteRetention
  <2>3. ASSUME again PROVE back \in Selection /\ back.pc = "read" /\ back.to = sel.to
    <3>1. sel.cas + 1 \in 0..Attempts
      BY SMTT(60), <1>1, <2>3, CatalogConstants DEF Selection
    <3> QED BY <1>1, <3>1 DEF Selection
  <2>4. sel' = (IF again THEN back ELSE IdleSelection) /\ lock' = (IF again THEN lock ELSE "free")
    BY <1>1, <1>5 DEF MirrorWrite, Selection
  <2>5. UNCHANGED <<clock, digest, artifact, entry, index, desired, named, pub, prune, left, answered,
                    touched>>
    BY <1>5 DEF MirrorWrite, objects, history
  <2>6. mirrored' \in BOOLEAN
    BY <1>5 DEF MirrorWrite
  <2> HIDE DEF again, back
  <2>7. sel' \in Selection /\ lock' \in {"free", "selection"}
    BY <1>2, <2>1, <2>3, <2>4
  <2>8. TypeOK'
    BY <1>1, <2>2, <2>5, <2>6, <2>7 DEF TypeOK
  <2>9. SelectionOK'
    BY <1>2, <2>1, <2>3, <2>4 DEF SelectionOK
  <2>10. CommandOK'
    BY <2>1, <2>5, CommandResting
  <2> QED BY <2>5, <2>8, <2>9, <2>10, CallsKept DEF CatalogInv
<1>6. CASE MirrorLost
  <2>1. sel' = IdleSelection /\ lock = "selection" /\ lock' \in {"free", "dead"}
    BY <1>1, <1>6 DEF MirrorLost, SelectionOK
  <2>2. left' \in Budgets
    BY SMTT(60), <1>1, <1>6, CatalogConstants DEF MirrorLost
  <2>3. UNCHANGED <<clock, digest, artifact, entry, index, retention, desired, named, mirrored,
                    pub, prune, answered, touched>>
    BY <1>6 DEF MirrorLost, objects, requests, history
  <2>4. TypeOK'
    BY <1>1, <1>2, <2>1, <2>2, <2>3 DEF TypeOK
  <2>5. SelectionOK'
    BY <1>2, <2>1 DEF SelectionOK
  <2>6. CommandOK'
    BY <2>1, <2>3, CommandResting
  <2> QED BY <2>3, <2>4, <2>5, <2>6, CallsKept DEF CatalogInv
<1>7. CASE LockExpires
  <2>1. UNCHANGED <<clock, digest, artifact, entry, index, retention, desired, named, mirrored,
                    pub, sel, prune, left, answered, touched>>
    BY <1>7 DEF LockExpires, objects, requests, history
  <2>2. TypeOK' /\ SelectionOK'
    BY <1>1, <1>7, <2>1 DEF TypeOK, SelectionOK, LockExpires
  <2>3. CommandOK'
    BY <1>7, <2>1, CommandResting DEF LockExpires
  <2> QED BY <2>1, <2>2, <2>3, CallsKept DEF CatalogInv
<1>8. CASE Tick
  <2>1. UNCHANGED <<digest, artifact, entry, index, retention, desired, named, mirrored, lock,
                    pub, sel, prune, left, answered, touched>>
    BY <1>8 DEF Tick, objects, requests, history
  <2>2. clock' \in 0..MaxTime
    BY SMTT(60), <1>1, <1>8, CatalogConstants DEF Tick, TypeOK
  <2>3. TypeOK'
    BY <1>1, <2>1, <2>2 DEF TypeOK
  <2>4. SelectionOK' /\ CommandOK'
    BY <2>1 DEF CatalogInv, SelectionOK, CommandOK, CopyOK
  <2> QED BY <2>1, <2>3, <2>4, CallsKept DEF CatalogInv
<1> QED BY <1>3, <1>4, <1>5, <1>6, <1>7, <1>8

-----------------------------------------------------------------------------
(* Prune.                                                                  *)

\* What a step of the command has to show: its new state is proper, and the
\* lock is left to a selection that holds it.
LEMMA CommandStep ==
    ASSUME CatalogInv, prune' \in Command, CommandOK',
           artifact' \in [Versions -> Digests \cup {None}],
           entry' \in [Versions -> Stored \cup {None}],
           retention' \in RetentionFile,
           index' \in IndexFile, index' = index \/ index'.gen = index.gen + 1,
           lock' \in {"free", "selection", "prune", "dead"},
           lock = "selection" => lock' = lock,
           left' \in [selects : 0..MaxSelects, prunes : 0..MaxPrunes, faults : 0..MaxFaults],
           answered' \subseteq Declarations, touched' \subseteq Versions,
           UNCHANGED <<clock, digest, desired, named, mirrored, pub, sel>>
    PROVE  CatalogInv'
<1>1. TypeOK'
  BY DEF CatalogInv, TypeOK
<1>2. \A p \in Publishers : CallOK(p, pub[p])'
  <2> SUFFICES ASSUME NEW p \in Publishers PROVE CallOK(p, pub[p])'
    OBVIOUS
  <2>1. CallOK(p, pub[p])
    BY DEF CatalogInv
  <2> QED BY <2>1, OlderCopies DEF CallOK, V
<1>3. SelectionOK'
  BY DEF CatalogInv, SelectionOK
<1> QED BY <1>1, <1>2, <1>3 DEF CatalogInv

\* A command that is not at work, or has only the lock and the deployed versions.
LEMMA CommandStarting ==
    ASSUME \/ prune'.pc \in {"idle", "lock", "done"}
           \/ /\ prune'.pc = "index"
              /\ lock' = "prune"
              /\ prune'.deployed = named'
    PROVE  CommandOK'
BY DEF CommandOK, Working, Evaluated

LEMMA EvaluationTypes ==
    ASSUME NEW ix, NEW rows, NEW keep, NEW deployed, NEW now
    PROVE  LET todo == EvaluateRetentionPrune(ix, rows, keep, deployed, now)
           IN  /\ todo \subseteq PruneActions
               /\ \A a \in todo : a.kind = "unused" => a.version \notin deployed
BY DEF EvaluateRetentionPrune, PruneActions

LEMMA EndTypes ==
    ASSUME prune \in Command
    PROVE  /\ PruneDone \in Command /\ PruneDone.pc = "done"
           /\ PruneRefused \in Command
           /\ \/ PruneRefused.pc = "idle"
              \/ PruneRefused.pc = "index" /\ PruneRefused.deployed = prune.deployed
<1>1. PruneDone \in Command /\ PruneDone.pc = "done"
  BY IdleTypes DEF PruneDone, IdlePrune, Command
<1>2. CASE prune.try < Attempts
  <2>1. prune.try + 1 \in 0..Attempts
    BY SMTT(60), <1>2, CatalogConstants DEF Command
  <2>2. PruneRefused = [prune EXCEPT !.pc = "index", !.try = prune.try + 1, !.index = None,
                                     !.retention = None]
    BY <1>2 DEF PruneRefused, Command
  <2> QED BY <1>1, <2>1, <2>2 DEF Command
<1>3. CASE ~(prune.try < Attempts)
  BY <1>1, <1>3, IdleTypes DEF PruneRefused, IdlePrune
<1> QED BY <1>2, <1>3

LEMMA NextActionTypes ==
    ASSUME prune \in Command, CommandOK, prune.pc \in Evaluated, NEW a
    PROVE  /\ PruneNext(a) \in Command
           /\ \/ PruneNext(a).pc = "done"
              \/ /\ PruneNext(a).pc \in {"check", "putRetention"}
                 /\ PruneNext(a).index = prune.index
                 /\ PruneNext(a).deployed = prune.deployed
                 /\ PruneNext(a).retention = prune.retention
                 /\ PruneNext(a).todo \subseteq prune.todo
<1> DEFINE rest == prune.todo \ {a}
           q == [prune EXCEPT !.pc = IF rest # {} THEN "check" ELSE "putRetention",
                              !.todo = rest, !.target = None]
<1>1. CASE rest = {} /\ prune.out = {}
  BY <1>1, EndTypes DEF PruneNext
<1>2. CASE ~(rest = {} /\ prune.out = {})
  <2>1. PruneNext(a) = q
    BY <1>2 DEF PruneNext
  <2>2. /\ q \in Command /\ q.pc \in {"check", "putRetention"} /\ q.index = prune.index
        /\ q.deployed = prune.deployed /\ q.retention = prune.retention /\ q.todo = rest
    BY DEF Command
  <2> QED BY <2>1, <2>2
<1> QED BY <1>1, <1>2

LEMMA PruneSteps ==
    ASSUME CatalogInv, PruneStart \/ Prune \/ PruneCrash
    PROVE  CatalogInv'
<1> DEFINE Budgets == [selects : 0..MaxSelects, prunes : 0..MaxPrunes, faults : 0..MaxFaults]
<1>1. /\ TypeOK /\ CommandOK /\ prune \in Command /\ left \in Budgets
      /\ index \in IndexFile /\ retention \in RetentionFile
      /\ artifact \in [Versions -> Digests \cup {None}]
      /\ entry \in [Versions -> Stored \cup {None}]
      /\ lock \in {"free", "selection", "prune", "dead"}
      /\ answered \subseteq Declarations /\ touched \subseteq Versions
      /\ clock \in Nat /\ desired \in Versions \cup {None} /\ named \subseteq Versions
  BY SMTT(60) DEF CatalogInv, TypeOK
<1>2. IdlePrune \in Command /\ IdlePrune.pc = "idle"
  BY IdleTypes DEF IdlePrune
<1>3. CASE PruneStart
  <2>1. prune' \in Command /\ prune'.pc = "lock"
    BY <1>1, <1>2, <1>3 DEF PruneStart, Command, IdlePrune
  <2>2. left' \in Budgets
    <3>1. left.prunes - 1 \in 0..MaxPrunes
      <4>1. left.prunes > 0
        BY <1>3 DEF PruneStart
      <4>2. left.prunes \in 0..MaxPrunes /\ MaxPrunes \in Nat
        BY <1>1, CatalogConstants
      <4> QED BY SMTT(60), <4>1, <4>2
    <3> QED BY <1>1, <1>3, <3>1 DEF PruneStart
  <2>3. CommandOK'
    BY <2>1, CommandStarting
  <2>4. UNCHANGED <<clock, digest, artifact, entry, index, retention, desired, named, mirrored, lock,
                    pub, sel, answered, touched>>
    BY <1>3 DEF PruneStart, objects, requests, history
  <2> QED BY <1>1, <2>1, <2>2, <2>3, <2>4, CommandStep
<1>4. CASE PruneLock
  <2>1. UNCHANGED <<clock, digest, artifact, entry, index, retention, desired, named, mirrored,
                    pub, sel, left, answered, touched>>
    BY <1>4 DEF PruneLock, objects, requests, history
  <2>2. CASE lock = "free"
    <3>1. 1 \in 0..Attempts
      BY SMTT(60), CatalogConstants
    <3>2. /\ prune' = [prune EXCEPT !.pc = "index", !.now = clock, !.deployed = named, !.try = 1]
          /\ lock' = "prune"
      BY <1>4, <2>2 DEF PruneLock
    <3>3. prune' \in Command /\ prune'.pc = "index" /\ prune'.deployed = named
      BY <1>1, <3>1, <3>2 DEF Command
    <3>4. CommandOK'
      BY <2>1, <3>2, <3>3, CommandStarting
    <3> QED BY <1>1, <2>1, <2>2, <3>2, <3>3, <3>4, CommandStep
  <2>3. CASE lock # "free"
    <3>1. prune' = IdlePrune /\ lock' = lock
      BY <1>4, <2>3 DEF PruneLock
    <3>2. CommandOK'
      BY <1>2, <3>1, CommandStarting
    <3> QED BY <1>1, <1>2, <2>1, <3>1, <3>2, CommandStep
  <2> QED BY <2>2, <2>3
<1>5. CASE PruneReadIndex
  <2>1. UNCHANGED <<clock, digest, artifact, entry, index, retention, desired, named, mirrored, lock,
                    pub, sel, left, answered, touched>>
    BY <1>5 DEF PruneReadIndex, objects, requests, history
  <2>2. /\ prune' \in Command /\ prune'.pc = "retention" /\ prune'.index = index
        /\ prune'.deployed = prune.deployed
    BY <1>1, <1>5 DEF PruneReadIndex, Command
  <2>3. lock = "prune" /\ prune.deployed = named
    BY <1>1, <1>5 DEF PruneReadIndex, CommandOK, Working
  <2>4. CommandOK'
    BY SMTT(60), <1>1, <2>1, <2>2, <2>3 DEF CommandOK, CopyOK, Working, Evaluated, IndexFile
  <2> QED BY <1>1, <2>1, <2>2, <2>4, CommandStep
<1>6. CASE PruneReadRetention
  <2> DEFINE todo == EvaluateRetentionPrune(prune.index.rows, retention.rows, prune.desired,
                                            prune.deployed, prune.now)
             q == [prune EXCEPT !.pc = "check", !.retention = retention, !.todo = todo]
  <2>1. UNCHANGED <<clock, digest, artifact, entry, index, retention, desired, named, mirrored,
                    pub, sel, left, answered, touched>>
    BY <1>6 DEF PruneReadRetention, objects, requests, history
  <2>2. lock = "prune" /\ prune.deployed = named /\ CopyOK
    BY <1>1, <1>6 DEF PruneReadRetention, CommandOK, Working
  <2>3. /\ prune' = IF todo = {} THEN PruneDone ELSE q
        /\ lock' = IF todo = {} THEN "free" ELSE lock
    BY <1>6 DEF PruneReadRetention
  <2>4. /\ todo \subseteq PruneActions
        /\ \A a \in todo : a.kind = "unused" => a.version \notin prune.deployed
    BY EvaluationTypes
  <2> HIDE DEF todo
  <2>5. CASE todo = {}
    <3>1. CommandOK'
      BY <1>1, <2>3, <2>5, EndTypes, CommandStarting
    <3> QED BY <1>1, <2>1, <2>2, <2>3, <2>5, <3>1, EndTypes, CommandStep
  <2>6. CASE todo # {}
    <3>1. /\ q \in Command /\ q.pc = "check" /\ q.retention = retention /\ q.todo = todo
          /\ q.index = prune.index /\ q.deployed = prune.deployed
      BY <1>1, <2>4 DEF Command
    <3>2. prune' = q /\ lock' = lock
      BY <2>3, <2>6
    <3> HIDE DEF q
    <3>3. CommandOK'
      BY <1>1, <2>1, <2>2, <2>4, <3>1, <3>2 DEF CommandOK, CopyOK, Working, Evaluated
    <3> QED BY <1>1, <2>1, <3>1, <3>2, <3>3, CommandStep
  <2> QED BY <2>5, <2>6
<1>7. ASSUME NEW a \in prune.todo, PruneCheck(a) PROVE CatalogInv'
  <2>1. UNCHANGED <<clock, digest, artifact, entry, index, retention, desired, named, mirrored,
                    pub, sel, left, answered, touched>>
    BY <1>7 DEF PruneCheck, objects, requests, history
  <2>2. /\ lock = "prune" /\ prune.deployed = named /\ CopyOK /\ prune.retention \in RetentionFile
        /\ prune.pc \in Evaluated /\ a \in PruneActions /\ a.version \in Versions
        /\ a.kind \in {"unused", "artifact"}
        /\ a.kind = "unused" => a.version \notin prune.deployed
        /\ \A b \in prune.todo : b.kind = "unused" => b.version \notin prune.deployed
    <3>1. prune.pc = "check" /\ a \in PruneActions
      BY <1>1, <1>7 DEF PruneCheck, Command
    <3> QED BY <1>1, <3>1 DEF CommandOK, Working, Evaluated, PruneActions
  <2> DEFINE apply == ShouldApplyRetentionPruneAction(a, retention.rows[a.version], prune.now)
             ix == Without(prune.index, a.version)
             rt == Without(prune.retention, a.version)
             q == [prune EXCEPT !.pc = "entry", !.target = a.version,
                                !.out = prune.out \cup {a.version}, !.index = ix, !.retention = rt]
             r == [prune EXCEPT !.pc = "artifact", !.target = a.version]
  <2>3. CASE apply /\ a.kind = "unused"
    <3>1. prune' = q /\ lock' = lock
      BY <1>1, <1>7, <2>3 DEF PruneCheck, Command
    <3>2. /\ ix \in IndexFile /\ ix.gen = prune.index.gen
          /\ \A v \in Versions : ix.rows[v] = IF v = a.version THEN None ELSE prune.index.rows[v]
      BY <2>2 DEF CopyOK, Without, IndexFile
    <3>3. rt \in RetentionFile
      BY <2>2 DEF Without, RetentionFile
    <3> HIDE DEF ix, rt
    <3>4. /\ q \in Command /\ q.pc = "entry" /\ q.target = a.version /\ q.index = ix
          /\ q.retention = rt /\ q.todo = prune.todo /\ q.deployed = prune.deployed
      BY <1>1, <2>2, <3>2, <3>3 DEF Command
    <3> HIDE DEF q
    <3>5. /\ prune'.index \in IndexFile /\ prune'.index.gen <= index'.gen
          /\ prune'.index.gen = index'.gen =>
              \A v \in Versions :
                  \/ prune'.index.rows[v] = index'.rows[v]
                  \/ prune'.index.rows[v] = None /\ v \notin prune'.deployed
      BY <2>1, <2>2, <2>3, <3>1, <3>2, <3>4 DEF CopyOK
    <3>6. CommandOK'
      <4>1. CopyOK'
        BY <3>5 DEF CopyOK
      <4> QED BY <2>1, <2>2, <2>3, <3>1, <3>3, <3>4, <4>1 DEF CommandOK, Working, Evaluated
    <3> QED BY <1>1, <2>1, <3>1, <3>4, <3>6, CommandStep
  <2>4. CASE apply /\ a.kind # "unused"
    <3>1. prune' = r /\ lock' = lock
      BY <1>1, <1>7, <2>4 DEF PruneCheck, Command
    <3>2. /\ r \in Command /\ r.pc = "artifact" /\ r.target = a.version /\ r.index = prune.index
          /\ r.retention = prune.retention /\ r.todo = prune.todo /\ r.deployed = prune.deployed
      BY <1>1, <2>2 DEF Command
    <3> HIDE DEF r
    <3>3. CommandOK'
      <4>1. CopyOK'
        BY <2>1, <2>2, <3>1, <3>2 DEF CopyOK
      <4> QED BY <2>1, <2>2, <3>1, <3>2, <4>1 DEF CommandOK, Working, Evaluated
    <3> QED BY <1>1, <2>1, <3>1, <3>2, <3>3, CommandStep
  <2>5. CASE ~apply
    <3>1. prune' = PruneNext(a) /\ lock' = IF prune'.pc = "done" THEN "free" ELSE lock
      BY <1>7, <2>5 DEF PruneCheck
    <3>2. CommandOK'
      BY <1>1, <2>1, <2>2, <3>1, NextActionTypes DEF CommandOK, CopyOK, Working, Evaluated
    <3> QED BY <1>1, <2>1, <2>2, <3>1, <3>2, NextActionTypes, CommandStep
  <2> QED BY <2>3, <2>4, <2>5
<1>8. CASE PruneEntry
  <2>1. UNCHANGED <<clock, digest, artifact, index, retention, desired, named, mirrored, lock,
                    pub, sel, left>>
    BY <1>8 DEF PruneEntry, requests
  <2>2. prune.pc = "entry" /\ prune.target \in Versions
    BY <1>1, <1>8 DEF PruneEntry, CommandOK
  <2>3. /\ prune' \in Command /\ prune'.pc = "artifact" /\ prune'.index = prune.index
        /\ prune'.retention = prune.retention /\ prune'.todo = prune.todo
        /\ prune'.target = prune.target /\ prune'.deployed = prune.deployed
    BY <1>1, <1>8, <2>2 DEF PruneEntry, Command
  <2>4. /\ entry' \in [Versions -> Stored \cup {None}] /\ touched' \subseteq Versions
        /\ answered' \subseteq Declarations
    BY <1>1, <1>8, <2>2 DEF PruneEntry
  <2>5. CommandOK'
    <3>1. CopyOK'
      BY <1>1, <2>1, <2>2, <2>3 DEF CommandOK, CopyOK, Evaluated
    <3> QED BY <1>1, <2>1, <2>2, <2>3, <3>1 DEF CommandOK, Working, Evaluated
  <2> QED BY <1>1, <2>1, <2>3, <2>4, <2>5, CommandStep
<1>9. CASE PruneArtifact
  <2> DEFINE a == CHOOSE b \in prune.todo : b.version = prune.target
  <2>1. UNCHANGED <<clock, digest, entry, index, retention, desired, named, mirrored, pub, sel, left,
                    answered>>
    BY <1>9 DEF PruneArtifact, requests
  <2>2. /\ prune.pc \in Evaluated /\ prune.target \in Versions /\ CopyOK
        /\ lock = "prune" /\ prune.deployed = named /\ prune.retention \in RetentionFile
        /\ \A b \in prune.todo : b.kind = "unused" => b.version \notin prune.deployed
    BY <1>1, <1>9 DEF PruneArtifact, CommandOK, Working, Evaluated
  <2>3. prune' = PruneNext(a) /\ lock' = IF prune'.pc = "done" THEN "free" ELSE lock
    BY <1>9 DEF PruneArtifact
  <2>4. artifact' \in [Versions -> Digests \cup {None}] /\ touched' \subseteq Versions
    BY <1>1, <1>9, <2>2 DEF PruneArtifact
  <2> HIDE DEF a
  <2>5. CommandOK'
    BY <1>1, <2>1, <2>2, <2>3, NextActionTypes DEF CommandOK, CopyOK, Working, Evaluated
  <2> QED BY <1>1, <2>1, <2>2, <2>3, <2>4, <2>5, NextActionTypes, CommandStep
<1>10. CASE PrunePutRetention
  <2>1. UNCHANGED <<clock, digest, artifact, entry, index, desired, named, mirrored, pub, sel, left,
                    answered, touched>>
    BY <1>10 DEF PrunePutRetention, objects, requests, history
  <2>2. /\ prune.pc = "putRetention" /\ CopyOK /\ lock = "prune" /\ prune.deployed = named
        /\ prune.retention \in RetentionFile
        /\ \A b \in prune.todo : b.kind = "unused" => b.version \notin prune.deployed
    BY <1>1, <1>10 DEF PrunePutRetention, CommandOK, Working, Evaluated
  <2>3. retention' \in RetentionFile
    <3>1. prune.retention.rows \in [Versions -> Row \cup {None}]
      BY <2>2 DEF RetentionFile
    <3> QED BY <1>1, <1>10, <2>2, <3>1, WroteRetention DEF PrunePutRetention
  <2> DEFINE q == [prune EXCEPT !.pc = "putIndex"]
  <2>4. /\ prune' = IF retention' # retention THEN q ELSE PruneRefused
        /\ lock' = IF prune'.pc = "idle" THEN "free" ELSE lock
    BY <1>10 DEF PrunePutRetention
  <2>5. /\ q \in Command /\ q.pc = "putIndex" /\ q.index = prune.index
        /\ q.retention = prune.retention /\ q.todo = prune.todo /\ q.deployed = prune.deployed
    BY <1>1 DEF Command
  <2> HIDE DEF q
  <2>6. CASE retention' # retention
    <3>1. prune' = q /\ lock' = lock
      BY <2>4, <2>5, <2>6
    <3>2. CommandOK'
      <4>1. CopyOK'
        BY <2>1, <2>2, <2>5, <3>1 DEF CopyOK
      <4> QED BY <2>1, <2>2, <2>5, <3>1, <4>1 DEF CommandOK, Working, Evaluated
    <3> QED BY <1>1, <2>1, <2>3, <2>5, <3>1, <3>2, CommandStep
  <2>7. CASE retention' = retention
    <3>1. prune' = PruneRefused /\ prune' \in Command /\ lock' \in {"free", "prune"}
      BY <1>1, <2>2, <2>4, <2>7, EndTypes
    <3>2. CommandOK'
      BY <1>1, <2>1, <2>2, <2>4, <3>1, EndTypes, CommandStarting
    <3> QED BY <1>1, <2>1, <2>2, <2>7, <3>1, <3>2, CommandStep
  <2> QED BY <2>6, <2>7
<1>11. CASE PrunePutIndex
  <2>1. UNCHANGED <<clock, digest, artifact, entry, retention, desired, named, mirrored, pub, sel, left,
                    answered, touched>>
    BY <1>11 DEF PrunePutIndex, objects, requests, history
  <2>2. CopyOK /\ lock = "prune" /\ prune.deployed = named
    BY <1>1, <1>11 DEF PrunePutIndex, CommandOK, Working, Evaluated
  <2>3. index' \in IndexFile /\ (index' = index \/ index'.gen = index.gen + 1)
    <3>1. prune.index \in IndexFile /\ prune.index.rows \in [Versions -> Stored \cup {None}]
      BY <2>2 DEF CopyOK, IndexFile
    <3>2. index' = Wrote(index, prune.index, prune.index.rows)
      BY <1>11 DEF PrunePutIndex
    <3> QED BY <1>1, <3>1, <3>2, WroteIndex
  <2>4. /\ prune' = PruneDone \/ prune' = PruneRefused
        /\ lock' = IF prune'.pc \in {"idle", "done"} THEN "free" ELSE lock
    BY <1>11 DEF PrunePutIndex
  <2>5. CommandOK' /\ prune' \in Command
    BY <1>1, <2>1, <2>2, <2>4, EndTypes, CommandStarting
  <2> QED BY <1>1, <2>1, <2>2, <2>3, <2>4, <2>5, CommandStep
<1>12. CASE PruneCrash
  <2>1. UNCHANGED <<clock, digest, artifact, entry, index, retention, desired, named, mirrored,
                    pub, sel, answered, touched>>
    BY <1>12 DEF PruneCrash, objects, requests, history
  <2>2. prune' = IdlePrune /\ lock = "prune" /\ lock' = "dead"
    BY <1>12 DEF PruneCrash
  <2>3. left' \in Budgets
    BY SMTT(60), <1>1, <1>12, CatalogConstants DEF PruneCrash
  <2>4. CommandOK'
    BY <1>2, <2>2, CommandStarting
  <2> QED BY <1>1, <1>2, <2>1, <2>2, <2>3, <2>4, CommandStep
<1> QED BY <1>3, <1>4, <1>5, <1>6, <1>7, <1>8, <1>9, <1>10, <1>11, <1>12 DEF Prune

-----------------------------------------------------------------------------
(* The theorems.                                                           *)

LEMMA CatalogStep == CatalogInv /\ [Next]_vars => CatalogInv'
<1> SUFFICES ASSUME CatalogInv, [Next]_vars PROVE CatalogInv'
  OBVIOUS
<1>1. ASSUME NEW p \in Publishers, Publish(p) \/ PublisherCrash(p) PROVE CatalogInv'
  BY <1>1, PublishQuietly, PublishCatalogs DEF Publish
<1>2. CASE (\E v \in Versions : Select(v)) \/ Mirror \/ MirrorLost \/ LockExpires \/ Tick
  BY <1>2, SelectionSteps DEF Mirror
<1>3. CASE PruneStart \/ Prune \/ PruneCrash
  BY <1>3, PruneSteps
<1>4. CASE UNCHANGED vars
  BY <1>4 DEF vars, objects, requests, history, CatalogInv, TypeOK, CallOK, V, SelectionOK,
              CommandOK, CopyOK
<1> QED BY <1>1, <1>2, <1>3, <1>4 DEF Next

LEMMA CatalogAlways == Spec => []CatalogInv
BY InitCatalog, CatalogStep, PTL DEF Spec

\* Every call, selection and command of the registry keeps to its types: the
\* retry counters of compareAndSwapCatalog, publishUntilIndexed, MutateRetention
\* and the prune loop never pass their limit, and no action of prune names a
\* version the app does not have.
THEOREM CatalogTypes == Spec => []TypeOK
<1>1. CatalogInv => TypeOK
  BY DEF CatalogInv
<1> QED BY <1>1, CatalogAlways, PTL

\* The only steps that change index.json add a row where there was none, or take
\* out rows of versions that no change request names.
LEMMA IndexSteps ==
    ASSUME CatalogInv, [Next]_vars, NEW v \in Versions, index.rows[v] # None
    PROVE  \/ index'.rows[v] = index.rows[v]
           \/ index'.rows[v] = None /\ v \notin named
<1>1. ASSUME NEW p \in Publishers, PutIndex(p)
      PROVE  index'.rows[v] = index.rows[v]
  <2> DEFINE c == pub[p]
             rows == UpsertAppIndex(c.seen.rows, Declares[p], c.stamp)
  <2>1. index' = Wrote(index, c.seen, rows)
    BY <1>1 DEF PutIndex
  <2>2. /\ c.seen \in IndexFile /\ c.seen.rows[V(p)] = None
        /\ c.seen.gen = index.gen => c.seen.rows = index.rows
    BY <1>1 DEF CatalogInv, CallOK, PutIndex
  <2>3. CASE index.gen = c.seen.gen
    <3>1. index'.rows = rows
      BY <2>1, <2>3 DEF Wrote
    <3>2. v # VersionOf[Declares[p]]
      BY <2>2, <2>3 DEF V
    <3>3. rows[v] = c.seen.rows[v]
      BY <2>2, <3>2 DEF UpsertAppIndex, IndexFile
    <3> QED BY <2>2, <2>3, <3>1, <3>3
  <2>4. CASE index.gen # c.seen.gen
    BY <2>1, <2>4 DEF Wrote
  <2> QED BY <2>3, <2>4
<1>2. ASSUME PrunePutIndex
      PROVE  \/ index'.rows[v] = index.rows[v]
             \/ index'.rows[v] = None /\ v \notin named
  <2>1. index' = Wrote(index, prune.index, prune.index.rows)
    BY <1>2 DEF PrunePutIndex
  <2>2. CopyOK /\ prune.deployed = named
    BY <1>2 DEF CatalogInv, CommandOK, PrunePutIndex, Working, Evaluated
  <2> QED BY <2>1, <2>2 DEF CopyOK, Wrote
<1>3. CASE UNCHANGED index
  BY <1>3
<1>4. \/ UNCHANGED index
      \/ \E p \in Publishers : PutIndex(p)
      \/ PrunePutIndex
  BY DEF Next, vars, Publish, Mirror, Prune, Prepare, AnswerAgain, Promote, UploadObjects, Adopt,
         ReadRetention, PutRetention, ReadIndex, Retry, Settle, PublisherCrash, Select,
         MirrorRead, MirrorWrite, MirrorLost, LockExpires, PruneStart, PruneLock,
         PruneReadIndex, PruneReadRetention, PruneCheck, PruneEntry, PruneArtifact,
         PrunePutRetention, PruneCrash, Tick
<1> QED BY <1>1, <1>2, <1>3, <1>4

\* A published version is immutable: for any number of publishers of any number
\* of declarations, with crashes, refused writes and prunes, no row of
\* index.json ever passes to another declaration.
THEOREM Immutable == Spec => PublishedIsImmutable
<1>1. CatalogInv /\ [Next]_vars =>
        [\A v \in Versions :
            index.rows[v] # None /\ index'.rows[v] # None =>
                index'.rows[v].decl = index.rows[v].decl]_vars
  BY IndexSteps
<1> QED BY <1>1, CatalogAlways, PTL DEF Spec, PublishedIsImmutable

\* The only step that deletes an entry is prune's, of a version no change
\* request names.
LEMMA EntrySteps ==
    ASSUME CatalogInv, [Next]_vars, NEW v \in Versions, entry[v] # None, v \in named
    PROVE  entry'[v] # None
<1>1. ASSUME NEW p \in Publishers, UploadObjects(p) PROVE entry'[v] # None
  <2>1. CASE entry[V(p)] = None /\ ArtifactMatches(Declares[p])
    <3>1. v # V(p)
      BY <2>1
    <3>2. entry' = entry \/ entry' = [entry EXCEPT ![V(p)] = [decl |-> Declares[p], at |-> pub[p].at]]
      BY <1>1 DEF UploadObjects
    <3> QED BY <3>1, <3>2 DEF CatalogInv, TypeOK
  <2>2. CASE ~(entry[V(p)] = None /\ ArtifactMatches(Declares[p]))
    BY <1>1, <2>2 DEF UploadObjects
  <2> QED BY <2>1, <2>2
<1>2. ASSUME PruneEntry PROVE entry'[v] # None
  <2>1. prune.target \notin prune.deployed /\ prune.deployed = named
    BY <1>2 DEF CatalogInv, CommandOK, PruneEntry, Working, Evaluated
  <2>2. entry' = [entry EXCEPT ![prune.target] = None]
    BY <1>2 DEF PruneEntry
  <2> QED BY <2>1, <2>2 DEF CatalogInv, TypeOK
<1>3. \/ UNCHANGED entry
      \/ \E p \in Publishers : UploadObjects(p)
      \/ PruneEntry
  BY DEF Next, vars, objects, Publish, Mirror, Prune, Prepare, AnswerAgain, Promote, Adopt,
         ReadRetention, PutRetention, ReadIndex, PutIndex, Retry, Settle, PublisherCrash, Select,
         MirrorRead, MirrorWrite, MirrorLost, LockExpires, PruneStart, PruneLock,
         PruneReadIndex, PruneReadRetention, PruneCheck, PruneArtifact,
         PrunePutRetention, PrunePutIndex, PruneCrash, Tick
<1> QED BY <1>1, <1>2, <1>3

\* Prune keeps deploy history: whatever retention.json says, and whichever
\* mirror was lost, no step removes the entry or the index row of a version
\* that a change request names.
THEOREM HistoryKept == Spec => DeployHistoryKept
<1>1. CatalogInv /\ [Next]_vars =>
        [\A v \in named :
            /\ entry[v] # None => entry'[v] # None
            /\ index.rows[v] # None => index'.rows[v] # None]_vars
  <2> SUFFICES ASSUME CatalogInv, [Next]_vars, NEW v \in named
               PROVE  /\ entry[v] # None => entry'[v] # None
                      /\ index.rows[v] # None => index'.rows[v] # None
    OBVIOUS
  <2>1. v \in Versions
    BY DEF CatalogInv, TypeOK
  <2> QED BY <2>1, IndexSteps, EntrySteps
<1> QED BY <1>1, CatalogAlways, PTL DEF Spec, DeployHistoryKept

-----------------------------------------------------------------------------
(* What retention.json says of the desired version, and what prune can do   *)
(* to its artifacts.                                                        *)

\* A copy of retention.json whose generation is still current.
RetentionCopy(f) ==
    f.gen <= retention.gen /\ (f.gen = retention.gen => f.rows = retention.rows)

CopiesOK ==
    /\ \A p \in Publishers : pub[p].pc = "putRetention" => RetentionCopy(pub[p].seen)
    /\ sel.pc = "write" => RetentionCopy(sel.seen)
    /\ prune.pc \in Evaluated =>
          /\ prune.retention.gen <= retention.gen
          /\ prune.retention.gen = retention.gen =>
                \A v \in named : prune.retention.rows[v] = retention.rows[v]

\* What the deploy chain knows of the desired version.
DesiredOK ==
    /\ desired # None => desired \in named
    /\ sel.pc # "idle" => sel.to = desired
    /\ prune.pc \in {"entry", "artifact"} /\ mirrored => prune.target # desired

DesiredInv == CatalogInv /\ CopiesOK /\ DesiredOK /\ DesiredHasNoDeadline

LEMMA InitDesired == Init => DesiredInv
<1> SUFFICES ASSUME Init PROVE DesiredInv
  OBVIOUS
<1> DEFINE seeded == {VersionOf[d] : d \in Seeded}
           fresh == [v \in Versions |-> IF v \in seeded THEN UpsertRow(None, 0) ELSE None]
<1>1. CatalogInv
  BY InitCatalog
<1>2. CopiesOK
  BY DEF Init, CopiesOK, IdlePublisher, IdleSelection, IdlePrune, Evaluated
<1>3. DesiredOK
  BY DEF Init, DesiredOK, IdleSelection, IdlePrune
<1>4. ASSUME desired # None PROVE DesiredHasNoDeadline
  <2>1. desired = Installed /\ desired \in Versions
    BY <1>1, <1>4 DEF Init, CatalogInv, TypeOK
  <2>2. retention.rows = ApplyDesiredVersionTransition(fresh, None, Installed, 0)
    BY <1>4, <2>1 DEF Init
  <2>3. retention.rows[desired] = Transitioned(fresh[desired], 0, Never)
    <3>1. Installed # None
      BY <1>4, <2>1
    <3> QED BY <2>1, <2>2, <3>1 DEF ApplyDesiredVersionTransition
  <2>4. retention.rows[desired].ever /\ retention.rows[desired].expires = Never
    BY SMTT(60), <2>3 DEF Transitioned
  <2>5. retention.rows[desired] # None
    <3>1. fresh[desired] \in Row \cup {None}
      BY <2>1, UpsertTypes
    <3>2. Transitioned(fresh[desired], 0, Never) \in Row
      BY <3>1 DEF Transitioned, Row
    <3> QED BY <2>3, <3>2, NoneIsNoValue
  <2> QED BY <2>4, <2>5 DEF DesiredHasNoDeadline
<1> QED BY <1>1, <1>2, <1>3, <1>4 DEF DesiredInv, DesiredHasNoDeadline

\* A step that writes no retention.json and makes no change request keeps what
\* is known of the desired version.
LEMMA DesiredKept ==
    ASSUME DesiredInv, UNCHANGED <<retention, desired, named, mirrored>>,
           UNCHANGED sel,
           \A p \in Publishers : pub'[p].pc = "putRetention" =>
               \/ pub'[p].seen = retention
               \/ pub[p].pc = "putRetention" /\ pub'[p].seen = pub[p].seen,
           prune'.pc \in Evaluated =>
               \/ prune'.retention = retention
               \/ /\ prune.pc \in Evaluated
                  /\ prune'.retention.gen = prune.retention.gen
                  /\ \A v \in named : prune'.retention.rows[v] = prune.retention.rows[v],
           prune'.pc \in {"entry", "artifact"} /\ mirrored => prune'.target # desired
    PROVE  (CopiesOK /\ DesiredOK /\ DesiredHasNoDeadline)'
<1>1. retention.gen \in Nat
  BY DEF DesiredInv, CatalogInv, TypeOK, RetentionFile
<1>2. (\A p \in Publishers : pub[p].pc = "putRetention" => RetentionCopy(pub[p].seen))'
  BY SMTT(60), <1>1 DEF DesiredInv, CopiesOK, RetentionCopy
<1>3. (sel.pc = "write" => RetentionCopy(sel.seen))'
  BY DEF DesiredInv, CopiesOK, RetentionCopy
<1>4. (prune.pc \in Evaluated =>
          /\ prune.retention.gen <= retention.gen
          /\ prune.retention.gen = retention.gen =>
                \A v \in named : prune.retention.rows[v] = retention.rows[v])'
  BY SMTT(60), <1>1 DEF DesiredInv, CopiesOK, Evaluated
<1>5. CopiesOK'
  BY <1>2, <1>3, <1>4 DEF CopiesOK
<1>6. DesiredOK' /\ DesiredHasNoDeadline'
  BY DEF DesiredInv, DesiredOK, DesiredHasNoDeadline
<1> QED BY <1>5, <1>6

LEMMA PublishKeepsDesired ==
    ASSUME DesiredInv, NEW p \in Publishers, Publish(p) \/ PublisherCrash(p), ~PutRetention(p)
    PROVE  (CopiesOK /\ DesiredOK /\ DesiredHasNoDeadline)'
<1> DEFINE c == pub[p]
           Fine(q) == q.pc = "putRetention" => \/ q.seen = retention
                                               \/ c.pc = "putRetention" /\ q.seen = c.seen
<1>1. c \in Call /\ pub \in [Publishers -> Call]
  BY DEF DesiredInv, CatalogInv, TypeOK
<1>2. UNCHANGED <<retention, desired, named, mirrored, sel, prune>>
  BY DEF Publish, Prepare, AnswerAgain, Promote, UploadObjects, Adopt, ReadRetention, ReadIndex,
         PutIndex, Retry, Settle, PublisherCrash, requests
<1>3. ASSUME NEW q, pub' = [pub EXCEPT ![p] = q], Fine(q)
      PROVE  \A r \in Publishers : pub'[r].pc = "putRetention" =>
                \/ pub'[r].seen = retention
                \/ pub[r].pc = "putRetention" /\ pub'[r].seen = pub[r].seen
  BY <1>1, <1>3
<1>4. Fine(IdlePublisher)
  BY DEF IdlePublisher
<1>5. ASSUME NEW how \in {"failed", "conflict"} PROVE Fine(Fail(c, how))
  BY <1>1, CallTypes
<1>6. \E q : pub' = [pub EXCEPT ![p] = q] /\ Fine(q)
  <2>1. CASE Prepare(p)
    <3> DEFINE q == [IdlePublisher EXCEPT !.pc = "promote", !.at = clock]
    <3>1. pub' = [pub EXCEPT ![p] = q] /\ q.pc = "promote"
      BY <2>1 DEF Prepare, IdlePublisher
    <3> QED BY <3>1
  <2>2. CASE AnswerAgain(p)
    <3>1. pub' = [pub EXCEPT ![p] = c]
      BY <1>1, <2>2 DEF AnswerAgain
    <3> QED BY <3>1
  <2>3. CASE Promote(p)
    <3> DEFINE q == [c EXCEPT !.pc = "upload"]
    <3>1. q.pc = "upload"
      BY <1>1 DEF Call
    <3>2. pub' = [pub EXCEPT ![p] = q] \/ pub' = [pub EXCEPT ![p] = IdlePublisher]
      BY <1>1, <2>3 DEF Promote
    <3> QED BY <1>4, <3>1, <3>2
  <2>4. CASE UploadObjects(p)
    <3> DEFINE q == [c EXCEPT !.pc = "retention", !.stamp = c.at]
               r == [c EXCEPT !.pc = "adopt"]
    <3>1. q.pc = "retention" /\ r.pc = "adopt"
      BY <1>1 DEF Call
    <3>2. \/ \E how \in {"failed", "conflict"} : pub' = [pub EXCEPT ![p] = Fail(c, how)]
          \/ pub' = [pub EXCEPT ![p] = q]
          \/ pub' = [pub EXCEPT ![p] = r]
      BY <1>1, <2>4 DEF UploadObjects
    <3> QED BY <1>5, <3>1, <3>2
  <2>5. CASE Adopt(p)
    <3> DEFINE q == [c EXCEPT !.pc = "retention",
                              !.stamp = IF entry[V(p)] = None THEN c.at ELSE entry[V(p)].at]
    <3>1. pub' = [pub EXCEPT ![p] = q] /\ q.pc = "retention"
      BY <1>1, <2>5 DEF Adopt, Call
    <3> QED BY <3>1
  <2>6. CASE ReadRetention(p)
    <3> DEFINE q == [c EXCEPT !.pc = "index", !.cas = 0]
               r == [c EXCEPT !.pc = "putRetention", !.seen = retention]
    <3>1. q.pc = "index" /\ r.seen = retention
      BY <1>1 DEF Call
    <3>2. pub' = [pub EXCEPT ![p] = q] \/ pub' = [pub EXCEPT ![p] = r]
      BY <1>1, <2>6 DEF ReadRetention
    <3> QED BY <3>1, <3>2
  <2>7. CASE ReadIndex(p)
    <3> DEFINE q == [c EXCEPT !.pc = "settle", !.cas = 0]
               r == [c EXCEPT !.pc = "putIndex", !.seen = index]
    <3>1. q.pc = "settle" /\ r.pc = "putIndex"
      BY <1>1 DEF Call
    <3>2. \/ pub' = [pub EXCEPT ![p] = Fail(c, "conflict")]
          \/ pub' = [pub EXCEPT ![p] = q]
          \/ pub' = [pub EXCEPT ![p] = r]
      BY <1>1, <2>7 DEF ReadIndex
    <3> QED BY <1>5, <3>1, <3>2
  <2>8. CASE PutIndex(p)
    <3> DEFINE q == [c EXCEPT !.pc = "settle", !.cas = 0, !.seen = None]
    <3>1. q.pc = "settle" /\ Conflicted(c, "index").pc \in {"index", "conflict"}
      BY <1>1, CallTypes DEF Call
    <3>2. pub' = [pub EXCEPT ![p] = q] \/ pub' = [pub EXCEPT ![p] = Conflicted(c, "index")]
      BY <1>1, <2>8 DEF PutIndex
    <3> QED BY <3>1, <3>2
  <2>9. CASE Retry(p)
    <3> DEFINE q == [c EXCEPT !.pc = "upload", !.tries = c.tries + 1]
               r == [c EXCEPT !.pc = "settle"]
    <3>1. q.pc = "upload" /\ r.pc = "settle"
      BY <1>1 DEF Call
    <3>2. pub' = [pub EXCEPT ![p] = q] \/ pub' = [pub EXCEPT ![p] = r]
      BY <2>9 DEF Retry
    <3> QED BY <3>1, <3>2
  <2>10. CASE Settle(p) \/ PublisherCrash(p)
    <3>1. pub' = [pub EXCEPT ![p] = IdlePublisher]
      BY <2>10 DEF Settle, PublisherCrash
    <3> QED BY <1>4, <3>1
  <2> QED BY <2>1, <2>2, <2>3, <2>4, <2>5, <2>6, <2>7, <2>8, <2>9, <2>10 DEF Publish
<1>7. /\ prune'.pc \in Evaluated =>
             /\ prune.pc \in Evaluated
             /\ prune'.retention.gen = prune.retention.gen
             /\ \A v \in named : prune'.retention.rows[v] = prune.retention.rows[v]
      /\ prune'.pc \in {"entry", "artifact"} /\ mirrored => prune'.target # desired
  BY <1>2 DEF DesiredInv, DesiredOK
<1> HIDE DEF Fine
<1> QED BY <1>2, <1>3, <1>6, <1>7, DesiredKept

\* A write of retention.json leaves every copy read before it current or behind.
LEMMA OlderRetention ==
    ASSUME DesiredInv, retention' \in RetentionFile,
           retention' = retention \/ retention'.gen = retention.gen + 1,
           NEW f \in RetentionFile, RetentionCopy(f)
    PROVE  f.gen <= retention'.gen /\ (f.gen = retention'.gen => f.rows = retention'.rows)
BY SMTT(60) DEF RetentionCopy, RetentionFile, DesiredInv, CatalogInv, TypeOK

LEMMA PutRetentionKeepsDesired ==
    ASSUME DesiredInv, NEW p \in Publishers, PutRetention(p)
    PROVE  (CopiesOK /\ DesiredOK /\ DesiredHasNoDeadline)'
<1> DEFINE c == pub[p]
           rows == UpsertPublishedRetention(c.seen.rows, V(p), c.stamp)
           q == [c EXCEPT !.pc = "index", !.cas = 0, !.seen = None]
<1>1. /\ c \in Call /\ pub \in [Publishers -> Call] /\ c.stamp \in Nat /\ V(p) \in Versions
      /\ c.seen \in RetentionFile /\ c.seen.rows \in [Versions -> Row \cup {None}]
      /\ retention \in RetentionFile /\ RetentionCopy(c.seen)
  <2>1. c \in Call /\ c.pc = "putRetention"
    BY DEF DesiredInv, CatalogInv, TypeOK, PutRetention
  <2> QED BY <2>1, VersionTypes
          DEF DesiredInv, CatalogInv, TypeOK, CallOK, CopiesOK, RetentionFile, Call
<1>2. UpsertRow(c.seen.rows[V(p)], c.stamp) \in Row
  BY <1>1, UpsertTypes
<1>3. rows \in [Versions -> Row \cup {None}]
  BY <1>1, <1>2 DEF UpsertPublishedRetention
<1>4. retention' = Wrote(retention, c.seen, rows)
  BY DEF PutRetention
<1>5. /\ retention' \in RetentionFile
      /\ retention' # retention => /\ retention.gen = c.seen.gen
                                   /\ retention'.gen = retention.gen + 1
                                   /\ retention'.rows = rows
  <2>1. c.seen \in RetentionFile /\ retention \in RetentionFile
    BY <1>1
  <2> HIDE DEF rows, c
  <2> QED BY <1>3, <1>4, <2>1, WroteRetention
<1>6. UNCHANGED <<desired, named, mirrored, sel, prune>>
  BY DEF PutRetention, requests
<1>7. \/ pub' = [pub EXCEPT ![p] = q]
      \/ pub' = [pub EXCEPT ![p] = Conflicted(c, "retention")]
  BY <1>1 DEF PutRetention
<1>8. q.pc = "index" /\ Conflicted(c, "retention").pc \in {"retention", "conflict"}
  BY <1>1, CallTypes DEF Call
<1>9. \A r \in Publishers : pub'[r].pc = "putRetention" => pub'[r] = pub[r]
  <2> HIDE DEF q
  <2> QED BY <1>1, <1>7, <1>8
<1>10. CopiesOK'
  <2>1. ASSUME NEW r \in Publishers, pub'[r].pc = "putRetention" PROVE RetentionCopy(pub[r].seen)'
    <3>1. pub[r].seen \in RetentionFile /\ RetentionCopy(pub[r].seen) /\ pub'[r] = pub[r]
      BY <1>9, <2>1 DEF DesiredInv, CatalogInv, CallOK, CopiesOK
    <3> HIDE DEF rows
    <3> QED BY <1>5, <3>1, OlderRetention DEF RetentionCopy
  <2>2. ASSUME sel.pc = "write" PROVE RetentionCopy(sel.seen)'
    <3>1. sel.seen \in RetentionFile /\ RetentionCopy(sel.seen)
      BY <2>2 DEF DesiredInv, CatalogInv, SelectionOK, CopiesOK
    <3> HIDE DEF rows
    <3> QED BY <1>5, <1>6, <3>1, OlderRetention DEF RetentionCopy
  <2>3. ASSUME prune.pc \in Evaluated
        PROVE  /\ prune.retention.gen <= retention'.gen
               /\ prune.retention.gen = retention'.gen =>
                     \A v \in named : prune.retention.rows[v] = retention'.rows[v]
    <3>1. /\ prune.retention \in RetentionFile /\ prune.retention.gen <= retention.gen
          /\ prune.retention.gen = retention.gen =>
                     \A v \in named : prune.retention.rows[v] = retention.rows[v]
      BY <2>3 DEF DesiredInv, CatalogInv, CommandOK, CopiesOK
    <3> HIDE DEF rows
    <3> QED BY SMTT(60), <1>1, <1>5, <3>1 DEF RetentionFile
  <2> QED BY <1>6, <2>1, <2>2, <2>3 DEF CopiesOK
<1>11. DesiredOK'
  BY <1>6 DEF DesiredInv, DesiredOK
<1>12. DesiredHasNoDeadline'
  <2> SUFFICES ASSUME mirrored, desired # None, retention' # retention
               PROVE  /\ retention'.rows[desired] # None
                      /\ retention'.rows[desired].ever
                      /\ retention'.rows[desired].expires = Never
    BY <1>6 DEF DesiredInv, DesiredHasNoDeadline
  <2>1. /\ desired \in Versions /\ c.seen.rows = retention.rows /\ retention'.rows = rows
        /\ c.seen.rows[desired] # None /\ c.seen.rows[desired].ever
        /\ c.seen.rows[desired].expires = Never
    <3> HIDE DEF rows
    <3> QED BY <1>1, <1>5 DEF DesiredInv, DesiredHasNoDeadline, RetentionCopy, CatalogInv, TypeOK
  <2>2. CASE desired = V(p)
    <3> DEFINE row == UpsertRow(c.seen.rows[V(p)], c.stamp)
    <3>1. retention'.rows[desired] = row
      BY <1>1, <2>1, <2>2 DEF UpsertPublishedRetention
    <3>2. row.ever /\ row.expires = Never
      BY <2>1, <2>2 DEF UpsertRow
    <3> QED BY <1>2, <3>1, <3>2, NoneIsNoValue
  <2>3. CASE desired # V(p)
    <3>1. retention'.rows[desired] = c.seen.rows[desired]
      BY <1>1, <2>1, <2>3 DEF UpsertPublishedRetention
    <3> QED BY <2>1, <3>1
  <2> QED BY <2>2, <2>3
<1> QED BY <1>10, <1>11, <1>12

LEMMA SelectionKeepsDesired ==
    ASSUME DesiredInv,
           \/ \E v \in Versions : Select(v)
           \/ MirrorRead \/ MirrorWrite \/ MirrorLost \/ LockExpires \/ Tick
    PROVE  (CopiesOK /\ DesiredOK /\ DesiredHasNoDeadline)'
<1>1. /\ CatalogInv /\ CopiesOK /\ DesiredOK /\ DesiredHasNoDeadline /\ SelectionOK /\ CommandOK
      /\ retention \in RetentionFile /\ retention.gen \in Nat /\ sel \in Selection
  BY DEF DesiredInv, CatalogInv, TypeOK, RetentionFile
<1>2. lock # "prune" => prune.pc \notin Evaluated /\ prune.pc \notin {"entry", "artifact"}
  BY <1>1 DEF CommandOK, Working, Evaluated
<1>3. IdleSelection.pc = "idle"
  BY DEF IdleSelection
<1>4. ASSUME NEW v \in Versions, Select(v)
      PROVE  (CopiesOK /\ DesiredOK /\ DesiredHasNoDeadline)'
  <2>1. /\ lock = "free" /\ desired' = v /\ named' = named \cup {v} /\ mirrored' = FALSE
        /\ UNCHANGED <<retention, pub, prune>>
    BY <1>4 DEF Select
  <2>2. sel'.pc = "read" /\ sel'.to = v
    BY <1>4 DEF Select, IdleSelection
  <2>3. CopiesOK'
    BY <1>1, <1>2, <2>1, <2>2 DEF CopiesOK, RetentionCopy
  <2> QED BY <1>2, <2>1, <2>2, <2>3 DEF DesiredOK, DesiredHasNoDeadline
<1>5. CASE MirrorRead
  <2>1. UNCHANGED <<retention, desired, named, mirrored, pub, prune>>
    BY <1>5 DEF MirrorRead, requests
  <2>2. sel.pc = "read" /\ sel'.pc = "write" /\ sel'.to = sel.to /\ sel'.seen = retention
    BY <1>1, <1>5 DEF MirrorRead, Selection
  <2>3. CopiesOK'
    BY SMTT(60), <1>1, <2>1, <2>2 DEF CopiesOK, RetentionCopy
  <2> QED BY <1>1, <2>1, <2>2, <2>3 DEF DesiredOK, DesiredHasNoDeadline
<1>6. CASE MirrorWrite
  <2> DEFINE rows == ApplyDesiredVersionTransition(sel.seen.rows, sel.from, sel.to, sel.at)
  <2>1. /\ sel.pc = "write" /\ lock = "selection" /\ sel.to \in Versions
        /\ sel.seen \in RetentionFile /\ sel.to = desired
    BY <1>1, <1>6 DEF MirrorWrite, SelectionOK, DesiredOK
  <2>2. sel.seen.rows \in [Versions -> Row \cup {None}] /\ sel.at \in Nat
    BY <1>1, <2>1 DEF RetentionFile, Selection
  <2>3. rows \in [Versions -> Row \cup {None}]
    BY <2>2, TransitionTypes
  <2>4. retention' = Wrote(retention, sel.seen, rows)
    BY <1>6 DEF MirrorWrite
  <2>5. /\ retention' \in RetentionFile
        /\ retention' # retention => /\ retention'.gen = retention.gen + 1
                                     /\ retention'.rows = rows
    <3> HIDE DEF rows
    <3> QED BY <1>1, <2>1, <2>3, <2>4, WroteRetention
  <2>6. UNCHANGED <<desired, named, pub, prune>> /\ mirrored' = (retention' # retention)
    BY <1>6 DEF MirrorWrite
  <2>7. \/ sel'.pc = "idle"
        \/ sel'.pc = "read" /\ sel'.to = sel.to
    <3>1. \/ sel' = IdleSelection
          \/ sel' = [sel EXCEPT !.pc = "read", !.cas = sel.cas + 1, !.seen = None]
      BY <1>1, <1>6 DEF MirrorWrite, Selection
    <3> QED BY <1>1, <1>3, <3>1 DEF Selection
  <2>8. CopiesOK'
    <3>1. ASSUME NEW r \in Publishers, pub[r].pc = "putRetention" PROVE RetentionCopy(pub[r].seen)'
      <4>1. pub[r].seen \in RetentionFile /\ RetentionCopy(pub[r].seen)
        BY <1>1, <3>1 DEF CatalogInv, CallOK, CopiesOK
      <4> HIDE DEF rows
      <4> QED BY <2>5, <2>6, <4>1, OlderRetention DEF RetentionCopy
    <3> QED BY <1>2, <2>1, <2>6, <2>7, <3>1 DEF CopiesOK
  <2>9. DesiredOK'
    BY <1>1, <1>2, <2>1, <2>6, <2>7 DEF DesiredOK
  <2>10. DesiredHasNoDeadline'
    <3> DEFINE row == rows[sel.to]
    <3>1. \E r \in Row \cup {None} : row = Transitioned(r, sel.at, Never)
      <4> DEFINE l == [v \in Versions |->
                          IF v = sel.from
                          THEN Transitioned(sel.seen.rows[v], sel.at, sel.at + DeployedRetention)
                          ELSE sel.seen.rows[v]]
      <4>1. row = Transitioned(l[sel.to], sel.at, Never)
        BY <2>1 DEF ApplyDesiredVersionTransition
      <4>2. l[sel.to] \in Row \cup {None}
        <5>1. \A r \in Row \cup {None}, e \in Nat : Transitioned(r, sel.at, e) \in Row
          BY <2>2 DEF Transitioned, Row
        <5>2. sel.at + DeployedRetention \in Nat
          BY SMTT(60), <2>2, CatalogConstants
        <5> QED BY <2>1, <2>2, <5>1, <5>2
      <4> QED BY <4>1, <4>2
    <3>2. row \in Row /\ row.ever /\ row.expires = Never
      BY SMTT(60), <2>2, <3>1 DEF Transitioned, Row
    <3> HIDE DEF rows
    <3> QED BY <2>1, <2>5, <2>6, <3>2, NoneIsNoValue DEF DesiredHasNoDeadline
  <2> QED BY <2>8, <2>9, <2>10
<1>7. CASE MirrorLost
  <2>1. UNCHANGED <<retention, desired, named, mirrored, pub, prune>> /\ sel'.pc = "idle"
    BY <1>3, <1>7 DEF MirrorLost, requests
  <2> QED BY <1>1, <2>1 DEF CopiesOK, RetentionCopy, DesiredOK, DesiredHasNoDeadline
<1>8. CASE LockExpires \/ Tick
  <2>1. UNCHANGED <<retention, desired, named, mirrored, pub, sel, prune>>
    BY <1>8 DEF LockExpires, Tick, requests
  <2> QED BY <1>1, <2>1 DEF CopiesOK, RetentionCopy, DesiredOK, DesiredHasNoDeadline
<1> QED BY <1>4, <1>5, <1>6, <1>7, <1>8

LEMMA PruneKeepsDesired ==
    ASSUME DesiredInv, PruneStart \/ Prune \/ PruneCrash
    PROVE  (CopiesOK /\ DesiredOK /\ DesiredHasNoDeadline)'
<1>1. /\ CatalogInv /\ CopiesOK /\ DesiredOK /\ DesiredHasNoDeadline /\ CommandOK
      /\ retention \in RetentionFile /\ prune \in Command /\ named \subseteq Versions
  BY DEF DesiredInv, CatalogInv, TypeOK
<1>2. UNCHANGED <<pub, sel, desired, named, mirrored>>
  BY DEF Prune, PruneStart, PruneLock, PruneReadIndex, PruneReadRetention, PruneCheck, PruneEntry,
         PruneArtifact, PrunePutRetention, PrunePutIndex, PruneCrash, requests
<1>3. ASSUME UNCHANGED retention,
             prune'.pc \in Evaluated =>
                 \/ prune'.retention = retention
                 \/ /\ prune.pc \in Evaluated
                    /\ prune'.retention.gen = prune.retention.gen
                    /\ \A v \in named : prune'.retention.rows[v] = prune.retention.rows[v],
             prune'.pc \in {"entry", "artifact"} /\ mirrored => prune'.target # desired
      PROVE  (CopiesOK /\ DesiredOK /\ DesiredHasNoDeadline)'
  BY <1>2, <1>3, DesiredKept
<1>4. IdlePrune.pc = "idle" /\ PruneDone.pc = "done" /\ PruneRefused.pc \in {"idle", "index"}
  BY <1>1, EndTypes DEF IdlePrune
<1>5. CASE PruneStart \/ PruneLock \/ PruneReadIndex \/ PrunePutIndex \/ PruneCrash
  <2>1. UNCHANGED retention
    BY <1>5 DEF PruneStart, PruneLock, PruneReadIndex, PrunePutIndex, PruneCrash
  <2>2. prune'.pc \in {"idle", "lock", "index", "retention", "done"}
    <3>1. CASE PruneStart
      BY <3>1 DEF PruneStart, IdlePrune
    <3>2. CASE PruneLock
      BY <1>1, <1>4, <3>2 DEF PruneLock, Command
    <3>3. CASE PruneReadIndex
      BY <1>1, <3>3 DEF PruneReadIndex, Command
    <3>4. CASE PrunePutIndex \/ PruneCrash
      BY <1>4, <3>4 DEF PrunePutIndex, PruneCrash
    <3> QED BY <1>5, <3>1, <3>2, <3>3, <3>4
  <2> QED BY <1>3, <2>1, <2>2 DEF Evaluated
<1>6. CASE PruneReadRetention
  <2>1. UNCHANGED retention
    BY <1>6 DEF PruneReadRetention
  <2>2. \/ prune'.pc = "done"
        \/ prune'.pc = "check" /\ prune'.retention = retention
    <3> DEFINE todo == EvaluateRetentionPrune(prune.index.rows, retention.rows, prune.desired,
                                              prune.deployed, prune.now)
    <3>1. \/ prune' = PruneDone
          \/ prune' = [prune EXCEPT !.pc = "check", !.retention = retention, !.todo = todo]
      BY <1>6 DEF PruneReadRetention
    <3> HIDE DEF todo
    <3> QED BY <1>1, <1>4, <3>1 DEF Command
  <2> QED BY <1>3, <2>1, <2>2 DEF Evaluated
<1>7. ASSUME prune.pc \in Evaluated, UNCHANGED retention, NEW a, prune' = PruneNext(a)
      PROVE  (CopiesOK /\ DesiredOK /\ DesiredHasNoDeadline)'
  <2>1. \/ prune'.pc = "done"
        \/ prune'.pc \in {"check", "putRetention"} /\ prune'.retention = prune.retention
    BY <1>1, <1>7, NextActionTypes
  <2> QED BY <1>3, <1>7, <2>1 DEF Evaluated
<1>8. ASSUME NEW a \in prune.todo, PruneCheck(a)
      PROVE  (CopiesOK /\ DesiredOK /\ DesiredHasNoDeadline)'
  <2> DEFINE apply == ShouldApplyRetentionPruneAction(a, retention.rows[a.version], prune.now)
             ix == Without(prune.index, a.version)
             rt == Without(prune.retention, a.version)
             q == [prune EXCEPT !.pc = "entry", !.target = a.version,
                                !.out = prune.out \cup {a.version}, !.index = ix, !.retention = rt]
             r == [prune EXCEPT !.pc = "artifact", !.target = a.version]
  <2>1. UNCHANGED retention /\ prune.pc = "check" /\ prune.pc \in Evaluated
    BY <1>8 DEF PruneCheck, Evaluated
  <2>2. /\ prune.retention \in RetentionFile /\ prune.deployed = named
        /\ a.kind = "unused" => a.version \notin named
    BY <1>1, <2>1 DEF CommandOK, Working
  <2>3. ASSUME apply, mirrored PROVE a.version # desired
    <3>1. a.version \in Versions
      BY <1>1 DEF Command, PruneActions
    <3>2. None \notin Versions
      BY CatalogConstants
    <3>3. retention.rows[a.version].expires # Never
      BY <2>3 DEF ShouldApplyRetentionPruneAction, RetentionExpired
    <3> QED BY <1>1, <2>3, <3>1, <3>2, <3>3 DEF DesiredHasNoDeadline
  <2>4. CASE apply /\ a.kind = "unused"
    <3>1. prune' = q
      BY <1>1, <1>8, <2>4 DEF PruneCheck, Command
    <3>2. rt.gen = prune.retention.gen /\ \A v \in named : rt.rows[v] = prune.retention.rows[v]
      BY <1>1, <2>2, <2>4 DEF Without, RetentionFile
    <3> HIDE DEF ix, rt, apply
    <3>3. q.pc = "entry" /\ q.target = a.version /\ q.retention = rt
      BY <1>1 DEF Command
    <3> HIDE DEF q
    <3> QED BY <1>3, <2>1, <2>3, <2>4, <3>1, <3>2, <3>3
  <2>5. CASE apply /\ a.kind # "unused"
    <3>1. prune' = r
      BY <1>1, <1>8, <2>5 DEF PruneCheck, Command
    <3>2. r.pc = "artifact" /\ r.target = a.version /\ r.retention = prune.retention
      BY <1>1 DEF Command
    <3> HIDE DEF r, apply
    <3> QED BY <1>3, <2>1, <2>3, <2>5, <3>1, <3>2
  <2>6. CASE ~apply
    <3>1. prune' = PruneNext(a)
      BY <1>8, <2>6 DEF PruneCheck
    <3> QED BY <1>7, <2>1, <3>1
  <2> QED BY <2>4, <2>5, <2>6
<1>9. CASE PruneEntry
  <2>1. /\ UNCHANGED retention /\ prune.pc = "entry" /\ prune'.pc = "artifact"
        /\ prune'.target = prune.target /\ prune'.retention = prune.retention
    BY <1>1, <1>9 DEF PruneEntry, Command
  <2>2. mirrored => prune.target # desired
    BY <1>1, <2>1 DEF DesiredOK
  <2> QED BY <1>3, <2>1, <2>2 DEF Evaluated
<1>10. CASE PruneArtifact
  <2>1. UNCHANGED retention /\ prune.pc \in Evaluated
        /\ prune' = PruneNext(CHOOSE b \in prune.todo : b.version = prune.target)
    BY <1>10 DEF PruneArtifact, Evaluated
  <2> QED BY <1>7, <2>1
<1>11. CASE PrunePutRetention
  <2>1. /\ prune.pc = "putRetention" /\ prune.pc \in Evaluated /\ prune.retention \in RetentionFile
        /\ prune.retention.gen <= retention.gen
        /\ prune.retention.gen = retention.gen =>
              \A v \in named : prune.retention.rows[v] = retention.rows[v]
    BY <1>1, <1>11 DEF PrunePutRetention, CommandOK, CopiesOK, Evaluated
  <2>2. CASE retention' = retention
    <3>1. prune' = PruneRefused
      BY <1>11, <2>2 DEF PrunePutRetention
    <3> QED BY <1>3, <1>4, <2>2, <3>1 DEF Evaluated
  <2>3. CASE retention' # retention
    <3>1. prune' = [prune EXCEPT !.pc = "putIndex"]
      BY <1>11, <2>3 DEF PrunePutRetention
    <3>2. prune'.pc = "putIndex" /\ prune'.retention = prune.retention
      BY <1>1, <3>1 DEF Command
    <3>3. /\ retention' \in RetentionFile /\ retention'.gen = retention.gen + 1
          /\ retention.gen = prune.retention.gen /\ retention'.rows = prune.retention.rows
      <4>1. retention' = Wrote(retention, prune.retention, prune.retention.rows)
        BY <1>11 DEF PrunePutRetention
      <4>2. prune.retention.rows \in [Versions -> Row \cup {None}]
        BY <2>1 DEF RetentionFile
      <4> QED BY <1>1, <2>1, <2>3, <4>1, <4>2, WroteRetention
    <3>4. CopiesOK'
      <4>1. ASSUME NEW p \in Publishers, pub[p].pc = "putRetention"
            PROVE  RetentionCopy(pub[p].seen)'
        <5>1. pub[p].seen \in RetentionFile /\ RetentionCopy(pub[p].seen)
          BY <1>1, <4>1 DEF CatalogInv, CallOK, CopiesOK
        <5> QED BY <1>2, <3>3, <5>1, OlderRetention DEF RetentionCopy
      <4>2. ASSUME sel.pc = "write" PROVE RetentionCopy(sel.seen)'
        <5>1. sel.seen \in RetentionFile /\ RetentionCopy(sel.seen)
          BY <1>1, <4>2 DEF CatalogInv, SelectionOK, CopiesOK
        <5> QED BY <1>2, <3>3, <5>1, OlderRetention DEF RetentionCopy
      <4>3. prune'.retention.gen <= retention'.gen /\ prune'.retention.gen # retention'.gen
        BY SMTT(60), <1>1, <3>2, <3>3 DEF RetentionFile
      <4> QED BY <1>2, <4>1, <4>2, <4>3 DEF CopiesOK
    <3>5. DesiredOK'
      BY <1>1, <1>2, <3>2 DEF DesiredOK
    <3>6. DesiredHasNoDeadline'
      BY <1>1, <1>2, <2>1, <3>3 DEF DesiredOK, DesiredHasNoDeadline
    <3> QED BY <3>4, <3>5, <3>6
  <2> QED BY <2>2, <2>3
<1> QED BY <1>5, <1>6, <1>8, <1>9, <1>10, <1>11 DEF Prune

LEMMA DesiredStep == DesiredInv /\ [Next]_vars => DesiredInv'
<1> SUFFICES ASSUME DesiredInv, [Next]_vars PROVE DesiredInv'
  OBVIOUS
<1>1. CatalogInv'
  BY CatalogStep DEF DesiredInv
<1> SUFFICES (CopiesOK /\ DesiredOK /\ DesiredHasNoDeadline)'
  BY <1>1 DEF DesiredInv
<1>2. ASSUME NEW p \in Publishers, Publish(p) \/ PublisherCrash(p)
      PROVE  (CopiesOK /\ DesiredOK /\ DesiredHasNoDeadline)'
  BY <1>2, PublishKeepsDesired, PutRetentionKeepsDesired
<1>3. CASE (\E v \in Versions : Select(v)) \/ Mirror \/ MirrorLost \/ LockExpires \/ Tick
  BY <1>3, SelectionKeepsDesired DEF Mirror
<1>4. CASE PruneStart \/ Prune \/ PruneCrash
  BY <1>4, PruneKeepsDesired
<1>5. CASE UNCHANGED vars
  BY <1>5 DEF vars, objects, requests, history, DesiredInv, CopiesOK, RetentionCopy, DesiredOK,
              DesiredHasNoDeadline
<1> QED BY <1>2, <1>3, <1>4, <1>5 DEF Next

LEMMA DesiredAlways == Spec => []DesiredInv
BY InitDesired, DesiredStep, PTL DEF Spec

\* retention.json follows the deploy chain: after a mirrored selection no
\* publish, refused or repeated write, crash or prune gives the desired version
\* a deadline or takes its row away.
THEOREM NoDeadline == Spec => []DesiredHasNoDeadline
<1>1. DesiredInv => DesiredHasNoDeadline
  BY DEF DesiredInv
<1> QED BY <1>1, DesiredAlways, PTL

\* Prune never deletes the artifacts of a desired version whose selection is
\* mirrored, although the desired version it was told of may be out of date:
\* the fresh retention row it reads before each deletion has no deadline.
THEOREM ArtifactsKept == Spec => DesiredArtifactsKept
<1>1. ASSUME DesiredInv, [Next]_vars, mirrored, desired # None, artifact[desired] # None
      PROVE  artifact'[desired] # None
  <2>1. ASSUME NEW p \in Publishers, Promote(p) PROVE artifact'[desired] # None
    <3>1. V(p) # desired => artifact'[desired] = artifact[desired]
      BY SMTT(60), <2>1 DEF Promote, DesiredInv, CatalogInv, TypeOK
    <3>2. V(p) = desired => artifact'[desired] = artifact[desired]
      BY <1>1, <2>1 DEF Promote, ArtifactMatches, V, DesiredInv, CatalogInv, TypeOK
    <3> QED BY <1>1, <3>1, <3>2
  <2>2. ASSUME PruneArtifact PROVE artifact'[desired] # None
    BY <1>1, <2>2 DEF PruneArtifact, DesiredInv, DesiredOK, CatalogInv, TypeOK
  <2>3. \/ UNCHANGED artifact
        \/ \E p \in Publishers : Promote(p)
        \/ PruneArtifact
    BY <1>1 DEF Next, vars, objects, Publish, Mirror, Prune, Prepare, AnswerAgain, UploadObjects,
         Adopt, ReadRetention, PutRetention, ReadIndex, PutIndex, Retry, Settle, PublisherCrash,
         Select, MirrorRead, MirrorWrite, MirrorLost, LockExpires, PruneStart, PruneLock,
         PruneReadIndex, PruneReadRetention, PruneCheck, PruneEntry,
         PrunePutRetention, PrunePutIndex, PruneCrash, Tick
  <2> QED BY <1>1, <2>1, <2>2, <2>3
<1>2. DesiredInv /\ [Next]_vars =>
        [mirrored /\ desired # None /\ artifact[desired] # None => artifact'[desired] # None]_vars
  BY <1>1
<1> QED BY <1>2, DesiredAlways, PTL DEF Spec, DesiredArtifactsKept

-----------------------------------------------------------------------------
(* What the index lists is complete, and what was answered "published"      *)
(* belongs to the declaration it was answered for.                          *)

\* Phases of a call that has found or written the entry of its declaration.
Identified == {"adopt", "retention", "putRetention", "index", "putIndex"}

\* What prune has read of retention.json still holds of the versions it has not
\* touched, but for the one whose entry it is about to delete.
RetentionTouched ==
    prune.pc \in Evaluated /\ prune.retention.gen = retention.gen =>
        \A v \in Versions \ touched :
            \/ prune.retention.rows[v] = retention.rows[v]
            \/ prune.pc = "entry" /\ v = prune.target

EntryHasArtifact ==
    \A v \in Versions \ touched : entry[v] # None => artifact[v] = digest[entry[v].decl]

AnsweredHasEntry ==
    \A d \in answered : entry[VersionOf[d]] # None /\ entry[VersionOf[d]].decl = d

\* A call writes the catalogs for an entry that is its own and with the time
\* that is in it, retention.json before index.json.
UnderWay(p) ==
    V(p) \notin touched =>
        /\ pub[p].pc \in Identified =>
              entry[V(p)] # None /\ entry[V(p)].decl = Declares[p]
        /\ pub[p].pc \in Identified \ {"adopt"} => pub[p].stamp = entry[V(p)].at
        /\ pub[p].pc \in {"index", "putIndex"} => retention.rows[V(p)] # None

CompleteInv ==
    /\ DesiredInv
    /\ RetentionTouched /\ EntryHasArtifact /\ AnsweredHasEntry
    /\ \A p \in Publishers : UnderWay(p)
    /\ IndexedIsComplete

\* What a step does to the entry and the artifact of a version that prune has
\* not touched: an object that is there stays as it is, and an entry is created
\* for the artifact its declaration names.
Uploads(p) ==
    /\ UploadObjects(p) /\ ArtifactMatches(Declares[p]) /\ entry[V(p)] = None
    /\ entry' = [entry EXCEPT ![V(p)] = [decl |-> Declares[p], at |-> pub[p].at]]
    /\ pub' = [pub EXCEPT ![p].pc = "retention", ![p].stamp = pub[p].at]

LEMMA ObjectTypes ==
    ASSUME CatalogInv
    PROVE  /\ artifact \in [Versions -> Digests \cup {None}]
           /\ entry \in [Versions -> Stored \cup {None}]
           /\ pub \in [Publishers -> Call] /\ prune \in Command
           /\ index \in IndexFile /\ retention \in RetentionFile
           /\ answered \subseteq Declarations
           /\ \A d \in Declarations : digest[d] \in Digests /\ digest[d] # None
<1>1. digest \in Contents
  BY DEF CatalogInv, TypeOK
<1>2. \A d \in Declarations : digest[d] \in Digests
  BY SMTT(60), <1>1 DEF Digests
<1> QED BY <1>2, NoneIsNoValue DEF CatalogInv, TypeOK

LEMMA EntryMoves ==
    ASSUME CatalogInv, [Next]_vars, NEW v \in Versions, v \notin touched'
    PROVE  /\ touched \subseteq touched'
           /\ \/ entry'[v] = entry[v]
              \/ \E p \in Publishers : V(p) = v /\ Uploads(p)
<1>1. entry \in [Versions -> Stored \cup {None}] /\ prune \in Command
  BY ObjectTypes
<1>2. ASSUME NEW p \in Publishers, UploadObjects(p)
      PROVE  entry'[v] = entry[v] \/ (V(p) = v /\ Uploads(p))
  <2>1. CASE Uploads(p)
    BY <1>1, <2>1 DEF Uploads
  <2> QED BY <1>2, <2>1 DEF UploadObjects, Uploads
<1>3. ASSUME PruneEntry PROVE entry'[v] = entry[v]
  <2>1. v # prune.target
    BY <1>3 DEF PruneEntry
  <2> QED BY <1>1, <1>3, <2>1 DEF PruneEntry
<1>4. \/ UNCHANGED entry
      \/ \E p \in Publishers : UploadObjects(p)
      \/ PruneEntry
  BY DEF Next, vars, objects, Publish, Mirror, Prune, Prepare, AnswerAgain, Promote, Adopt,
     ReadRetention, PutRetention, ReadIndex, PutIndex, Retry, Settle, PublisherCrash,
     Select, MirrorRead, MirrorWrite, MirrorLost, LockExpires, PruneStart, PruneLock,
     PruneReadIndex, PruneReadRetention, PruneCheck, PruneArtifact, PrunePutRetention,
     PrunePutIndex, PruneCrash, Tick
<1>5. touched \subseteq touched'
  BY DEF Next, vars, history, Publish, Mirror, Prune, Prepare, AnswerAgain, Promote,
     UploadObjects, Adopt, ReadRetention, PutRetention, ReadIndex, PutIndex, Retry, Settle,
     PublisherCrash, Select, MirrorRead, MirrorWrite, MirrorLost, LockExpires, PruneStart,
     PruneLock, PruneReadIndex, PruneReadRetention, PruneCheck, PruneEntry, PruneArtifact,
     PrunePutRetention, PrunePutIndex, PruneCrash, Tick
<1> QED BY <1>2, <1>3, <1>4, <1>5

LEMMA ArtifactMoves ==
    ASSUME CatalogInv, [Next]_vars, NEW v \in Versions, v \notin touched', artifact[v] # None
    PROVE  artifact'[v] = artifact[v]
<1>1. artifact \in [Versions -> Digests \cup {None}]
  BY ObjectTypes
<1>2. ASSUME NEW p \in Publishers, Promote(p) PROVE artifact'[v] = artifact[v]
  <2> DEFINE fits == artifact[V(p)] = None \/ ArtifactMatches(Declares[p])
             new == IF fits THEN digest[Declares[p]] ELSE artifact[V(p)]
  <2>1. artifact' = [artifact EXCEPT ![V(p)] = new]
    BY <1>2 DEF Promote
  <2>2. V(p) = v => new = artifact[v]
    BY DEF ArtifactMatches, V
  <2> HIDE DEF new
  <2> QED BY <1>1, <2>1, <2>2
<1>3. ASSUME PruneArtifact PROVE artifact'[v] = artifact[v]
  <2>1. v # prune.target
    BY <1>3 DEF PruneArtifact
  <2> QED BY <1>1, <1>3, <2>1 DEF PruneArtifact
<1>4. \/ UNCHANGED artifact
      \/ \E p \in Publishers : Promote(p)
      \/ PruneArtifact
  BY DEF Next, vars, objects, Publish, Mirror, Prune, Prepare, AnswerAgain, UploadObjects,
     Adopt, ReadRetention, PutRetention, ReadIndex, PutIndex, Retry, Settle, PublisherCrash,
     Select, MirrorRead, MirrorWrite, MirrorLost, LockExpires, PruneStart, PruneLock,
     PruneReadIndex, PruneReadRetention, PruneCheck, PruneEntry, PrunePutRetention,
     PrunePutIndex, PruneCrash, Tick
<1> QED BY <1>2, <1>3, <1>4

\* A retention row stays, unless prune deleted objects of the version.
LEMMA RetentionMoves ==
    ASSUME CompleteInv, [Next]_vars, NEW v \in Versions, v \notin touched',
           retention.rows[v] # None
    PROVE  retention'.rows[v] # None
<1>0. /\ CatalogInv /\ CopiesOK /\ SelectionOK /\ CommandOK /\ retention \in RetentionFile
      /\ v \notin touched
  BY EntryMoves, ObjectTypes DEF CompleteInv, DesiredInv, CatalogInv
<1>1. ASSUME NEW p \in Publishers, PutRetention(p) PROVE retention'.rows[v] # None
  <2> DEFINE c == pub[p]
             rows == UpsertPublishedRetention(c.seen.rows, V(p), c.stamp)
  <2>1. /\ c \in Call /\ c.stamp \in Nat /\ V(p) \in Versions /\ c.seen \in RetentionFile
        /\ RetentionCopy(c.seen) /\ retention' = Wrote(retention, c.seen, rows)
    BY <1>0, <1>1, VersionTypes DEF CatalogInv, TypeOK, CallOK, CopiesOK, PutRetention, Call
  <2>2. c.seen.rows \in [Versions -> Row \cup {None}]
    BY <2>1 DEF RetentionFile
  <2>3. UpsertRow(c.seen.rows[V(p)], c.stamp) \in Row
    BY <2>1, <2>2, UpsertTypes
  <2>4. rows[v] = c.seen.rows[v] \/ rows[v] \in Row
    BY <2>1, <2>2, <2>3 DEF UpsertPublishedRetention
  <2> HIDE DEF rows, c
  <2>5. CASE retention.gen = c.seen.gen
    BY <2>1, <2>4, <2>5, NoneIsNoValue DEF Wrote, RetentionCopy
  <2>6. CASE retention.gen # c.seen.gen
    BY <2>1, <2>6 DEF Wrote
  <2> QED BY <2>5, <2>6
<1>2. ASSUME MirrorWrite PROVE retention'.rows[v] # None
  <2> DEFINE rows == ApplyDesiredVersionTransition(sel.seen.rows, sel.from, sel.to, sel.at)
  <2>1. /\ sel \in Selection /\ sel.at \in Nat /\ sel.to \in Versions /\ sel.seen \in RetentionFile
        /\ RetentionCopy(sel.seen) /\ retention' = Wrote(retention, sel.seen, rows)
    BY <1>0, <1>2 DEF CatalogInv, TypeOK, SelectionOK, CopiesOK, MirrorWrite, Selection
  <2>2. sel.seen.rows \in [Versions -> Row \cup {None}]
    BY <2>1 DEF RetentionFile
  <2>3. rows[v] = sel.seen.rows[v] \/ rows[v] \in Row
    <3>1. \A row \in Row \cup {None}, e \in Nat \cup {Never} : Transitioned(row, sel.at, e) \in Row
      BY <2>1 DEF Transitioned, Row, Never
    <3>2. sel.at + DeployedRetention \in Nat \cup {Never} /\ Never \in Nat \cup {Never}
      BY SMTT(60), <2>1, CatalogConstants
    <3> DEFINE first == [w \in Versions |->
                           IF w = sel.from
                           THEN Transitioned(sel.seen.rows[w], sel.at, sel.at + DeployedRetention)
                           ELSE sel.seen.rows[w]]
    <3>3. first \in [Versions -> Row \cup {None}]
      BY <2>2, <3>1, <3>2
    <3>4. first[v] = sel.seen.rows[v] \/ first[v] \in Row
      BY <2>2, <3>1, <3>2
    <3>5. rows = [first EXCEPT ![sel.to] = Transitioned(first[sel.to], sel.at, Never)]
      BY DEF ApplyDesiredVersionTransition
    <3> HIDE DEF first, rows
    <3> QED BY <2>1, <3>1, <3>2, <3>3, <3>4, <3>5
  <2> HIDE DEF rows
  <2>4. CASE retention.gen = sel.seen.gen
    BY <2>1, <2>3, <2>4, NoneIsNoValue DEF Wrote, RetentionCopy
  <2>5. CASE retention.gen # sel.seen.gen
    BY <2>1, <2>5 DEF Wrote
  <2> QED BY <2>4, <2>5
<1>3. ASSUME PrunePutRetention PROVE retention'.rows[v] # None
  <2>1. retention' = Wrote(retention, prune.retention, prune.retention.rows) /\ prune.pc = "putRetention"
    BY <1>3 DEF PrunePutRetention
  <2>2. prune.retention.gen = retention.gen => prune.retention.rows[v] = retention.rows[v]
    BY <1>0, <2>1 DEF CompleteInv, RetentionTouched, Evaluated
  <2> QED BY <2>1, <2>2 DEF Wrote
<1>4. \/ UNCHANGED retention
      \/ \E p \in Publishers : PutRetention(p)
      \/ MirrorWrite \/ PrunePutRetention
  BY DEF Next, vars, Publish, Mirror, Prune, Prepare, AnswerAgain, Promote, UploadObjects,
     Adopt, ReadRetention, ReadIndex, PutIndex, Retry, Settle, PublisherCrash, Select,
     MirrorRead, MirrorLost, LockExpires, PruneStart, PruneLock, PruneReadIndex,
     PruneReadRetention, PruneCheck, PruneEntry, PruneArtifact, PrunePutIndex, PruneCrash, Tick
<1> QED BY <1>1, <1>2, <1>3, <1>4

\* An index row appears when a call writes it.
LEMMA IndexMoves ==
    ASSUME CatalogInv, [Next]_vars, NEW v \in Versions
    PROVE  \/ index'.rows[v] = index.rows[v]
           \/ index'.rows[v] = None
           \/ \E p \in Publishers :
                 /\ V(p) = v /\ pub[p].pc = "putIndex"
                 /\ index'.rows[v] = [decl |-> Declares[p], at |-> pub[p].stamp]
                 /\ UNCHANGED <<entry, artifact, retention, digest>>
<1>1. ASSUME NEW p \in Publishers, PutIndex(p)
      PROVE  \/ index'.rows[v] = index.rows[v]
             \/ V(p) = v /\ index'.rows[v] = [decl |-> Declares[p], at |-> pub[p].stamp]
  <2> DEFINE c == pub[p]
             row == [decl |-> Declares[p], at |-> c.stamp]
             rows == UpsertAppIndex(c.seen.rows, Declares[p], c.stamp)
  <2>1. index' = Wrote(index, c.seen, rows) /\ rows = [c.seen.rows EXCEPT ![V(p)] = row]
    BY <1>1 DEF PutIndex, UpsertAppIndex, V
  <2>2. c.seen \in IndexFile /\ (c.seen.gen = index.gen => c.seen.rows = index.rows)
    BY <1>1 DEF CatalogInv, CallOK, PutIndex
  <2> HIDE DEF row
  <2>3. rows[v] = c.seen.rows[v] \/ (V(p) = v /\ rows[v] = row)
    BY <2>1, <2>2 DEF IndexFile
  <2> HIDE DEF rows
  <2> QED BY <2>1, <2>2, <2>3 DEF Wrote, row
<1>2. ASSUME PrunePutIndex PROVE index'.rows[v] = index.rows[v] \/ index'.rows[v] = None
  <2>1. index' = Wrote(index, prune.index, prune.index.rows)
    BY <1>2 DEF PrunePutIndex
  <2>2. CopyOK
    BY <1>2 DEF CatalogInv, CommandOK, PrunePutIndex, Evaluated
  <2> QED BY <2>1, <2>2 DEF CopyOK, Wrote
<1>3. \/ UNCHANGED index
      \/ \E p \in Publishers : PutIndex(p)
      \/ PrunePutIndex
  BY DEF Next, vars, Publish, Mirror, Prune, Prepare, AnswerAgain, Promote, UploadObjects,
     Adopt, ReadRetention, PutRetention, ReadIndex, Retry, Settle, PublisherCrash, Select,
     MirrorRead, MirrorWrite, MirrorLost, LockExpires, PruneStart, PruneLock, PruneReadIndex,
     PruneReadRetention, PruneCheck, PruneEntry, PruneArtifact, PrunePutRetention, PruneCrash,
     Tick
<1> QED BY <1>1, <1>2, <1>3 DEF PutIndex, objects

\* How a call comes to a phase in which it writes a catalog.
CallMoves(p) ==
    LET c == pub[p]
        d == pub'[p]
    IN  \/ d = c
        \/ d.pc \notin Identified
        \/ Uploads(p) /\ d.stamp = c.at
        \/ d.pc = "adopt" /\ EntryMatches(Declares[p], c.at)
        \/ c.pc = "adopt" /\ d.pc = "retention" /\ (entry[V(p)] # None => d.stamp = entry[V(p)].at)
        \/ /\ c.pc \in {"retention", "putRetention"} /\ d.stamp = c.stamp
           /\ \/ d.pc \in {"retention", "putRetention"}
              \/ d.pc = "index" /\ retention'.rows[V(p)] # None
        \/ /\ c.pc \in {"index", "putIndex"} /\ d.pc \in {"index", "putIndex"}
           /\ d.stamp = c.stamp

\* A refused write keeps the time of the call.
LEMMA ConflictedStamp ==
    ASSUME NEW call \in Call, NEW again \in {"retention", "index"}
    PROVE  \/ Conflicted(call, again).pc = again /\ Conflicted(call, again).stamp = call.stamp
           \/ Conflicted(call, again).pc = "conflict"
<1>1. CASE call.cas + 1 < Attempts
  BY <1>1 DEF Conflicted, Call
<1>2. CASE ~(call.cas + 1 < Attempts)
  BY <1>2, CallTypes DEF Conflicted
<1> QED BY <1>1, <1>2

LEMMA OwnCallMoves ==
    ASSUME DesiredInv, NEW p \in Publishers, Publish(p) \/ PublisherCrash(p)
    PROVE  CallMoves(p)
<1> DEFINE c == pub[p]
<1>1. /\ c \in Call /\ pub \in [Publishers -> Call] /\ CatalogInv /\ V(p) \in Versions
      /\ retention \in RetentionFile /\ Declares[p] \in Declarations
  BY ObjectTypes, VersionTypes DEF DesiredInv
<1>2. IdlePublisher.pc \notin Identified
  BY DEF IdlePublisher, Identified
<1>3. CASE Prepare(p) \/ Promote(p) \/ Settle(p) \/ PublisherCrash(p)
  <2>1. \/ pub'[p] = IdlePublisher
        \/ pub'[p] = [IdlePublisher EXCEPT !.pc = "promote", !.at = clock]
        \/ pub'[p] = [c EXCEPT !.pc = "upload"]
    BY <1>1, <1>3 DEF Prepare, Promote, Settle, PublisherCrash
  <2>2. [IdlePublisher EXCEPT !.pc = "promote", !.at = clock].pc = "promote"
    BY DEF IdlePublisher
  <2>3. [c EXCEPT !.pc = "upload"].pc = "upload"
    BY <1>1 DEF Call
  <2> QED BY <1>2, <2>1, <2>2, <2>3 DEF CallMoves, Identified
<1>4. CASE AnswerAgain(p)
  BY <1>4 DEF AnswerAgain, CallMoves
<1>5. CASE UploadObjects(p)
  <2>1. CASE ~ArtifactMatches(Declares[p])
    <3> DEFINE how == IF artifact[V(p)] = None THEN "failed" ELSE "conflict"
    <3>1. pub'[p] = Fail(c, how)
      BY <1>1, <1>5, <2>1 DEF UploadObjects
    <3>2. Fail(c, how).pc \in {"failed", "conflict"}
      BY <1>1, CallTypes
    <3> QED BY <3>1, <3>2 DEF CallMoves, Identified
  <2>2. CASE ArtifactMatches(Declares[p]) /\ entry[V(p)] = None
    <3>1. Uploads(p)
      BY <1>5, <2>2 DEF UploadObjects, Uploads
    <3>2. pub'[p].stamp = c.at
      BY <1>1, <3>1 DEF Uploads, Call
    <3> QED BY <3>1, <3>2 DEF CallMoves
  <2>3. CASE ArtifactMatches(Declares[p]) /\ entry[V(p)] # None
    <3>1. \/ pub'[p] = [c EXCEPT !.pc = "adopt"] /\ EntryMatches(Declares[p], c.at)
          \/ pub'[p] = Fail(c, "conflict")
      BY <1>1, <1>5, <2>3 DEF UploadObjects
    <3>2. [c EXCEPT !.pc = "adopt"].pc = "adopt" /\ Fail(c, "conflict").pc = "conflict"
      BY <1>1, CallTypes DEF Call
    <3> QED BY <3>1, <3>2 DEF CallMoves, Identified
  <2> QED BY <2>1, <2>2, <2>3
<1>6. CASE Adopt(p)
  <2> DEFINE s == IF entry[V(p)] = None THEN c.at ELSE entry[V(p)].at
  <2>1. pub' = [pub EXCEPT ![p].pc = "retention", ![p].stamp = s] /\ c.pc = "adopt"
    BY <1>6 DEF Adopt
  <2>2. entry[V(p)] # None => s = entry[V(p)].at
    OBVIOUS
  <2> HIDE DEF s
  <2>3. pub'[p].pc = "retention" /\ pub'[p].stamp = s
    BY <1>1, <2>1 DEF Call
  <2> QED BY <2>1, <2>2, <2>3 DEF CallMoves
<1>7. CASE ReadRetention(p)
  <2>1. c.pc = "retention" /\ UNCHANGED retention
    BY <1>7 DEF ReadRetention
  <2>2. CASE RetentionUnchanged(retention.rows, V(p), c.stamp)
    <3>1. pub'[p] = [c EXCEPT !.pc = "index", !.cas = 0]
      BY <1>1, <1>7, <2>2 DEF ReadRetention
    <3>2. pub'[p].pc = "index" /\ pub'[p].stamp = c.stamp
      BY <1>1, <3>1 DEF Call
    <3>3. retention.rows[V(p)] # None
      BY <2>2 DEF RetentionUnchanged
    <3> QED BY <2>1, <3>2, <3>3 DEF CallMoves
  <2>3. CASE ~RetentionUnchanged(retention.rows, V(p), c.stamp)
    <3>1. pub'[p] = [c EXCEPT !.pc = "putRetention", !.seen = retention]
      BY <1>1, <1>7, <2>3 DEF ReadRetention
    <3>2. pub'[p].pc = "putRetention" /\ pub'[p].stamp = c.stamp
      BY <1>1, <3>1 DEF Call
    <3> QED BY <2>1, <3>2 DEF CallMoves
  <2> QED BY <2>2, <2>3
<1>8. CASE PutRetention(p)
  <2> DEFINE rows == UpsertPublishedRetention(c.seen.rows, V(p), c.stamp)
  <2>1. c.pc = "putRetention" /\ retention' = Wrote(retention, c.seen, rows)
    BY <1>8 DEF PutRetention
  <2>2. CASE retention' # retention
    <3>1. pub'[p] = [c EXCEPT !.pc = "index", !.cas = 0, !.seen = None]
      BY <1>1, <1>8, <2>2 DEF PutRetention
    <3>2. pub'[p].pc = "index" /\ pub'[p].stamp = c.stamp
      BY <1>1, <3>1 DEF Call
    <3>3. c.seen \in RetentionFile /\ c.seen.rows \in [Versions -> Row \cup {None}] /\ c.stamp \in Nat
      BY <1>1, <2>1 DEF CatalogInv, CallOK, RetentionFile, Call
    <3>4. rows[V(p)] \in Row
      BY <1>1, <3>3, UpsertTypes DEF UpsertPublishedRetention
    <3> HIDE DEF rows
    <3>5. retention'.rows = rows
      BY <2>1, <2>2 DEF Wrote
    <3> QED BY <2>1, <3>2, <3>4, <3>5, NoneIsNoValue DEF CallMoves
  <2>3. CASE retention' = retention
    <3>1. pub'[p] = Conflicted(c, "retention")
      BY <1>1, <1>8, <2>3 DEF PutRetention
    <3> QED BY <1>1, <2>1, <3>1, ConflictedStamp DEF CallMoves, Identified
  <2> QED BY <2>2, <2>3
<1>9. CASE ReadIndex(p)
  <2>1. \/ pub'[p] = Fail(c, "conflict")
        \/ pub'[p] = [c EXCEPT !.pc = "settle", !.cas = 0]
        \/ pub'[p] = [c EXCEPT !.pc = "putIndex", !.seen = index]
    BY <1>1, <1>9 DEF ReadIndex
  <2>2. Fail(c, "conflict").pc = "conflict" /\ c.pc = "index"
    BY <1>1, <1>9, CallTypes DEF ReadIndex
  <2>3. \/ pub'[p].pc \in {"conflict", "settle"}
        \/ pub'[p].pc = "putIndex" /\ pub'[p].stamp = c.stamp
    BY <1>1, <2>1, <2>2 DEF Call
  <2> QED BY <2>2, <2>3 DEF CallMoves, Identified
<1>10. CASE PutIndex(p)
  <2>1. \/ pub'[p] = [c EXCEPT !.pc = "settle", !.cas = 0, !.seen = None]
        \/ pub'[p] = Conflicted(c, "index")
    BY <1>1, <1>10 DEF PutIndex
  <2>2. CASE pub'[p] = [c EXCEPT !.pc = "settle", !.cas = 0, !.seen = None]
    <3>1. pub'[p].pc = "settle"
      BY <1>1, <2>2 DEF Call
    <3> QED BY <3>1 DEF CallMoves, Identified
  <2>3. CASE pub'[p] = Conflicted(c, "index")
    BY <1>1, <1>10, <2>3, ConflictedStamp DEF CallMoves, Identified, PutIndex
  <2> QED BY <2>1, <2>2, <2>3
<1>11. CASE Retry(p)
  <2>1. pub'[p].pc \in {"upload", "settle"}
    BY <1>1, <1>11 DEF Retry, Call
  <2> QED BY <2>1 DEF CallMoves, Identified
<1> QED BY <1>3, <1>4, <1>5, <1>6, <1>7, <1>8, <1>9, <1>10, <1>11 DEF Publish

LEMMA EveryCallMoves ==
    ASSUME DesiredInv, [Next]_vars, NEW p \in Publishers
    PROVE  CallMoves(p)
<1>1. ASSUME NEW q \in Publishers, q # p, Publish(q) \/ PublisherCrash(q)
      PROVE  pub'[p] = pub[p]
  <2>1. pub \in [Publishers -> Call]
    BY ObjectTypes DEF DesiredInv
  <2> QED BY <1>1, <2>1 DEF Publish, PublisherCrash, Prepare, AnswerAgain, Promote,
        UploadObjects, Adopt, ReadRetention, PutRetention, ReadIndex, PutIndex, Retry, Settle
<1>2. CASE \E q \in Publishers : Publish(q) \/ PublisherCrash(q)
  BY <1>1, <1>2, OwnCallMoves DEF CallMoves
<1>3. CASE UNCHANGED pub
  BY <1>3 DEF CallMoves
<1> QED BY <1>2, <1>3 DEF Next, vars, Mirror, Prune, Select, MirrorRead, MirrorWrite,
      MirrorLost, LockExpires, PruneStart, PruneLock, PruneReadIndex, PruneReadRetention,
      PruneCheck, PruneEntry, PruneArtifact, PrunePutRetention, PrunePutIndex, PruneCrash, Tick

\* What happens to prune's copy of retention.json: it is read, it loses the
\* version whose entry goes next, or it stays.
CopyMoves ==
    \/ prune'.pc \notin Evaluated
    \/ prune'.retention = retention /\ UNCHANGED retention
    \/ /\ prune.pc \in Evaluated
       /\ prune'.retention.gen = prune.retention.gen
       /\ \A v \in Versions \ touched' :
             \/ /\ prune'.retention.rows[v] = prune.retention.rows[v]
                /\ prune.pc = "entry" => v # prune.target
             \/ prune'.pc = "entry" /\ v = prune'.target

LEMMA EveryCopyMoves ==
    ASSUME CatalogInv, [Next]_vars
    PROVE  CopyMoves
<1>1. prune \in Command /\ CommandOK
  BY ObjectTypes DEF CatalogInv
<1>2. IdlePrune.pc = "idle" /\ PruneDone.pc = "done" /\ PruneRefused.pc \in {"idle", "index"}
  BY <1>1, EndTypes DEF IdlePrune
<1>3. CASE PruneStart \/ PruneLock \/ PruneReadIndex \/ PrunePutIndex \/ PruneCrash
  <2>1. prune'.pc \in {"idle", "lock", "index", "retention", "done"}
    <3>1. CASE PruneStart
      BY <3>1 DEF PruneStart, IdlePrune
    <3>2. CASE PruneLock
      BY <1>1, <1>2, <3>2 DEF PruneLock, Command
    <3>3. CASE PruneReadIndex
      BY <1>1, <3>3 DEF PruneReadIndex, Command
    <3>4. CASE PrunePutIndex \/ PruneCrash
      BY <1>2, <3>4 DEF PrunePutIndex, PruneCrash
    <3> QED BY <1>3, <3>1, <3>2, <3>3, <3>4
  <2> QED BY <2>1 DEF CopyMoves, Evaluated
<1>4. CASE PruneReadRetention
  <2> DEFINE todo == EvaluateRetentionPrune(prune.index.rows, retention.rows, prune.desired,
                                            prune.deployed, prune.now)
  <2>1. /\ UNCHANGED retention
        /\ \/ prune' = PruneDone
           \/ prune' = [prune EXCEPT !.pc = "check", !.retention = retention, !.todo = todo]
    BY <1>4 DEF PruneReadRetention
  <2> HIDE DEF todo
  <2>2. prune'.pc = "done" \/ prune'.retention = retention
    BY <1>1, <1>2, <2>1 DEF Command
  <2> QED BY <2>1, <2>2 DEF CopyMoves, Evaluated
<1>5. ASSUME prune.pc \in Evaluated, prune.pc # "entry", NEW a, prune' = PruneNext(a)
      PROVE  CopyMoves
  <2>1. \/ prune'.pc = "done"
        \/ prune'.pc \in {"check", "putRetention"} /\ prune'.retention = prune.retention
    BY <1>1, <1>5, NextActionTypes
  <2> QED BY <1>5, <2>1 DEF CopyMoves, Evaluated
<1>6. ASSUME NEW a \in prune.todo, PruneCheck(a)
      PROVE  CopyMoves
  <2> DEFINE apply == ShouldApplyRetentionPruneAction(a, retention.rows[a.version], prune.now)
             ix == Without(prune.index, a.version)
             rt == Without(prune.retention, a.version)
             q == [prune EXCEPT !.pc = "entry", !.target = a.version,
                                !.out = prune.out \cup {a.version}, !.index = ix, !.retention = rt]
             r == [prune EXCEPT !.pc = "artifact", !.target = a.version]
  <2>1. prune.pc = "check" /\ prune.pc \in Evaluated
    BY <1>6 DEF PruneCheck, Evaluated
  <2>2. prune.retention \in RetentionFile
    BY <1>1, <2>1 DEF CommandOK
  <2>3. CASE apply /\ a.kind = "unused"
    <3>1. prune' = q
      BY <1>1, <1>6, <2>3 DEF PruneCheck, Command
    <3>2. /\ rt.gen = prune.retention.gen
          /\ \A v \in Versions \ {a.version} : rt.rows[v] = prune.retention.rows[v]
      BY <2>2 DEF Without, RetentionFile
    <3> HIDE DEF ix, rt, apply
    <3>3. q.pc = "entry" /\ q.target = a.version /\ q.retention = rt
      BY <1>1 DEF Command
    <3> HIDE DEF q
    <3> QED BY <2>1, <3>1, <3>2, <3>3 DEF CopyMoves
  <2>4. CASE apply /\ a.kind # "unused"
    <3>1. prune' = r
      BY <1>1, <1>6, <2>4 DEF PruneCheck, Command
    <3>2. r.pc = "artifact" /\ r.retention = prune.retention
      BY <1>1 DEF Command
    <3> HIDE DEF r, apply
    <3> QED BY <2>1, <3>1, <3>2 DEF CopyMoves
  <2>5. CASE ~apply
    BY <1>5, <1>6, <2>1, <2>5 DEF PruneCheck
  <2> QED BY <2>3, <2>4, <2>5
<1>7. CASE PruneEntry
  <2>1. prune.pc = "entry" /\ prune'.retention = prune.retention /\ prune.target \in touched'
    BY <1>1, <1>7 DEF PruneEntry, Command
  <2> QED BY <2>1 DEF CopyMoves, Evaluated
<1>8. CASE PruneArtifact
  <2>1. /\ prune.pc \in Evaluated /\ prune.pc # "entry"
        /\ prune' = PruneNext(CHOOSE b \in prune.todo : b.version = prune.target)
    BY <1>8 DEF PruneArtifact, Evaluated
  <2> QED BY <1>5, <2>1
<1>9. CASE PrunePutRetention
  <2>1. prune.pc = "putRetention" /\ (prune' = PruneRefused \/ prune' = [prune EXCEPT !.pc = "putIndex"])
    BY <1>9 DEF PrunePutRetention
  <2>2. prune'.pc \in {"idle", "index"} \/ prune'.retention = prune.retention
    BY <1>1, <1>2, <2>1 DEF Command
  <2> QED BY <2>1, <2>2 DEF CopyMoves, Evaluated
<1>10. CASE UNCHANGED prune
  BY <1>10 DEF CopyMoves
<1> QED BY <1>3, <1>4, <1>6, <1>7, <1>8, <1>9, <1>10 DEF Next, vars, Publish, Mirror, Prune,
      Prepare, AnswerAgain, Promote, UploadObjects, Adopt, ReadRetention, PutRetention,
      ReadIndex, PutIndex, Retry, Settle, PublisherCrash, Select, MirrorRead, MirrorWrite,
      MirrorLost, LockExpires, Tick

LEMMA RetentionTouchedKept ==
    ASSUME CompleteInv, [Next]_vars
    PROVE  RetentionTouched'
<1>0. CatalogInv /\ CopiesOK /\ CommandOK /\ retention \in RetentionFile /\ touched \subseteq touched'
  <2>1. CatalogInv /\ CopiesOK
    BY DEF CompleteInv, DesiredInv
  <2>2. touched \subseteq touched'
    BY DEF Next, vars, history, Publish, Mirror, Prune, Prepare, AnswerAgain, Promote,
       UploadObjects, Adopt, ReadRetention, PutRetention, ReadIndex, PutIndex, Retry, Settle,
       PublisherCrash, Select, MirrorRead, MirrorWrite, MirrorLost, LockExpires, PruneStart,
       PruneLock, PruneReadIndex, PruneReadRetention, PruneCheck, PruneEntry, PruneArtifact,
       PrunePutRetention, PrunePutIndex, PruneCrash, Tick
  <2> QED BY <2>1, <2>2, ObjectTypes DEF CatalogInv
<1>1. UNCHANGED retention \/ retention'.gen = retention.gen + 1
  <2>1. \/ UNCHANGED retention
        \/ \E seen, rows : retention' = Wrote(retention, seen, rows)
    BY DEF Next, vars, Publish, Mirror, Prune, Prepare, AnswerAgain, Promote, UploadObjects,
       Adopt, ReadRetention, PutRetention, ReadIndex, PutIndex, Retry, Settle, PublisherCrash,
       Select, MirrorRead, MirrorWrite, MirrorLost, LockExpires, PruneStart, PruneLock,
       PruneReadIndex, PruneReadRetention, PruneCheck, PruneEntry, PruneArtifact,
       PrunePutRetention, PrunePutIndex, PruneCrash, Tick
  <2>2. ASSUME NEW seen, NEW rows, retention' = Wrote(retention, seen, rows)
        PROVE  UNCHANGED retention \/ retention'.gen = retention.gen + 1
    BY SMTT(60), <2>2 DEF Wrote
  <2> QED BY <2>1, <2>2
<1> SUFFICES ASSUME prune'.pc \in Evaluated, prune'.retention.gen = retention'.gen,
                    NEW v \in Versions \ touched'
             PROVE  \/ prune'.retention.rows[v] = retention'.rows[v]
                    \/ prune'.pc = "entry" /\ v = prune'.target
  BY DEF RetentionTouched
<1>2. CASE prune'.retention = retention /\ UNCHANGED retention
  BY <1>2
<1>3. CASE /\ prune.pc \in Evaluated
           /\ prune'.retention.gen = prune.retention.gen
           /\ \/ /\ prune'.retention.rows[v] = prune.retention.rows[v]
                 /\ prune.pc = "entry" => v # prune.target
              \/ prune'.pc = "entry" /\ v = prune'.target
  <2>1. /\ prune.retention \in RetentionFile /\ prune.retention.gen \in Nat
        /\ retention.gen \in Nat /\ prune.retention.gen <= retention.gen
    BY <1>0, <1>3 DEF CommandOK, CopiesOK, RetentionFile
  <2>2. UNCHANGED retention
    BY SMTT(60), <1>1, <1>3, <2>1
  <2>3. v \in Versions \ touched /\ prune.retention.gen = retention.gen
    BY <1>0, <1>3, <2>2
  <2>4. \/ prune.retention.rows[v] = retention.rows[v]
        \/ prune.pc = "entry" /\ v = prune.target
    BY <1>3, <2>3 DEF CompleteInv, RetentionTouched
  <2> QED BY <1>3, <2>2, <2>4
<1> QED BY <1>0, <1>2, <1>3, EveryCopyMoves DEF CopyMoves

LEMMA EntryHasArtifactKept ==
    ASSUME CompleteInv, [Next]_vars
    PROVE  EntryHasArtifact'
<1>0. /\ CatalogInv /\ UNCHANGED digest
  BY DEF CompleteInv, DesiredInv, Next, vars, Publish, Mirror, Prune, Prepare, AnswerAgain,
     Promote, UploadObjects, Adopt, ReadRetention, PutRetention, ReadIndex, PutIndex, Retry,
     Settle, PublisherCrash, Select, MirrorRead, MirrorWrite, MirrorLost, LockExpires,
     PruneStart, PruneLock, PruneReadIndex, PruneReadRetention, PruneCheck, PruneEntry,
     PruneArtifact, PrunePutRetention, PrunePutIndex, PruneCrash, Tick
<1> SUFFICES ASSUME NEW v \in Versions, v \notin touched', entry'[v] # None
             PROVE  artifact'[v] = digest[entry'[v].decl]
  BY <1>0 DEF EntryHasArtifact
<1>1. CASE entry'[v] = entry[v]
  <2>1. v \in Versions \ touched
    BY <1>0, EntryMoves
  <2>2. artifact[v] = digest[entry[v].decl]
    BY <1>1, <2>1 DEF CompleteInv, EntryHasArtifact
  <2>3. entry[v].decl \in Declarations
    BY <1>0, <1>1, ObjectTypes DEF Stored
  <2>4. artifact[v] # None
    BY <1>0, <2>2, <2>3, ObjectTypes
  <2> QED BY <1>0, <1>1, <2>2, <2>4, ArtifactMoves
<1>2. ASSUME NEW p \in Publishers, V(p) = v, Uploads(p)
      PROVE  artifact'[v] = digest[entry'[v].decl]
  <2> DEFINE e == [decl |-> Declares[p], at |-> pub[p].at]
  <2>1. entry' = [entry EXCEPT ![v] = e] /\ e.decl = Declares[p]
    BY <1>2 DEF Uploads
  <2> HIDE DEF e
  <2>2. entry'[v].decl = Declares[p]
    BY <1>0, <2>1, ObjectTypes
  <2>3. UNCHANGED artifact /\ artifact[v] = digest[Declares[p]]
    BY <1>2 DEF Uploads, UploadObjects, ArtifactMatches, V
  <2> QED BY <2>2, <2>3
<1> QED BY <1>0, <1>1, <1>2, EntryMoves

LEMMA AnsweredHasEntryKept ==
    ASSUME CompleteInv, [Next]_vars
    PROVE  AnsweredHasEntry'
<1>0. /\ CatalogInv /\ entry \in [Versions -> Stored \cup {None}]
      /\ answered \subseteq Declarations
  BY ObjectTypes DEF CompleteInv, DesiredInv
<1>1. ASSUME NEW d \in answered, ~PruneEntry
      PROVE  entry'[VersionOf[d]] = entry[VersionOf[d]]
  <2>1. VersionOf[d] \in Versions /\ entry[VersionOf[d]] # None
    BY <1>0, VersionTypes DEF CompleteInv, AnsweredHasEntry
  <2>2. ASSUME NEW p \in Publishers, UploadObjects(p)
        PROVE  entry'[VersionOf[d]] = entry[VersionOf[d]]
    <3>1. CASE UNCHANGED entry
      BY <3>1
    <3>2. CASE /\ entry[V(p)] = None
               /\ entry' = [entry EXCEPT ![V(p)] = [decl |-> Declares[p], at |-> pub[p].at]]
      BY <1>0, <2>1, <3>2
    <3> QED BY <2>2, <3>1, <3>2 DEF UploadObjects
  <2> QED BY <1>1, <2>2 DEF Next, vars, objects, Publish, Mirror, Prune, Prepare, AnswerAgain,
        Promote, Adopt, ReadRetention, PutRetention, ReadIndex, PutIndex, Retry, Settle,
        PublisherCrash, Select, MirrorRead, MirrorWrite, MirrorLost, LockExpires, PruneStart,
        PruneLock, PruneReadIndex, PruneReadRetention, PruneCheck, PruneArtifact,
        PrunePutRetention, PrunePutIndex, PruneCrash, Tick
<1>2. CASE PruneEntry
  <2> SUFFICES ASSUME NEW d \in answered'
               PROVE  entry'[VersionOf[d]] # None /\ entry'[VersionOf[d]].decl = d
    BY DEF AnsweredHasEntry
  <2>1. d \in answered /\ VersionOf[d] # prune.target
    BY <1>2 DEF PruneEntry
  <2>2. entry'[VersionOf[d]] = entry[VersionOf[d]]
    BY <1>0, <1>2, <2>1, VersionTypes DEF PruneEntry
  <2> QED BY <2>1, <2>2 DEF CompleteInv, AnsweredHasEntry
<1>3. ASSUME NEW p \in Publishers, AnswerAgain(p) \/ Settle(p)
      PROVE  AnsweredHasEntry'
  <2>1. UNCHANGED entry /\ answered' \subseteq answered \cup {Declares[p]}
    BY <1>3 DEF AnswerAgain, Settle, objects
  <2>2. Declares[p] \in answered' => Declares[p] \in answered \/ Published(Declares[p])
    BY <1>3 DEF AnswerAgain, Settle
  <2> QED BY <2>1, <2>2 DEF CompleteInv, AnsweredHasEntry, Published
<1>4. CASE UNCHANGED answered /\ ~PruneEntry
  BY <1>1, <1>4 DEF CompleteInv, AnsweredHasEntry
<1> QED BY <1>2, <1>3, <1>4 DEF Next, vars, history, Publish, Mirror, Prune, Prepare, Promote,
      UploadObjects, Adopt, ReadRetention, PutRetention, ReadIndex, PutIndex, Retry,
      PublisherCrash, Select, MirrorRead, MirrorWrite, MirrorLost, LockExpires, PruneStart,
      PruneLock, PruneReadIndex, PruneReadRetention, PruneCheck, PruneArtifact,
      PrunePutRetention, PrunePutIndex, PruneCrash, Tick

LEMMA UnderWayKept ==
    ASSUME CompleteInv, [Next]_vars, NEW p \in Publishers
    PROVE  UnderWay(p)'
<1> DEFINE v == V(p)
           c == pub[p]
           d == pub'[p]
<1>0. /\ CatalogInv /\ DesiredInv /\ v \in Versions /\ UnderWay(p) /\ CallMoves(p)
      /\ entry \in [Versions -> Stored \cup {None}] /\ pub \in [Publishers -> Call]
      /\ Declares[p] \in Declarations /\ c.at \in Nat
  BY ObjectTypes, VersionTypes, EveryCallMoves DEF CompleteInv, DesiredInv, Call
<1> SUFFICES ASSUME v \notin touched', d.pc \in Identified
             PROVE  /\ entry'[v] # None /\ entry'[v].decl = Declares[p]
                    /\ d.pc # "adopt" => d.stamp = entry'[v].at
                    /\ d.pc \in {"index", "putIndex"} => retention'.rows[v] # None
  BY DEF UnderWay, V, Identified
<1>1. v \notin touched /\ (retention.rows[v] # None => retention'.rows[v] # None)
  BY <1>0, EntryMoves, RetentionMoves
<1>2. ASSUME NEW q \in Publishers, V(q) = v, Uploads(q)
      PROVE  q = p
  <2>1. entry[v] = None
    BY <1>2 DEF Uploads
  <2>2. c.pc \notin Identified
    BY <1>0, <1>1, <2>1 DEF UnderWay
  <2>3. q # p => d = c
    BY <1>0, <1>2 DEF Uploads
  <2> QED BY <2>2, <2>3
<1>3. CASE Uploads(p)
  <2> DEFINE e == [decl |-> Declares[p], at |-> c.at]
  <2>1. e \in Stored /\ e.decl = Declares[p] /\ e.at = c.at
    BY <1>0 DEF Stored
  <2>2. entry' = [entry EXCEPT ![v] = e]
    BY <1>3 DEF Uploads
  <2>3. d.pc = "retention" /\ d.stamp = c.at
    BY <1>0, <1>3 DEF Uploads, Call
  <2> HIDE DEF e
  <2>4. entry'[v] = e
    BY <1>0, <2>2
  <2> QED BY <2>1, <2>3, <2>4, NoneIsNoValue
<1>4. CASE ~Uploads(p)
  <2>1. entry'[v] = entry[v]
    BY <1>0, <1>2, <1>4, EntryMoves
  <2>2. c.pc \in Identified => entry[v] # None /\ entry[v].decl = Declares[p]
    BY <1>0, <1>1 DEF UnderWay
  <2>3. c.pc \in Identified \ {"adopt"} => c.stamp = entry[v].at
    BY <1>0, <1>1 DEF UnderWay
  <2>4. c.pc \in {"index", "putIndex"} => retention'.rows[v] # None
    BY <1>0, <1>1 DEF UnderWay
  <2>5. CASE d = c
    BY <2>1, <2>2, <2>3, <2>4, <2>5 DEF Identified
  <2>6. CASE d.pc = "adopt" /\ EntryMatches(Declares[p], c.at)
    BY <2>1, <2>6 DEF EntryMatches, V
  <2>7. CASE c.pc = "adopt" /\ d.pc = "retention" /\ (entry[v] # None => d.stamp = entry[v].at)
    BY <2>1, <2>2, <2>7 DEF Identified
  <2>8. CASE /\ c.pc \in {"retention", "putRetention"} /\ d.stamp = c.stamp
             /\ \/ d.pc \in {"retention", "putRetention"}
                \/ d.pc = "index" /\ retention'.rows[v] # None
    BY <2>1, <2>2, <2>3, <2>8 DEF Identified
  <2>9. CASE /\ c.pc \in {"index", "putIndex"} /\ d.pc \in {"index", "putIndex"}
             /\ d.stamp = c.stamp
    BY <2>1, <2>2, <2>3, <2>4, <2>9 DEF Identified
  <2> QED BY <1>0, <1>4, <2>5, <2>6, <2>7, <2>8, <2>9 DEF CallMoves
<1> QED BY <1>3, <1>4

LEMMA IndexedKept ==
    ASSUME CompleteInv, [Next]_vars, EntryHasArtifact'
    PROVE  IndexedIsComplete'
<1>0. CatalogInv /\ entry \in [Versions -> Stored \cup {None}]
  BY ObjectTypes DEF CompleteInv, DesiredInv
<1> SUFFICES ASSUME NEW v \in Versions, v \notin touched', index'.rows[v] # None
             PROVE  entry'[v] = index'.rows[v] /\ retention'.rows[v] # None
  BY DEF IndexedIsComplete, EntryHasArtifact
<1>1. /\ v \notin touched /\ (retention.rows[v] # None => retention'.rows[v] # None)
      /\ entry[v] # None => entry'[v] = entry[v]
  BY <1>0, EntryMoves, RetentionMoves DEF Uploads
<1>2. CASE index'.rows[v] = index.rows[v]
  BY <1>1, <1>2 DEF CompleteInv, IndexedIsComplete
<1>3. ASSUME NEW p \in Publishers, V(p) = v, pub[p].pc = "putIndex",
             index'.rows[v] = [decl |-> Declares[p], at |-> pub[p].stamp]
      PROVE  entry'[v] = index'.rows[v] /\ retention'.rows[v] # None
  <2>1. /\ entry[v] # None /\ entry[v].decl = Declares[p] /\ entry[v].at = pub[p].stamp
        /\ retention.rows[v] # None
    BY <1>1, <1>3 DEF CompleteInv, UnderWay, Identified
  <2>2. entry[v] \in Stored
    BY <1>0, <2>1
  <2>3. entry[v] = [decl |-> Declares[p], at |-> pub[p].stamp]
    BY SMTT(60), <2>1, <2>2 DEF Stored
  <2> QED BY <1>1, <1>3, <2>1, <2>3
<1> QED BY <1>0, <1>2, <1>3, IndexMoves

LEMMA CompleteStep == CompleteInv /\ [Next]_vars => CompleteInv'
<1> SUFFICES ASSUME CompleteInv, [Next]_vars PROVE CompleteInv'
  OBVIOUS
<1>1. DesiredInv'
  BY DesiredStep DEF CompleteInv
<1> QED BY <1>1, RetentionTouchedKept, EntryHasArtifactKept, AnsweredHasEntryKept,
      UnderWayKept, IndexedKept DEF CompleteInv

LEMMA InitComplete == Init => CompleteInv
<1> SUFFICES ASSUME Init PROVE CompleteInv
  OBVIOUS
<1> DEFINE seed(v) == CHOOSE d \in Seeded : VersionOf[d] = v
           seeded == {VersionOf[d] : d \in Seeded}
           fresh == [v \in Versions |-> IF v \in seeded THEN UpsertRow(None, 0) ELSE None]
<1>1. DesiredInv
  BY InitDesired
<1>2. \A d \in Seeded : seed(VersionOf[d]) = d
  BY CatalogConstants
<1>3. /\ artifact = [v \in Versions |-> IF v \in seeded THEN digest[seed(v)] ELSE None]
      /\ entry = [v \in Versions |-> IF v \in seeded THEN [decl |-> seed(v), at |-> 0] ELSE None]
      /\ index.rows = entry /\ answered = Seeded
  BY DEF Init
<1>4. ASSUME NEW d \in Seeded
      PROVE  LET v == VersionOf[d] IN
             /\ v \in Versions /\ entry[v] \in Stored /\ entry[v].decl = d /\ artifact[v] = digest[d]
  <2> DEFINE v == VersionOf[d]
             e == [decl |-> d, at |-> 0]
  <2>1. v \in Versions /\ v \in seeded /\ d \in Declarations
    BY CatalogConstants
  <2>2. entry[v] = e /\ artifact[v] = digest[d]
    BY <1>2, <1>3, <2>1
  <2>3. e \in Stored /\ e.decl = d
    BY <2>1 DEF Stored
  <2> HIDE DEF e
  <2> QED BY <2>1, <2>2, <2>3
<1>5. ASSUME NEW v \in Versions, entry[v] # None
      PROVE  \E d \in Seeded : v = VersionOf[d]
  BY <1>3, <1>5
<1>6. EntryHasArtifact /\ AnsweredHasEntry
  <2>1. AnsweredHasEntry
    BY <1>3, <1>4, NoneIsNoValue DEF AnsweredHasEntry
  <2>2. ASSUME NEW v \in Versions, entry[v] # None
        PROVE  artifact[v] = digest[entry[v].decl]
    <3>1. PICK d \in Seeded : v = VersionOf[d]
      BY <1>5, <2>2
    <3>2. entry[v].decl = d /\ artifact[v] = digest[d]
      BY <1>4, <3>1
    <3> QED BY <3>2
  <2> QED BY <2>1, <2>2 DEF EntryHasArtifact
<1>7. ASSUME NEW v \in seeded PROVE retention.rows[v] # None
  <2>1. v \in Versions /\ UpsertRow(None, 0) \in Row
    BY CatalogConstants, UpsertTypes
  <2>2. fresh[v] \in Row /\ fresh \in [Versions -> Row \cup {None}]
    BY <2>1
  <2>3. retention = [gen |-> index.gen,
                     rows |-> IF Installed = None THEN fresh
                              ELSE ApplyDesiredVersionTransition(fresh, None, Installed, 0)]
    BY DEF Init
  <2> HIDE DEF fresh
  <2>4. ApplyDesiredVersionTransition(fresh, None, Installed, 0)[v] \in Row
    <3>1. \A row \in Row \cup {None}, e \in Nat \cup {Never} : Transitioned(row, 0, e) \in Row
      BY DEF Transitioned, Row, Never
    <3>2. 0 + DeployedRetention \in Nat \cup {Never} /\ Never \in Nat \cup {Never}
      BY SMTT(60), CatalogConstants
    <3> DEFINE first == [w \in Versions |->
                           IF w = None THEN Transitioned(fresh[w], 0, 0 + DeployedRetention)
                           ELSE fresh[w]]
    <3>3. first \in [Versions -> Row \cup {None}] /\ first[v] \in Row
      BY <2>1, <2>2, <3>1, <3>2
    <3>4. ApplyDesiredVersionTransition(fresh, None, Installed, 0)
            = [first EXCEPT ![Installed] = Transitioned(first[Installed], 0, Never)]
      BY DEF ApplyDesiredVersionTransition
    <3>5. CASE v = Installed
      <4>1. first[v] \in Row \cup {None}
        BY <3>3
      <4>2. Transitioned(first[v], 0, Never) \in Row
        BY <3>1, <3>2, <4>1
      <4>3. [first EXCEPT ![Installed] = Transitioned(first[Installed], 0, Never)][v]
              = Transitioned(first[v], 0, Never)
        BY <2>1, <3>5
      <4> QED BY <3>4, <4>2, <4>3
    <3> HIDE DEF first
    <3>6. CASE v # Installed
      BY <2>1, <3>3, <3>4, <3>6
    <3> QED BY <3>5, <3>6
  <2>5. retention.rows[v] \in Row
    BY <2>2, <2>3, <2>4
  <2> QED BY <2>5, NoneIsNoValue
<1>8. IndexedIsComplete
  <2>1. ASSUME NEW v \in Versions, index.rows[v] # None
        PROVE  /\ entry[v] = index.rows[v]
               /\ artifact[v] = digest[index.rows[v].decl]
               /\ retention.rows[v] # None
    <3>1. entry[v] = index.rows[v] /\ entry[v] # None
      BY <1>3, <2>1
    <3>2. PICK d \in Seeded : v = VersionOf[d]
      BY <1>5, <3>1
    <3>3. retention.rows[v] # None
      BY <1>7, <3>2
    <3>4. entry[v].decl = d /\ artifact[v] = digest[d]
      BY <1>4, <3>2
    <3> QED BY <3>1, <3>3, <3>4
  <2> QED BY <2>1 DEF IndexedIsComplete
<1>9. RetentionTouched /\ \A p \in Publishers : UnderWay(p)
  BY DEF Init, IdlePublisher, IdlePrune, RetentionTouched, UnderWay, Evaluated, Identified
<1> QED BY <1>1, <1>6, <1>8, <1>9 DEF CompleteInv

LEMMA CompleteAlways == Spec => []CompleteInv
BY InitComplete, CompleteStep, PTL DEF Spec

\* The index is written last: a listed version that prune has not touched has
\* its entry, the artifact its declaration names and a retention row, however
\* the calls of rival declarations, selections, prune commands and crashes fall
\* between the three writes.
THEOREM IndexedComplete == Spec => []IndexedIsComplete
<1>1. CompleteInv => IndexedIsComplete
  BY DEF CompleteInv
<1> QED BY <1>1, CompleteAlways, PTL

\* At most one of the declarations of a version is answered "published" before
\* prune removes the version: the answer is given for the declaration in the
\* entry, and only prune removes an entry.
THEOREM OneDeclaration == Spec => []OneDeclarationPerVersion
<1>1. CompleteInv => OneDeclarationPerVersion
  BY DEF CompleteInv, AnsweredHasEntry, OneDeclarationPerVersion
<1> QED BY <1>1, CompleteAlways, PTL

\* What Preflight of a publish that starts over finds: wherever the earlier one
\* was interrupted, no row of another declaration, no other entry and no other
\* artifact.  (The three facts are the guard of Prepare; with them
\* InterruptedPublishResumes says that the step is enabled.)
PreflightPasses ==
    \A p \in Publishers :
        (pub[p].pc = "idle" /\ V(p) \notin touched /\ ~Published(Declares[p])
           /\ entry[V(p)] # None /\ entry[V(p)].decl = Declares[p])
        => /\ index.rows[V(p)] = None
           /\ EntryMatches(Declares[p], clock)
           /\ ArtifactMatches(Declares[p])

\* An identical Finalize retry gets past Preflight, wherever the first call was
\* interrupted, unless the version is published, another declaration has it or
\* prune has touched it.
THEOREM RetryPassesPreflight == Spec => []PreflightPasses
<1>1. CompleteInv => PreflightPasses
  <2> SUFFICES ASSUME CompleteInv, NEW p \in Publishers, V(p) \notin touched,
                      ~Published(Declares[p]),
                      entry[V(p)] # None, entry[V(p)].decl = Declares[p]
               PROVE  /\ index.rows[V(p)] = None
                      /\ EntryMatches(Declares[p], clock)
                      /\ ArtifactMatches(Declares[p])
    BY DEF PreflightPasses
  <2>1. V(p) \in Versions \ touched
    BY VersionTypes
  <2>2. index.rows[V(p)] = None
    BY <2>1 DEF CompleteInv, IndexedIsComplete, Published, V
  <2>3. ArtifactMatches(Declares[p])
    BY <2>1 DEF CompleteInv, EntryHasArtifact, ArtifactMatches, V
  <2> QED BY <2>2, <2>3 DEF EntryMatches, V
<1> QED BY <1>1, CompleteAlways, PTL

=============================================================================
