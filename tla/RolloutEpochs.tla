--------------------------- MODULE RolloutEpochs ---------------------------
(***************************************************************************)
(* What the rollout row of an app promises to everyone who reads it: the    *)
(* app has at most one rollout in progress, a rollout ends once, and what   *)
(* ended is replaced or reopened only as a new epoch with a later creation  *)
(* time.  Written for both rollout modes: a heartbeat rollout has no        *)
(* enrollment phase.                                                        *)
(***************************************************************************)
EXTENDS Naturals

CONSTANTS Versions, Sources, NoEpoch

VARIABLE epoch   \* NoEpoch, or the current epoch of the app

EpochStates == {"enrolling", "restarting", "complete", "failed"}
Epoch == [version : Versions, mode : {"enrollment", "heartbeat"}, target : Sources,
          created : Nat, state : EpochStates]

Init == epoch = NoEpoch

InProgress == epoch # NoEpoch /\ epoch.state \in {"enrolling", "restarting"}

FirstState(mode) == IF mode = "heartbeat" THEN "restarting" ELSE "enrolling"

NewEpoch(v) ==
    /\ epoch' \in Epoch
    /\ epoch'.version = v
    /\ epoch'.state = FirstState(epoch'.mode)
    /\ epoch # NoEpoch => epoch'.created > epoch.created

\* Another version, or the same one again, once nothing is in progress.
Start == ~InProgress /\ \E v \in Versions : NewEpoch(v)

\* The version in progress, or the one that failed, starts over.
Reopen == epoch # NoEpoch /\ epoch.state # "complete" /\ NewEpoch(epoch.version)

CloseEnrollment ==
    /\ epoch # NoEpoch /\ epoch.state = "enrolling"
    /\ epoch' = [epoch EXCEPT !.state = "restarting"]

\* A rollout is complete only from the restart phase; it may fail before it.
Complete ==
    /\ epoch # NoEpoch /\ epoch.state = "restarting"
    /\ epoch' = [epoch EXCEPT !.state = "complete"]

Fail ==
    /\ InProgress
    /\ epoch' = [epoch EXCEPT !.state = "failed"]

Next == Start \/ Reopen \/ CloseEnrollment \/ Complete \/ Fail

Spec == Init /\ [][Next]_epoch
=============================================================================
