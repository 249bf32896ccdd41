------------------------- MODULE MCHeartbeatRollout -------------------------
(* A small fleet for TLC.                                                   *)
EXTENDS HeartbeatRollout, TLC

CONSTANTS i1, i2, s1, s2

\* All replicas built from one source, or one from the next.
OneSource == [i \in Instances |-> s1]
TwoSources == [i \in Instances |-> IF i = i2 THEN s2 ELSE s1]

Symmetry == Permutations(Instances)
=============================================================================
